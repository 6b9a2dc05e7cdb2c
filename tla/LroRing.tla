------------------------------- MODULE LroRing -------------------------------
(***************************************************************************)
(* The pool of LRO receive rings that local-in flows are steered to:       *)
(* airoha_get_free_lro_ring (arht_dp_api.c) hands out 2 * LRO_RING_NUM     *)
(* rings, ppe_entry_is_valid (arht_ppe.c) decides whether a reserved ring  *)
(* has lost its flow, and arht_general_offload_bind programs the FOE entry *)
(* with the ring and binds it.  All of it runs under ppe_lock, so a bind   *)
(* is one action; the hardware learns and ages entries at any time.        *)
(***************************************************************************)
EXTENDS FiniteSetsExt

CONSTANTS
    LRO_RING_NUM,    \* rings per CDM port; the pool has twice as many
    LRO_RING_START,  \* queue number of the first ring
    Entry, NoEntry,  \* FOE entries
    OtherNbq,        \* queue numbers the other binders program
    ReadMayFail      \* whether reading an entry from SRAM may time out

ASSUME RingAssumption == LRO_RING_NUM \in Nat \ {0} /\ LRO_RING_START \in Nat \ {0, 1}
ASSUME EntryAssumption == NoEntry \notin Entry /\ OtherNbq \subseteq Nat
ASSUME ReadAssumption == ReadMayFail \in BOOLEAN

Ring == 0 .. 2 * LRO_RING_NUM - 1   \* pool index i stands for ring LRO_RING_START + i
Fallback == -1                      \* the code's "return 1": ring 1, outside the pool
(* Bug: an error code is programmed as a queue. *)
FallbackNbq_Error == -1

FallbackNbq == 1
Port == {"CDM1", "CDM2", "GDM"}
FoeState == {"INVALID", "UNBIND", "BIND", "FIN"}
PacketType == {"LRO", "OTHER"}      \* IPV4_HNAPT and IPV6_ROUTE_5T, or any other

VARIABLES
    reserve,                     \* lro_ring_reserve: the entry a ring is reserved for
    state, ptype, nbq, port      \* FOE entries
vars == <<reserve, state, ptype, nbq, port>>

TypeOK ==
    /\ reserve \in [Ring -> Entry \cup {NoEntry}]
    /\ state \in [Entry -> FoeState]
    /\ ptype \in [Entry -> PacketType]
    /\ nbq \in [Entry -> Nat]
    /\ port \in [Entry -> Port]

Init ==
    /\ reserve = [i \in Ring |-> NoEntry]
    /\ state = [e \in Entry |-> "INVALID"]
    /\ ptype = [e \in Entry |-> "OTHER"]
    /\ nbq = [e \in Entry |-> 0]
    /\ port = [e \in Entry |-> "GDM"]

(* How a ring is programmed: the second half of the pool repeats the queue *)
(* numbers of the first on the other CDM port.                             *)
NbqOf(i) == IF i < LRO_RING_NUM THEN LRO_RING_START + i
            ELSE LRO_RING_START + i - LRO_RING_NUM
PortOf(i) == IF i < LRO_RING_NUM THEN "CDM1" ELSE "CDM2"

(* Bug: an entry the engine invalidated is not noticed. *)
Aged_KeepInvalid(i, unread) ==
    LET e == reserve[i] IN e \in unread \/ ptype[e] # "LRO" \/ nbq[e] # NbqOf(i)

(* ppe_entry_is_valid returns non-zero, which its caller takes for "aged": *)
(* the entry cannot be read, has another type, is INVALID, or carries      *)
(* another queue number.  The port is not compared.                        *)
Aged(i, unread) ==
    LET e == reserve[i]
    IN  \/ e \in unread
        \/ ptype[e] # "LRO"
        \/ state[e] = "INVALID"
        \/ nbq[e] # NbqOf(i)

(* airoha_get_free_lro_ring: the first reserved ring that aged out or is   *)
(* already the entry's, else the first free one, else the fallback.        *)
Taken(e, unread) == {i \in Ring : reserve[i] # NoEntry /\ (Aged(i, unread) \/ reserve[i] = e)}
(* Bug: the scan for a free ring does not look whether it is free. *)
FreeRing_Any == Ring

FreeRing == {i \in Ring : reserve[i] = NoEntry}
GetFreeRing(e, unread) ==
    IF Taken(e, unread) # {} THEN Min(Taken(e, unread))
    ELSE IF FreeRing # {} THEN Min(FreeRing)
    ELSE Fallback

Unread(e) == IF ReadMayFail THEN SUBSET (Entry \ {e}) ELSE {{}}

(* arht_general_offload_bind for a local-in packet.  The ring is taken     *)
(* before the packet type is looked at; the commit turns UNBIND into BIND  *)
(* and leaves an entry that aged in the meantime as it is.                 *)
LocalInBind(e, unread) ==
    LET r == GetFreeRing(e, unread)
    IN  /\ state[e] # "BIND"
        /\ reserve' = [i \in Ring |-> IF i = r THEN e ELSE reserve[i]]
        /\ nbq' = [nbq EXCEPT ![e] =
                     IF ptype[e] # "LRO" THEN @ ELSE IF r = Fallback THEN FallbackNbq ELSE NbqOf(r)]
        /\ port' = [port EXCEPT ![e] =
                     IF ptype[e] # "LRO" THEN @ ELSE IF r = Fallback THEN "CDM1" ELSE PortOf(r)]
        /\ state' = [state EXCEPT ![e] = IF @ = "UNBIND" THEN "BIND" ELSE @]
        /\ UNCHANGED ptype

(* airoha_ppe_general_bind: the same entry is bound to an egress port. *)
ForwardBind(e, n) ==
    /\ state[e] # "BIND"
    /\ nbq' = [nbq EXCEPT ![e] = n]
    /\ port' = [port EXCEPT ![e] = "GDM"]
    /\ state' = [state EXCEPT ![e] = "BIND"]
    /\ UNCHANGED <<reserve, ptype>>

(* airoha_ppe_delete_entry *)
DeleteEntry(e) ==
    /\ state[e] = "BIND"
    /\ state' = [state EXCEPT ![e] = "INVALID"]
    /\ UNCHANGED <<reserve, ptype, nbq, port>>

(* The hardware learns a flow into an unused entry, keeping or clearing    *)
(* what the entry held, and retires entries.                               *)
HwLearn(e, t) ==
    /\ state[e] = "INVALID"
    /\ state' = [state EXCEPT ![e] = "UNBIND"]
    /\ ptype' = [ptype EXCEPT ![e] = t]
    /\ \E n \in {nbq[e], 0} : nbq' = [nbq EXCEPT ![e] = n]
    /\ UNCHANGED <<reserve, port>>

HwRetire(e) ==
    /\ state[e] # "INVALID"
    /\ state' = [state EXCEPT ![e] = IF @ = "BIND" THEN "FIN" ELSE "INVALID"]
    /\ UNCHANGED <<reserve, ptype, nbq, port>>

Next ==
    \/ \E e \in Entry : \E unread \in Unread(e) : LocalInBind(e, unread)
    \/ \E e \in Entry, n \in OtherNbq : ForwardBind(e, n)
    \/ \E e \in Entry : DeleteEntry(e)
    \/ \E e \in Entry, t \in PacketType : HwLearn(e, t)
    \/ \E e \in Entry : HwRetire(e)

Spec == Init /\ [][Next]_vars

-----------------------------------------------------------------------------
(* The entry is bound and delivers into ring i of the pool. *)
Delivers(e, i) ==
    /\ state[e] = "BIND" /\ ptype[e] = "LRO"
    /\ port[e] = PortOf(i) /\ nbq[e] = NbqOf(i)

(* Two bound local-in flows never share a pool ring, although the hardware *)
(* ages entries behind the pool's back and the validity test compares the  *)
(* queue number and not the port.                                          *)
RingExclusive ==
    \A e, f \in Entry, i \in Ring : Delivers(e, i) /\ Delivers(f, i) => e = f

(* The pool falls back to the shared ring 1 only when each of its rings is *)
(* reserved for another entry that still carries the ring's queue number.  *)
HeldWhenFallingBack ==
    \A e \in Entry :
        LocalInBind(e, {}) /\ ptype[e] = "LRO" /\ nbq'[e] = FallbackNbq =>
            \A i \in Ring : /\ reserve[i] \in Entry \ {e}
                            /\ state[reserve[i]] # "INVALID"
                            /\ nbq[reserve[i]] = NbqOf(i)
FallbackOnlyWhenAllHeld == [][HeldWhenFallingBack]_vars

=============================================================================
