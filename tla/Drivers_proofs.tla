----------------------------- MODULE Drivers_proofs -----------------------------
(***************************************************************************)
(* Theorems about the small components checked side by side.  First those  *)
(* of arht_dp_api.c that keep their own books: the pool of LRO rings, the  *)
(* transmit rings and the multicast entries, for any number of rings,      *)
(* entries, descriptors, packets, groups and ports.  Then that all of them *)
(* keep their types beside each other, with those of HwCalls_proofs.       *)
(***************************************************************************)
EXTENDS MCDrivers, HwCalls_proofs, SetLemmas, FiniteSetTheorems

(***************************************************************************)
(* The pool of LRO rings, for any number of rings, entries and queue       *)
(* numbers of the other binders.                                           *)
(***************************************************************************)
-----------------------------------------------------------------------------
(* The ring a bind takes: one that aged out or is the entry's own, or a    *)
(* free one, or the fallback when there is neither.                        *)
LEMMA RingTaken ==
    ASSUME NEW e, NEW unread
    PROVE  \/ GetFreeRing(e, unread) \in Taken(e, unread)
           \/ GetFreeRing(e, unread) \in FreeRing
           \/ /\ GetFreeRing(e, unread) = Fallback
              /\ Taken(e, unread) = {} /\ FreeRing = {}
<1>1. Taken(e, unread) \in SUBSET Nat /\ FreeRing \in SUBSET Nat
  BY DEF Taken, FreeRing, Ring
<1> QED
  BY <1>1, MinIsLeast DEF GetFreeRing

(* Pool rings are numbered from LRO_RING_START up, so none is the shared   *)
(* ring 1; and a queue number and its port name one ring only.             *)
LEMMA RingNumbers ==
    /\ \A i \in Ring : NbqOf(i) \in Nat /\ NbqOf(i) # FallbackNbq
    /\ \A i, j \in Ring : NbqOf(i) = NbqOf(j) /\ PortOf(i) = PortOf(j) => i = j
<1>1. LRO_RING_NUM \in Nat \ {0} /\ LRO_RING_START \in Nat \ {0, 1}
  BY RingAssumption
<1> QED
  BY <1>1 DEF Ring, NbqOf, PortOf, FallbackNbq

(* Every bind, deletion and hardware step keeps the fields in their        *)
(* ranges.                                                                 *)
LEMMA RingTypeStep ==
    ASSUME TypeOK, [Next]_vars
    PROVE  TypeOK'
<1> USE EntryAssumption DEF TypeOK
<1>1. ASSUME NEW e \in Entry, NEW unread, LocalInBind(e, unread)
      PROVE  TypeOK'
  <2>1. GetFreeRing(e, unread) # Fallback => GetFreeRing(e, unread) \in Ring
    BY RingTaken DEF Taken, FreeRing
  <2>2. \A i \in Ring : NbqOf(i) \in Nat /\ PortOf(i) \in Port
    BY RingNumbers DEF PortOf, Port
  <2>3. nbq' \in [Entry -> Nat] /\ port' \in [Entry -> Port]
    BY <1>1, <2>1, <2>2 DEF LocalInBind, FallbackNbq, Port
  <2> QED
    BY <1>1, <2>3 DEF LocalInBind, FoeState
<1>2. ASSUME NEW e \in Entry, NEW n \in OtherNbq, ForwardBind(e, n)
      PROVE  TypeOK'
  BY <1>2 DEF ForwardBind, FoeState, Port
<1>3. ASSUME NEW e \in Entry, NEW t \in PacketType, HwLearn(e, t)
      PROVE  TypeOK'
  BY <1>3 DEF HwLearn, FoeState
<1>4. ASSUME NEW e \in Entry, DeleteEntry(e) \/ HwRetire(e)
      PROVE  TypeOK'
  BY <1>4 DEF DeleteEntry, HwRetire, FoeState
<1>5. CASE UNCHANGED vars
  BY <1>5 DEF vars
<1> QED
  BY <1>1, <1>2, <1>3, <1>4, <1>5 DEF Next

LEMMA RingTypeInit == Init => TypeOK
BY DEF Init, TypeOK, FoeState, PacketType, Port

(* Every ring, entry and queue number stays in its range: the fallback and *)
(* the aliased half of the pool program a valid queue.                     *)
THEOREM RingTypeCorrect == Spec => []TypeOK
<1>1. Init => TypeOK
  BY RingTypeInit
<1>2. TypeOK /\ [Next]_vars => TypeOK'
  BY RingTypeStep
<1> QED
  BY <1>1, <1>2, PTL DEF Spec

-----------------------------------------------------------------------------
(* RingExclusive is not inductive: it does not say that the pool knows who *)
(* uses a ring.  A bound entry that delivers into a ring is the one the    *)
(* ring is reserved for.                                                   *)
UserReserved ==
    \A e \in Entry, i \in Ring : Delivers(e, i) => reserve[i] = e

RingInv == TypeOK /\ UserReserved

(* A bind never takes a ring from an entry that delivers into it, as long  *)
(* as the entry can be read.                                               *)
LEMMA UsedRingNotTaken ==
    ASSUME RingInv, NEW e \in Entry, state[e] # "BIND",
           NEW f \in Entry, NEW i \in Ring, Delivers(f, i)
    PROVE  GetFreeRing(e, {}) # i
<1>1. reserve[i] = f /\ state[f] = "BIND" /\ ptype[f] = "LRO" /\ nbq[f] = NbqOf(i)
  BY DEF RingInv, UserReserved, Delivers
<1>2. ~Aged(i, {})
  BY <1>1 DEF Aged
<1>3. i \notin Taken(e, {}) /\ i \notin FreeRing
  BY <1>1, <1>2, EntryAssumption DEF Taken, FreeRing
<1>4. i # Fallback
  BY RingAssumption DEF Ring, Fallback
<1> QED
  BY <1>3, <1>4, RingTaken

(* An entry that delivers into a pool ring stays the one the ring is       *)
(* reserved for, whatever the step.                                        *)
LEMMA UserReservedStep ==
    ASSUME ReadMayFail = FALSE, RingInv, [Next]_vars
    PROVE  UserReserved'
<1> USE DEF RingInv, TypeOK
<1> SUFFICES ASSUME NEW g \in Entry, NEW i \in Ring, Delivers(g, i)'
             PROVE  reserve'[i] = g
  BY DEF UserReserved
<1>1. ASSUME NEW e \in Entry, LocalInBind(e, {})
      PROVE  reserve'[i] = g
  <2> DEFINE r == GetFreeRing(e, {})
  <2>1. CASE g = e
    <3>1. ptype[e] = "LRO" /\ nbq'[e] = NbqOf(i) /\ port'[e] = PortOf(i)
      BY <1>1, <2>1 DEF Delivers, LocalInBind
    <3>2. r # Fallback
      BY <1>1, <3>1, RingNumbers DEF LocalInBind
    <3>3. r \in Ring
      BY <3>2, RingTaken DEF Taken, FreeRing
    <3>4. nbq'[e] = NbqOf(r) /\ port'[e] = PortOf(r)
      BY <1>1, <3>1, <3>2 DEF LocalInBind
    <3>5. r = i
      BY <3>1, <3>3, <3>4, RingNumbers
    <3> QED
      BY <1>1, <2>1, <3>5 DEF LocalInBind
  <2>2. CASE g # e
    <3>1. Delivers(g, i)
      BY <1>1, <2>2 DEF Delivers, LocalInBind
    <3>2. r # i
      BY <1>1, <3>1, UsedRingNotTaken DEF LocalInBind
    <3> QED
      BY <1>1, <3>1, <3>2 DEF LocalInBind, UserReserved
  <2> QED
    BY <2>1, <2>2
<1>2. ASSUME NEW e \in Entry, NEW n \in OtherNbq, ForwardBind(e, n)
      PROVE  reserve'[i] = g
  BY <1>2 DEF ForwardBind, Delivers, PortOf, UserReserved
<1>3. ASSUME NEW e \in Entry, NEW t \in PacketType, HwLearn(e, t)
      PROVE  reserve'[i] = g
  BY <1>3 DEF HwLearn, Delivers, UserReserved
<1>4. ASSUME NEW e \in Entry, DeleteEntry(e) \/ HwRetire(e)
      PROVE  reserve'[i] = g
  BY <1>4 DEF DeleteEntry, HwRetire, Delivers, UserReserved
<1>5. CASE UNCHANGED vars
  BY <1>5 DEF vars, Delivers, UserReserved
<1>6. ASSUME NEW e \in Entry, NEW unread \in Unread(e), LocalInBind(e, unread)
      PROVE  reserve'[i] = g
  BY <1>1, <1>6 DEF Unread
<1> QED
  BY <1>2, <1>3, <1>4, <1>5, <1>6 DEF Next

(* As long as SRAM reads of other entries succeed, two bound flows never   *)
(* deliver into the same pool ring, whatever the hardware retires and      *)
(* relearns behind airoha_get_free_lro_ring.                               *)
THEOREM RingExclusiveHolds ==
    ASSUME ReadMayFail = FALSE
    PROVE  Spec => []RingExclusive
<1>1. Init => RingInv
  BY DEF Init, RingInv, UserReserved, Delivers, TypeOK, FoeState, PacketType, Port
<1>2. RingInv /\ [Next]_vars => RingInv'
  BY RingTypeStep, UserReservedStep DEF RingInv
<1>3. RingInv => RingExclusive
  BY DEF RingInv, UserReserved, RingExclusive
<1> QED
  BY <1>1, <1>2, <1>3, PTL DEF Spec

(* The shared ring 1 is handed out only when every pool ring is reserved   *)
(* for another entry that is still valid and carries its queue number.     *)
THEOREM FallbackOnlyWhenAllHeldHolds == Spec => FallbackOnlyWhenAllHeld
<1>1. TypeOK => HeldWhenFallingBack
  <2> SUFFICES ASSUME TypeOK, NEW e \in Entry, LocalInBind(e, {}), ptype[e] = "LRO",
                      nbq'[e] = FallbackNbq, NEW i \in Ring
               PROVE  /\ reserve[i] \in Entry \ {e}
                      /\ state[reserve[i]] # "INVALID"
                      /\ nbq[reserve[i]] = NbqOf(i)
    BY DEF HeldWhenFallingBack
  <2> DEFINE r == GetFreeRing(e, {})
  <2>1. r \in Ring => nbq'[e] = NbqOf(r)
    BY RingAssumption DEF LocalInBind, TypeOK, Ring, Fallback
  <2>2. r \notin Ring
    BY <2>1, RingNumbers
  <2>3. Taken(e, {}) = {} /\ FreeRing = {}
    BY <2>2, RingTaken DEF Taken, FreeRing
  <2>4. reserve[i] # NoEntry /\ reserve[i] # e /\ ~Aged(i, {})
    BY <2>3 DEF Taken, FreeRing
  <2> QED
    BY <2>4 DEF TypeOK, Aged
<1> QED
  BY <1>1, RingTypeCorrect, PTL DEF FallbackOnlyWhenAllHeld

-----------------------------------------------------------------------------
(***************************************************************************)
(* The transmit rings.  A fragment after the first that cannot be mapped   *)
(* leaves the ring in disorder (see the run tx_mapping_error); the         *)
(* theorems are about rings where only a first fragment may fail,          *)
(* NoLateMappingError.  The inductive invariant TxInv adds to what is      *)
(* promised that the free list holds no descriptor twice and that the way  *)
(* of the hardware along NEXT_ID leads through every descriptor it has     *)
(* still to send to the head of that list.                                 *)
(***************************************************************************)
(* What the free list must be for RingAccounted to be inductive: no        *)
(* descriptor hangs on it twice, and its length and the count agree.       *)
FreeInv ==
    /\ \A i, j \in 1 .. Len(txList) : txList[i] = txList[j] => i = j
    /\ Listed = Desc \ InFlight
    /\ Len(txList) + queued = NDesc /\ Len(txList) >= 1

(* The ring holds the buffers it sends, and each in one descriptor.        *)
BuffersInv ==
    /\ \A d \in InFlight : entry[d].skb \in lent \cup {NoSkb}
    /\ \A d, e \in InFlight : d # e /\ entry[d].skb = entry[e].skb => entry[d].skb = NoSkb

ReportedInv == \A d \in reported : d \in InFlight /\ desc[d].done

(* The way of the hardware from where it is to the head of the free list.  *)
IsChain(m, order) ==
    /\ order \in [0 .. m -> Desc]
    /\ order[0] = dmaIdx /\ order[m] = txList[1]
    /\ \A i \in 0 .. m - 1 : order[i + 1] = desc[order[i]].next
    /\ \A i \in 0 .. m - 1 : order[i] \in Awaiting
    /\ \A d \in Awaiting : \E i \in 0 .. m - 1 : order[i] = d
    /\ \A i, j \in 0 .. m - 1 : order[i] = order[j] => i = j
    /\ \E i \in 0 .. m : order[i] = cpuIdx
ChainInv == \E m \in Nat : \E order : IsChain(m, order)

TxInv == TxTypeOK /\ FreeInv /\ BuffersInv /\ ReportedInv /\ ChainInv

(* The free list as a list.                                                *)
LEMMA FreeList ==
    ASSUME TxTypeOK
    PROVE  /\ Len(txList) \in Nat /\ DOMAIN txList = 1 .. Len(txList)
           /\ \A k \in 1 .. Len(txList) : txList[k] \in Desc
BY DEF TxTypeOK

LEMMA RemainingIs ==
    ASSUME TxTypeOK, NEW n \in Nat, n < Len(txList)
    PROVE  /\ Remaining(n) \in Seq(Desc) /\ Len(Remaining(n)) = Len(txList) - n
           /\ DOMAIN Remaining(n) = 1 .. Len(txList) - n
           /\ \A i \in 1 .. Len(txList) - n : Remaining(n)[i] = txList[n + i]
           /\ HeadIdx(Remaining(n)) = txList[n + 1]
<1>1. Remaining(n) \in Seq(Desc) /\ Len(Remaining(n)) = Len(txList) - n
  BY DEF TxTypeOK, Remaining
<1>2. \A i \in 1 .. Len(txList) - n : Remaining(n)[i] = txList[n + i]
  BY FreeList DEF TxTypeOK, Remaining
<1>3. Remaining(n) # <<>> /\ Head(Remaining(n)) = Remaining(n)[1]
  BY <1>1, FreeList
<1>4. DOMAIN Remaining(n) = 1 .. Len(Remaining(n))
  BY <1>1
<1>5. HeadIdx(Remaining(n)) = txList[n + 1]
  BY <1>2, <1>3, FreeList DEF HeadIdx
<1> QED
  BY <1>1, <1>2, <1>4, <1>5

(* A packet of n fragments that the ring takes: n descriptors leave the    *)
(* head of the list for the chain.                                         *)
Takes(s, n, h) ==
    /\ s \in Skb \ lent /\ n \in Frags /\ h \in 1 .. n /\ ~Full(n)
    /\ desc' = Written(n) /\ entry' = Holding(s, n, h, TRUE)
    /\ txList' = Remaining(n) /\ queued' = queued + n /\ lent' = lent \cup {s}
    /\ cpuIdx' \in {cpuIdx, HeadIdx(Remaining(n))}
    /\ stopped' \in BOOLEAN /\ txqStopped' \in BOOLEAN
    /\ UNCHANGED <<dmaIdx, reported>>

LEMMA TakesWhat ==
    ASSUME TxInv, NEW s, NEW n, NEW h, Takes(s, n, h)
    PROVE  /\ n \in Nat \ {0} /\ n < Len(txList)
           /\ \A k \in 1 .. n : desc'[txList[k]] = [next |-> txList[k + 1], done |-> FALSE]
           /\ \A k \in 1 .. n : entry'[txList[k]] =
                [skb |-> IF k = h THEN s ELSE NoSkb, mapped |-> TRUE]
           /\ \A d \in Desc \ Grabbed(n) : desc'[d] = desc[d] /\ entry'[d] = entry[d]
           /\ Grabbed(n) \subseteq Desc \ InFlight
<1>1. n \in Nat \ {0} /\ n < Len(txList) /\ h \in 1 .. Len(txList)
  BY TxAssumption, FreeList DEF TxInv, TxTypeOK, FreeInv, Takes, Full, Frags
<1>2. \A k \in 1 .. Len(txList) : txList[k] \in Desc \ InFlight
  BY FreeList DEF TxInv, FreeInv, Listed
<1>3. \A i, j \in 1 .. Len(txList) : txList[i] = txList[j] => i = j
  BY DEF TxInv, FreeInv
<1>4. Grabbed(n) \subseteq Desc \ InFlight
  BY <1>1, <1>2 DEF Grabbed
<1>5. ASSUME NEW k \in 1 .. n
      PROVE  /\ desc'[txList[k]] = [next |-> txList[k + 1], done |-> FALSE]
             /\ entry'[txList[k]] = [skb |-> IF k = h THEN s ELSE NoSkb, mapped |-> TRUE]
  <2>1. txList[k] \in Grabbed(n) /\ txList[k] \in Desc /\ k \in Nat /\ k <= n /\ k \in 1 .. Len(txList)
    BY <1>1, <1>2, FreeList DEF Grabbed, TxInv
  <2>2. (CHOOSE i \in 1 .. n : txList[i] = txList[k]) = k
    <3>1. \A i \in 1 .. n : txList[i] = txList[k] => i = k
      BY <1>1, <1>3, <2>1, FreeList DEF TxInv
    <3> QED
      BY <3>1
  <2>3. NextId(k) = txList[k + 1]
    <3>1. k \in Nat /\ k < Len(txList)
      BY <1>1, <2>1, FreeList DEF TxInv
    <3> QED
      BY <3>1, RemainingIs DEF NextId, TxInv
  <2>4. desc'[txList[k]] = [next |-> txList[k + 1], done |-> FALSE]
    BY <2>1, <2>2, <2>3 DEF Takes, Written
  <2>5. txList[k] = txList[h] <=> k = h
    BY <1>1, <1>3, <2>1
  <2> QED
    BY <2>1, <2>4, <2>5 DEF Takes, Holding
<1>6. \A d \in Desc \ Grabbed(n) : desc'[d] = desc[d] /\ entry'[d] = entry[d]
  BY DEF Takes, Written, Holding
<1> QED
  BY <1>1, <1>4, <1>5, <1>6

LEMMA TakesType ==
    ASSUME TxInv, NEW s, NEW n, NEW h, Takes(s, n, h)
    PROVE  TxTypeOK'
<1>1. n \in Nat \ {0} /\ n < Len(txList) /\ Grabbed(n) \subseteq Desc
  BY TakesWhat
<1>2. Remaining(n) \in Seq(Desc) /\ HeadIdx(Remaining(n)) \in Desc
  <2>1. n + 1 \in 1 .. Len(txList)
    BY <1>1, FreeList DEF TxInv
  <2>2. HeadIdx(Remaining(n)) = txList[n + 1] /\ Remaining(n) \in Seq(Desc)
    BY <1>1, RemainingIs DEF TxInv
  <2> QED
    BY <2>1, <2>2, FreeList DEF TxInv
<1>3. desc' \in [Desc -> [next : Desc, done : BOOLEAN]]
  <2>1. ASSUME NEW d \in Desc PROVE desc'[d] \in [next : Desc, done : BOOLEAN]
    <3>1. CASE d \in Grabbed(n)
      <4>1. PICK k \in 1 .. n : d = txList[k]
        BY <3>1 DEF Grabbed
      <4>2. k + 1 \in 1 .. Len(txList)
        BY <1>1, <4>1, FreeList DEF TxInv
      <4>3. desc'[d] = [next |-> txList[k + 1], done |-> FALSE]
        BY <4>1, TakesWhat
      <4> QED
        BY <4>2, <4>3, FreeList DEF TxInv
    <3>2. CASE d \notin Grabbed(n)
      BY <3>2, TakesWhat DEF TxInv, TxTypeOK
    <3> QED
      BY <3>1, <3>2
  <2>2. desc' = [d \in Desc |-> desc'[d]]
    BY DEF Takes, Written
  <2> QED
    BY <2>1, <2>2
<1>4. entry' \in [Desc -> [skb : Skb \cup {NoSkb}, mapped : BOOLEAN]]
  BY DEF Takes, Holding, TxInv, TxTypeOK
<1>5. queued' \in 0 .. NDesc
  BY <1>1, TxAssumption, FreeList DEF Takes, Full, TxInv, TxTypeOK
<1> QED
  BY <1>2, <1>3, <1>4, <1>5 DEF Takes, TxInv, TxTypeOK

LEMMA TakesSets ==
    ASSUME TxInv, NEW s, NEW n, NEW h, Takes(s, n, h)
    PROVE  /\ \A d \in Desc : d \in InFlight' <=> d \in InFlight \/ d \in Grabbed(n)
           /\ \A d \in Desc : d \in Awaiting' <=> d \in Awaiting \/ d \in Grabbed(n)
           /\ \A d \in Desc : d \in Listed' <=> d \in Listed /\ d \notin Grabbed(n)
<1>1. ASSUME NEW d \in Desc, d \in Grabbed(n)
      PROVE  entry'[d].mapped /\ ~desc'[d].done /\ d \notin Listed'
  <2>1. PICK k \in 1 .. n : d = txList[k]
    BY <1>1 DEF Grabbed
  <2>2. entry'[d].mapped /\ ~desc'[d].done
    <3>1. desc'[d] = [next |-> txList[k + 1], done |-> FALSE]
      BY <2>1, TakesWhat
    <3>2. entry'[d] = [skb |-> IF k = h THEN s ELSE NoSkb, mapped |-> TRUE]
      BY <2>1, TakesWhat
    <3> QED
      BY <3>1, <3>2
  <2>3. n \in Nat \ {0} /\ n < Len(txList)
    BY TakesWhat
  <2>4. \A i \in 1 .. Len(txList) - n : txList'[i] # d
    <3>1. \A i \in 1 .. Len(txList) - n : txList'[i] = txList[n + i]
      BY <2>3, RemainingIs DEF Takes, TxInv
    <3>2. \A i \in 1 .. Len(txList) - n : n + i \in 1 .. Len(txList) /\ n + i # k
      BY <2>1, <2>3, FreeList DEF TxInv
    <3>3. k \in 1 .. Len(txList)
      BY <2>1, <2>3, FreeList DEF TxInv
    <3> QED
      BY <2>1, <3>1, <3>2, <3>3 DEF TxInv, FreeInv
  <2>5. DOMAIN txList' = 1 .. Len(txList) - n
    BY <2>3, RemainingIs, FreeList DEF Takes, TxInv
  <2> QED
    BY <2>2, <2>4, <2>5 DEF Listed
<1>2. ASSUME NEW d \in Desc, d \notin Grabbed(n)
      PROVE  entry'[d] = entry[d] /\ desc'[d] = desc[d] /\ (d \in Listed' <=> d \in Listed)
  <2>1. n \in Nat \ {0} /\ n < Len(txList)
    BY TakesWhat
  <2>2. \A i \in 1 .. Len(txList) - n : txList'[i] = txList[n + i]
    BY <2>1, RemainingIs DEF Takes, TxInv
  <2>3. DOMAIN txList' = 1 .. Len(txList) - n
    BY <2>1, RemainingIs, FreeList DEF Takes, TxInv
  <2>4. d \in Listed' => d \in Listed
    <3>1. \A i \in 1 .. Len(txList) - n : n + i \in 1 .. Len(txList)
      BY <2>1, FreeList DEF TxInv
    <3> QED
      BY <2>2, <2>3, <3>1, FreeList DEF Listed, TxInv
  <2>5. ASSUME d \in Listed PROVE d \in Listed'
    <3>1. PICK i \in 1 .. Len(txList) : d = txList[i]
      BY <2>5, FreeList DEF Listed, TxInv
    <3>2. ~(i \in 1 .. n)
      BY <1>2, <3>1 DEF Grabbed
    <3>3. i - n \in 1 .. Len(txList) - n /\ n + (i - n) = i
      BY <2>1, <3>2, FreeList DEF TxInv
    <3>4. txList'[i - n] = d
      BY <2>2, <3>1, <3>3
    <3> QED
      BY <2>3, <3>3, <3>4 DEF Listed
  <2> QED
    BY <1>2, <2>4, <2>5, TakesWhat
<1> QED
  BY <1>1, <1>2 DEF InFlight, Awaiting

LEMMA TakesKeeps ==
    ASSUME TxInv, NEW s, NEW n, NEW h, Takes(s, n, h)
    PROVE  TxInv'
<1>0. TxTypeOK'
  BY TakesType
<1>1. n \in Nat \ {0} /\ n < Len(txList) /\ Grabbed(n) \subseteq Desc \ InFlight
  BY TakesWhat
<1>2. /\ Len(txList') = Len(txList) - n
      /\ \A i \in 1 .. Len(txList) - n : txList'[i] = txList[n + i]
  BY <1>1, RemainingIs DEF Takes, TxInv
<1>3. FreeInv'
  <2>1. \A i, j \in 1 .. Len(txList') : txList'[i] = txList'[j] => i = j
    <3>1. \A i \in 1 .. Len(txList) - n : n + i \in 1 .. Len(txList)
      BY <1>1, FreeList DEF TxInv
    <3>2. \A i, j \in 1 .. Len(txList) - n : n + i = n + j => i = j
      BY <1>1, FreeList DEF TxInv
    <3>3. ASSUME NEW i \in 1 .. Len(txList) - n, NEW j \in 1 .. Len(txList) - n, txList'[i] = txList'[j]
          PROVE  i = j
      <4>1. txList[n + i] = txList[n + j]
        BY <1>2, <3>3
      <4> QED
        BY <3>1, <3>2, <4>1 DEF TxInv, FreeInv
    <3> QED
      BY <1>2, <3>3
  <2>2. Listed' = Desc \ InFlight'
    <3>1. Listed' \subseteq Desc
      BY <1>0, FreeList DEF TxTypeOK, Listed
    <3>2. \A d \in Desc : d \in Listed' <=> d \notin InFlight'
      BY TakesSets DEF TxInv, FreeInv
    <3>3. InFlight' \subseteq Desc
      BY DEF InFlight
    <3> QED
      BY <3>1, <3>2, <3>3
  <2>3. Len(txList') + queued' = NDesc /\ Len(txList') >= 1
    <3>1. Len(txList) \in Nat /\ queued \in Nat /\ queued' = queued + n /\ Len(txList) + queued = NDesc
      BY FreeList, TxAssumption DEF Takes, TxInv, FreeInv, TxTypeOK
    <3> QED
      BY <1>1, <1>2, <3>1
  <2> QED
    BY <2>1, <2>2, <2>3 DEF FreeInv
<1>4. BuffersInv'
  <2>1. ASSUME NEW d \in InFlight'
        PROVE  \/ d \in InFlight /\ entry'[d] = entry[d] /\ d \notin Grabbed(n)
               \/ d \in Grabbed(n) /\ entry'[d].skb = NoSkb
               \/ d = txList[h] /\ entry'[d].skb = s
    <3>1. d \in Desc
      BY <2>1 DEF InFlight
    <3>2. CASE d \in Grabbed(n)
      <4>1. PICK k \in 1 .. n : d = txList[k]
        BY <3>2 DEF Grabbed
      <4>2. entry'[d] = [skb |-> IF k = h THEN s ELSE NoSkb, mapped |-> TRUE]
        BY <4>1, TakesWhat
      <4> QED
        BY <3>2, <4>1, <4>2
    <3>3. CASE d \notin Grabbed(n)
      BY <2>1, <3>1, <3>3, TakesWhat, TakesSets
    <3> QED
      BY <3>2, <3>3
  <2>2. s # NoSkb /\ s \notin lent /\ lent' = lent \cup {s}
    BY TxAssumption DEF Takes
  <2>3. \A d \in InFlight : entry[d].skb # s
    BY <2>2 DEF TxInv, BuffersInv
  <2>4. \A d \in InFlight' : entry'[d].skb \in lent' \cup {NoSkb}
    BY <2>1, <2>2 DEF TxInv, BuffersInv
  <2>5. ASSUME NEW d \in InFlight', NEW e \in InFlight', d # e, entry'[d].skb = entry'[e].skb
        PROVE  entry'[d].skb = NoSkb
    BY <2>1, <2>2, <2>3, <2>5 DEF TxInv, BuffersInv
  <2> QED
    BY <2>4, <2>5 DEF BuffersInv
<1>5. ReportedInv'
  <2>1. ASSUME NEW d \in reported PROVE d \in InFlight' /\ desc'[d].done
    <3>1. d \in Desc \ Grabbed(n) /\ d \in InFlight /\ desc[d].done
      BY <1>1, <2>1 DEF TxInv, ReportedInv, InFlight
    <3> QED
      BY <3>1, TakesWhat, TakesSets
  <2> QED
    BY <2>1 DEF ReportedInv, Takes
<1>6. ChainInv'
  <2>1. PICK m \in Nat : \E order : IsChain(m, order)
    BY DEF TxInv, ChainInv
  <2>2. PICK order : IsChain(m, order)
    BY <2>1
  <2>3. PICK new : new = [i \in 0 .. m + n |-> IF i < m THEN order[i] ELSE txList[i - m + 1]]
    OBVIOUS
  <2>4. \A i \in 0 .. m : new[i] = order[i]
    BY <1>1, <2>2, <2>3 DEF IsChain
  <2>5. \A k \in 1 .. n + 1 : m + k - 1 \in 0 .. m + n /\ new[m + k - 1] = txList[k]
    <3>1. ASSUME NEW k \in 1 .. n + 1 PROVE m + k - 1 \in 0 .. m + n /\ new[m + k - 1] = txList[k]
      <4>1. m + k - 1 \in 0 .. m + n /\ ~(m + k - 1 < m) /\ (m + k - 1) - m + 1 = k
        BY <1>1
      <4> QED
        BY <2>3, <4>1
    <3> QED
      BY <3>1
  <2>6. \A i \in 0 .. m + n : i \in 0 .. m - 1 \/ \E k \in 1 .. n + 1 : i = m + k - 1
    <3>1. ASSUME NEW i \in 0 .. m + n, ~(i \in 0 .. m - 1) PROVE \E k \in 1 .. n + 1 : i = m + k - 1
      <4>1. i - m + 1 \in 1 .. n + 1 /\ i = m + (i - m + 1) - 1
        BY <1>1, <3>1
      <4> QED
        BY <4>1
    <3> QED
      BY <3>1
  <2>7. \A i \in 0 .. (m + n) - 1 : i \in 0 .. m - 1 \/ \E k \in 1 .. n : i = m + k - 1
    <3>1. ASSUME NEW i \in 0 .. (m + n) - 1, ~(i \in 0 .. m - 1) PROVE \E k \in 1 .. n : i = m + k - 1
      <4>1. i - m + 1 \in 1 .. n /\ i = m + (i - m + 1) - 1
        BY <1>1, <3>1
      <4> QED
        BY <4>1
    <3> QED
      BY <3>1
  <2>8. \A k \in 1 .. n + 1 : k \in 1 .. Len(txList) /\ txList[k] \in Desc /\ txList[k] \notin InFlight
    BY <1>1, FreeList DEF TxInv, FreeInv, Listed
  <2>9. new \in [0 .. m + n -> Desc]
    <3>1. \A i \in 0 .. m + n : new[i] \in Desc
      <4>1. \A i \in 0 .. m - 1 : new[i] \in Desc
        <5>1. \A i \in 0 .. m - 1 : i \in 0 .. m
          OBVIOUS
        <5>2. \A i \in 0 .. m : order[i] \in Desc
          BY <2>2 DEF IsChain
        <5> QED
          BY <2>4, <5>1, <5>2
      <4>2. \A k \in 1 .. n + 1 : new[m + k - 1] \in Desc
        BY <2>5, <2>8
      <4> QED
        BY <2>6, <4>1, <4>2
    <3> QED
      BY <2>3, <3>1
  <2>10. new[0] = dmaIdx' /\ new[m + n] = txList'[1]
    <3>1. n + 1 \in 1 .. n + 1 /\ m + (n + 1) - 1 = m + n /\ 0 \in 0 .. m /\ 1 \in 1 .. Len(txList) - n
      BY <1>1, FreeList DEF TxInv
    <3>2. new[m + n] = txList[n + 1]
      BY <2>5, <3>1
    <3> QED
      BY <1>2, <2>2, <2>4, <3>1, <3>2 DEF IsChain, Takes
  <2>11. \A i \in 0 .. (m + n) - 1 : new[i + 1] = desc'[new[i]].next /\ new[i] \in Awaiting'
    <3>1. ASSUME NEW i \in 0 .. m - 1 PROVE new[i + 1] = desc'[new[i]].next /\ new[i] \in Awaiting'
      <4>1. i \in 0 .. m /\ i + 1 \in 0 .. m
        OBVIOUS
      <4>2. new[i] = order[i] /\ new[i + 1] = order[i + 1] /\ order[i] \in Awaiting
        BY <2>2, <2>4, <4>1 DEF IsChain
      <4>3. order[i] \in Desc \ Grabbed(n)
        BY <1>1, <4>2 DEF Awaiting, InFlight
      <4>4. order[i + 1] = desc[order[i]].next
        BY <2>2 DEF IsChain
      <4>5. desc'[order[i]] = desc[order[i]]
        BY <4>3, TakesWhat
      <4>6. order[i] \in Awaiting'
        BY <4>2, <4>3, TakesSets
      <4> QED
        BY <4>2, <4>4, <4>5, <4>6
    <3>2. ASSUME NEW k \in 1 .. n
          PROVE  new[(m + k - 1) + 1] = desc'[new[m + k - 1]].next /\ new[m + k - 1] \in Awaiting'
      <4>1. k \in 1 .. n + 1 /\ k + 1 \in 1 .. n + 1 /\ (m + k - 1) + 1 = m + (k + 1) - 1
        BY <1>1
      <4>2. new[m + k - 1] = txList[k] /\ new[(m + k - 1) + 1] = txList[k + 1]
        BY <2>5, <4>1
      <4>3. txList[k] \in Grabbed(n) /\ txList[k] \in Desc
        BY <2>8, <4>1 DEF Grabbed
      <4>4. desc'[txList[k]] = [next |-> txList[k + 1], done |-> FALSE]
        BY TakesWhat
      <4>5. txList[k] \in Awaiting'
        BY <4>3, TakesSets
      <4> QED
        BY <4>2, <4>4, <4>5
    <3> QED
      BY <2>7, <3>1, <3>2
  <2>12. ASSUME NEW d \in Awaiting' PROVE \E i \in 0 .. (m + n) - 1 : new[i] = d
    <3>0. d \in Desc
      BY DEF Awaiting, InFlight
    <3>1. CASE d \in Grabbed(n)
      <4>1. PICK k \in 1 .. n : d = txList[k]
        BY <3>1 DEF Grabbed
      <4>2. k \in 1 .. n + 1 /\ m + k - 1 \in 0 .. (m + n) - 1
        BY <1>1
      <4> QED
        BY <2>5, <4>1, <4>2
    <3>2. CASE d \in Awaiting
      <4>1. PICK i \in 0 .. m - 1 : order[i] = d
        BY <2>2, <3>2 DEF IsChain
      <4>2. i \in 0 .. m /\ i \in 0 .. (m + n) - 1
        BY <1>1
      <4> QED
        BY <2>4, <4>1, <4>2
    <3> QED
      BY <3>0, <3>1, <3>2, TakesSets
  <2>13. \A i, j \in 0 .. (m + n) - 1 : new[i] = new[j] => i = j
    <3>1. ASSUME NEW i \in 0 .. m - 1, NEW j \in 0 .. m - 1, new[i] = new[j] PROVE i = j
      <4>1. i \in 0 .. m /\ j \in 0 .. m
        OBVIOUS
      <4> QED
        BY <2>2, <2>4, <3>1, <4>1 DEF IsChain
    <3>2. ASSUME NEW i \in 0 .. m - 1, NEW k \in 1 .. n PROVE new[i] # new[m + k - 1]
      <4>1. i \in 0 .. m /\ k \in 1 .. n + 1
        BY <1>1
      <4>2. new[i] = order[i] /\ order[i] \in InFlight
        BY <2>2, <2>4, <4>1 DEF IsChain, Awaiting
      <4> QED
        BY <2>5, <2>8, <4>1, <4>2
    <3>3. ASSUME NEW i \in 1 .. n, NEW j \in 1 .. n, new[m + i - 1] = new[m + j - 1] PROVE i = j
      <4>1. i \in 1 .. n + 1 /\ j \in 1 .. n + 1
        BY <1>1
      <4>2. txList[i] = txList[j]
        BY <2>5, <3>3, <4>1
      <4>3. i \in 1 .. Len(txList) /\ j \in 1 .. Len(txList)
        BY <2>8, <4>1
      <4> QED
        BY <4>2, <4>3 DEF TxInv, FreeInv
    <3>4. ASSUME NEW i \in 0 .. (m + n) - 1, NEW j \in 0 .. (m + n) - 1, new[i] = new[j] PROVE i = j
      <4>1. CASE i \in 0 .. m - 1 /\ j \in 0 .. m - 1
        BY <3>1, <3>4, <4>1
      <4>2. CASE i \in 0 .. m - 1 /\ \E k \in 1 .. n : j = m + k - 1
        BY <3>2, <3>4, <4>2
      <4>3. CASE j \in 0 .. m - 1 /\ \E k \in 1 .. n : i = m + k - 1
        BY <3>2, <3>4, <4>3
      <4>4. CASE (\E k \in 1 .. n : i = m + k - 1) /\ (\E k \in 1 .. n : j = m + k - 1)
        <5>1. PICK k \in 1 .. n : i = m + k - 1
          BY <4>4
        <5>2. PICK l \in 1 .. n : j = m + l - 1
          BY <4>4
        <5> QED
          BY <3>3, <3>4, <5>1, <5>2
      <4> QED
        BY <2>7, <4>1, <4>2, <4>3, <4>4
    <3> QED
      BY <3>4
  <2>14. \E i \in 0 .. m + n : new[i] = cpuIdx'
    <3>1. CASE cpuIdx' = cpuIdx
      <4>1. PICK i \in 0 .. m : order[i] = cpuIdx
        BY <2>2 DEF IsChain
      <4>2. i \in 0 .. m + n
        BY <1>1
      <4> QED
        BY <2>4, <3>1, <4>1, <4>2
    <3>2. CASE cpuIdx' = HeadIdx(Remaining(n))
      <4>1. cpuIdx' = txList[n + 1]
        BY <1>1, <3>2, RemainingIs DEF TxInv
      <4>2. n + 1 \in 1 .. n + 1
        BY <1>1
      <4> QED
        BY <2>5, <4>1, <4>2
    <3> QED
      BY <3>1, <3>2 DEF Takes
  <2>15. m + n \in Nat
    BY <1>1
  <2>16. IsChain(m + n, new)'
    BY <2>9, <2>10, <2>11, <2>12, <2>13, <2>14 DEF IsChain
  <2> QED
    BY <2>15, <2>16 DEF ChainInv
<1> QED
  BY <1>0, <1>3, <1>4, <1>5, <1>6 DEF TxInv

LEMMA SendTakes ==
    ASSUME TxInv, NEW n \in Frags, NEW s \in Skb,
           \/ \E by \in Routine, more \in BOOLEAN : Send(by, s, n, more)
           \/ \E more \in BOOLEAN : DevXmit(s, n, more)
    PROVE  TxInv'
<1>1. 1 \in 1 .. n /\ n \in 1 .. n
  BY TxAssumption DEF Frags
<1>2. ASSUME NEW by \in Routine, NEW more \in BOOLEAN, Send(by, s, n, more)
      PROVE  Takes(s, n, 1)
  <2>1. stopped' \in BOOLEAN /\ txqStopped' \in BOOLEAN
    BY <1>2 DEF Send, RingAndStop, TxInv, TxTypeOK
  <2>2. cpuIdx' \in {cpuIdx, HeadIdx(Remaining(n))}
    BY <1>2 DEF Send, RingAndStop
  <2> QED
    BY <1>1, <1>2, <2>1, <2>2 DEF Send, Takes
<1>3. ASSUME NEW more \in BOOLEAN, DevXmit(s, n, more)
      PROVE  Takes(s, n, n)
  <2>1. stopped' \in BOOLEAN /\ txqStopped' \in BOOLEAN
    BY <1>3 DEF DevXmit, TxInv, TxTypeOK
  <2>2. cpuIdx' \in {cpuIdx, HeadIdx(Remaining(n))}
    BY <1>3 DEF DevXmit
  <2> QED
    BY <1>1, <1>3, <2>1, <2>2 DEF DevXmit, Takes
<1> QED
  BY <1>2, <1>3, TakesKeeps

(* A first fragment that cannot be mapped: nothing was taken yet.          *)
LEMMA UnmappableFirst ==
    ASSUME TxInv, NEW s \in Skb, NEW n \in Frags, SendUnmappable(s, n, 1)
    PROVE  UNCHANGED txVars
<1>1. Grabbed(0) = {}
  BY DEF Grabbed
<1>2. desc' = desc
  BY <1>1 DEF SendUnmappable, Written, TxInv, TxTypeOK
<1>3. txList' = txList
  <2>1. txList \in Seq(Desc)
    BY DEF TxInv, TxTypeOK
  <2>2. Remaining(0) = txList /\ SubSeq(txList, 1, 0) = <<>>
    BY <2>1 DEF Remaining
  <2> QED
    BY <2>1, <2>2 DEF SendUnmappable, Returned
<1> QED
  BY <1>2, <1>3 DEF SendUnmappable, txVars

LEMMA FullKeeps ==
    ASSUME TxInv,
           \/ \E n \in Frags : DevXmitFull(n) \/ \E by \in Routine : SendFull(by, n)
           \/ UNCHANGED txVars
    PROVE  TxInv'
<1>1. /\ UNCHANGED <<txList, entry, desc, queued, cpuIdx, dmaIdx, reported, lent>>
      /\ stopped' \in BOOLEAN /\ txqStopped' \in BOOLEAN
  BY DEF DevXmitFull, SendFull, TxInv, TxTypeOK, txVars
<1>2. InFlight' = InFlight /\ Listed' = Listed /\ Awaiting' = Awaiting
  BY <1>1 DEF InFlight, Listed, Awaiting
<1>3. TxTypeOK'
  BY <1>1 DEF TxInv, TxTypeOK
<1>4. FreeInv' /\ BuffersInv' /\ ReportedInv'
  BY <1>1, <1>2 DEF TxInv, FreeInv, BuffersInv, ReportedInv
<1>5. ChainInv'
  <2>1. PICK m \in Nat : \E order : IsChain(m, order)
    BY DEF TxInv, ChainInv
  <2>2. PICK order : IsChain(m, order)
    BY <2>1
  <2>3. IsChain(m, order)'
    BY <1>1, <1>2, <2>2 DEF IsChain
  <2> QED
    BY <2>1, <2>3 DEF ChainInv
<1> QED
  BY <1>3, <1>4, <1>5 DEF TxInv

(* Short of the doorbell the hardware stands at a descriptor that awaits   *)
(* it: a chain that is not at its end.                                     *)
LEMMA ShortOfDoorbell ==
    ASSUME TxInv, dmaIdx # cpuIdx, NEW m \in Nat, NEW order, IsChain(m, order)
    PROVE  0 \in 0 .. m - 1 /\ dmaIdx \in Awaiting
<1>1. PICK c \in 0 .. m : order[c] = cpuIdx
  BY DEF IsChain
<1>2. c # 0
  BY <1>1 DEF IsChain
<1>3. 0 \in 0 .. m - 1
  BY <1>2
<1> QED
  BY <1>3 DEF IsChain

LEMMA HwSendKeeps ==
    ASSUME TxInv, HwSend
    PROVE  TxInv'
<1>1. PICK m \in Nat : \E order : IsChain(m, order)
  BY DEF TxInv, ChainInv
<1>2. PICK order : IsChain(m, order)
  BY <1>1
<1>3. dmaIdx \in Awaiting /\ 0 \in 0 .. m - 1 /\ dmaIdx \in Desc
  BY <1>2, ShortOfDoorbell DEF HwSend, Awaiting, InFlight
<1>4. /\ desc' = [desc EXCEPT ![dmaIdx].done = TRUE]
      /\ reported' = reported \cup {dmaIdx} /\ dmaIdx' = desc[dmaIdx].next
      /\ UNCHANGED <<txList, entry, queued, cpuIdx, stopped, txqStopped, lent>>
  BY DEF HwSend
<1>5. TxTypeOK'
  BY <1>3, <1>4 DEF TxInv, TxTypeOK
<1>6. /\ \A d \in Desc : d # dmaIdx => desc'[d] = desc[d]
      /\ desc'[dmaIdx].done
  BY <1>3, <1>4 DEF TxInv, TxTypeOK
<1>7. InFlight' = InFlight /\ Listed' = Listed
  BY <1>4 DEF InFlight, Listed
<1>8. FreeInv' /\ BuffersInv'
  BY <1>4, <1>7 DEF TxInv, FreeInv, BuffersInv
<1>9. ReportedInv'
  BY <1>3, <1>4, <1>6, <1>7 DEF TxInv, ReportedInv, Awaiting, InFlight
<1>10. \A d \in Desc : d \in Awaiting' <=> d \in Awaiting /\ d # dmaIdx
  BY <1>6, <1>7 DEF Awaiting
<1>11. ChainInv'
  <2>1. PICK new : new = [i \in 0 .. m - 1 |-> order[i + 1]]
    OBVIOUS
  <2>2. m - 1 \in Nat /\ \A i \in 0 .. m - 1 : i + 1 \in 0 .. m /\ i \in 0 .. m
    BY <1>3
  <2>3. \A i \in 0 .. (m - 1) - 1 : i + 1 \in 0 .. m - 1 /\ i \in 0 .. m - 1 /\ (i + 1) + 1 \in 0 .. m
    BY <2>2
  <2>4. \A i \in 0 .. (m - 1) - 1 : order[i + 1] # dmaIdx
    <3>1. \A i \in 0 .. (m - 1) - 1 : i + 1 # 0
      OBVIOUS
    <3> QED
      BY <1>2, <1>3, <2>3, <3>1 DEF IsChain
  <2>5. new \in [0 .. m - 1 -> Desc] /\ new[0] = dmaIdx'
    BY <1>2, <1>3, <1>4, <2>1, <2>2 DEF IsChain
  <2>6. new[m - 1] = txList'[1]
    BY <1>2, <1>3, <1>4, <2>1, <2>2 DEF IsChain
  <2>7. ASSUME NEW i \in 0 .. (m - 1) - 1
        PROVE  new[i + 1] = desc'[new[i]].next /\ new[i] \in Awaiting'
    <3>1. new[i] = order[i + 1] /\ new[i + 1] = order[(i + 1) + 1]
      BY <2>1, <2>3
    <3>2. order[i + 1] \in Awaiting /\ order[i + 1] # dmaIdx /\ order[(i + 1) + 1] = desc[order[i + 1]].next
      BY <1>2, <2>3, <2>4 DEF IsChain
    <3> QED
      BY <1>6, <1>10, <3>1, <3>2 DEF Awaiting, InFlight
  <2>8. ASSUME NEW d \in Awaiting' PROVE \E i \in 0 .. (m - 1) - 1 : new[i] = d
    <3>1. d \in Awaiting /\ d # dmaIdx
      BY <1>10 DEF Awaiting, InFlight
    <3>2. PICK i \in 0 .. m - 1 : order[i] = d
      BY <1>2, <3>1 DEF IsChain
    <3>3. i # 0
      BY <1>2, <3>1, <3>2 DEF IsChain
    <3>4. i - 1 \in 0 .. (m - 1) - 1 /\ (i - 1) + 1 = i /\ i - 1 \in 0 .. m - 1
      BY <3>3
    <3>5. new[i - 1] = d
      BY <2>1, <3>2, <3>4
    <3> QED
      BY <3>4, <3>5
  <2>9. ASSUME NEW i \in 0 .. (m - 1) - 1, NEW j \in 0 .. (m - 1) - 1, new[i] = new[j]
        PROVE  i = j
    <3>1. order[i + 1] = order[j + 1]
      BY <2>1, <2>3, <2>9
    <3>2. i + 1 = j + 1
      BY <1>2, <2>3, <3>1 DEF IsChain
    <3> QED
      BY <3>2
  <2>10. \E i \in 0 .. m - 1 : new[i] = cpuIdx'
    <3>1. PICK c \in 0 .. m : order[c] = cpuIdx
      BY <1>2 DEF IsChain
    <3>2. c # 0
      BY <1>2, <3>1 DEF IsChain, HwSend
    <3>3. c - 1 \in 0 .. m - 1 /\ (c - 1) + 1 = c
      BY <3>2
    <3>4. new[c - 1] = cpuIdx'
      BY <1>4, <2>1, <3>1, <3>3
    <3> QED
      BY <3>3, <3>4
  <2>11. IsChain(m - 1, new)'
    BY <2>5, <2>6, <2>7, <2>8, <2>9, <2>10 DEF IsChain
  <2> QED
    BY <2>2, <2>11 DEF ChainInv
<1> QED
  BY <1>5, <1>8, <1>9, <1>11 DEF TxInv

(* A report of a descriptor gives it and its buffer back; it is at the     *)
(* tail of the list then, and nothing the hardware awaits has moved.       *)
LEMMA PollKeeps ==
    ASSUME TxInv, NEW d \in Desc, Poll(d)
    PROVE  TxInv'
<1>1. d \in InFlight /\ desc[d].done /\ reported' = reported \ {d} /\ UNCHANGED <<desc, cpuIdx, dmaIdx>>
  BY DEF Poll, TxInv, ReportedInv
<1>2. CASE queued = 0 \/ ~desc[d].done
  <2>1. UNCHANGED <<txList, entry, queued, stopped, txqStopped, lent>>
    BY <1>2 DEF Poll
  <2>2. InFlight' = InFlight /\ Listed' = Listed /\ Awaiting' = Awaiting
    BY <1>1, <2>1 DEF InFlight, Listed, Awaiting
  <2>3. TxTypeOK'
    BY <1>1, <2>1 DEF TxInv, TxTypeOK
  <2>4. FreeInv' /\ BuffersInv'
    BY <2>1, <2>2 DEF TxInv, FreeInv, BuffersInv
  <2>5. ReportedInv'
    BY <1>1, <2>2 DEF TxInv, ReportedInv
  <2>6. ChainInv'
    <3>1. UNCHANGED <<txList, desc, cpuIdx, dmaIdx>> /\ Awaiting' = Awaiting
      BY <1>1, <2>1, <2>2
    <3>2. PICK m \in Nat : \E order : IsChain(m, order)
      BY DEF TxInv, ChainInv
    <3>3. PICK order : IsChain(m, order)
      BY <3>2
    <3>4. IsChain(m, order)'
      BY <3>1, <3>3 DEF IsChain
    <3> QED
      BY <3>2, <3>4 DEF ChainInv
  <2> QED
    BY <2>3, <2>4, <2>5, <2>6 DEF TxInv
<1>3. CASE ~(queued = 0 \/ ~desc[d].done)
  <2>1. /\ entry' = [entry EXCEPT ![d].mapped = FALSE] /\ txList' = Append(txList, d)
        /\ queued' = queued - 1 /\ lent' = lent \ {entry[d].skb}
        /\ stopped' \in BOOLEAN /\ txqStopped' \in BOOLEAN
    BY <1>3 DEF Poll, TxInv, TxTypeOK
  <2>2. /\ Len(txList) \in Nat \ {0} /\ Len(txList') = Len(txList) + 1
        /\ \A i \in 1 .. Len(txList) : txList'[i] = txList[i]
        /\ txList'[Len(txList) + 1] = d
        /\ txList' \in Seq(Desc) /\ DOMAIN txList' = 1 .. Len(txList) + 1
    BY <2>1 DEF TxInv, TxTypeOK, FreeInv
  <2>3. queued \in Nat \ {0} /\ queued' \in 0 .. NDesc
    BY <1>3, <2>1, TxAssumption DEF TxInv, TxTypeOK
  <2>4. TxTypeOK'
    BY <1>1, <2>1, <2>2, <2>3 DEF TxInv, TxTypeOK
  <2>5. /\ \A e \in Desc : e # d => entry'[e] = entry[e]
        /\ ~entry'[d].mapped
    BY <2>1 DEF TxInv, TxTypeOK
  <2>6. \A e \in Desc : e \in InFlight' <=> e \in InFlight /\ e # d
    BY <2>5 DEF InFlight
  <2>7. \A e \in Desc : e \in Listed' <=> e \in Listed \/ e = d
    <3>1. Len(txList) + 1 \in DOMAIN txList' /\ DOMAIN txList = 1 .. Len(txList)
      BY <2>2, FreeList DEF TxInv
    <3>2. \A i \in 1 .. Len(txList) + 1 : i \in 1 .. Len(txList) \/ i = Len(txList) + 1
      BY <2>2
    <3>3. \A i \in 1 .. Len(txList) : i \in 1 .. Len(txList) + 1
      BY <2>2
    <3> QED
      BY <2>2, <3>1, <3>2, <3>3 DEF Listed
  <2>8. FreeInv'
    <3>1. Listed' = Desc \ InFlight'
      <4>1. Listed' \subseteq Desc
        BY <2>4, FreeList DEF TxTypeOK, Listed
      <4>2. \A e \in Desc : e \in Listed' <=> e \notin InFlight'
        BY <1>1, <2>6, <2>7 DEF TxInv, FreeInv
      <4>3. InFlight' \subseteq Desc
        BY DEF InFlight
      <4> QED
        BY <4>1, <4>2, <4>3
    <3>2. ASSUME NEW i \in 1 .. Len(txList'), NEW j \in 1 .. Len(txList'), txList'[i] = txList'[j]
          PROVE  i = j
      <4>1. \A k \in 1 .. Len(txList) : txList'[k] # d
        BY <1>1, <2>2, FreeList DEF TxInv, FreeInv, Listed
      <4>2. CASE i \in 1 .. Len(txList) /\ j \in 1 .. Len(txList)
        BY <2>2, <3>2, <4>2 DEF TxInv, FreeInv
      <4>3. CASE i = Len(txList) + 1 \/ j = Len(txList) + 1
        BY <2>2, <3>2, <4>1, <4>3
      <4> QED
        BY <2>2, <4>2, <4>3
    <3>3. Len(txList') + queued' = NDesc /\ Len(txList') >= 1
      BY <2>1, <2>2, <2>3, TxAssumption DEF TxInv, FreeInv
    <3> QED
      BY <3>1, <3>2, <3>3 DEF FreeInv
  <2>9. BuffersInv'
    <3>1. \A e \in InFlight' : e \in InFlight /\ e # d /\ entry'[e] = entry[e]
      BY <2>5, <2>6 DEF InFlight
    <3>2. ASSUME NEW e \in InFlight' PROVE entry'[e].skb \in lent' \cup {NoSkb}
      BY <1>1, <2>1, <3>1 DEF TxInv, BuffersInv
    <3> QED
      BY <3>1, <3>2 DEF TxInv, BuffersInv
  <2>10. ReportedInv'
    BY <1>1, <2>6 DEF TxInv, ReportedInv, InFlight
  <2>11. Awaiting' = Awaiting
    <3>1. \A e \in Desc : e \in Awaiting' <=> e \in Awaiting
      BY <1>1, <2>6 DEF Awaiting
    <3> QED
      BY <3>1 DEF Awaiting, InFlight
  <2>12. txList'[1] = txList[1]
    BY <2>2
  <2>13. ChainInv'
    <3>1. PICK m \in Nat : \E order : IsChain(m, order)
      BY DEF TxInv, ChainInv
    <3>2. PICK order : IsChain(m, order)
      BY <3>1
    <3>3. IsChain(m, order)'
      BY <1>1, <2>11, <2>12, <3>2 DEF IsChain
    <3> QED
      BY <3>1, <3>3 DEF ChainInv
  <2> QED
    BY <2>4, <2>8, <2>9, <2>10, <2>13 DEF TxInv
<1> QED
  BY <1>2, <1>3

LEMMA TxInvInit == TxInit => TxInv
<1> SUFFICES ASSUME TxInit PROVE TxInv
  OBVIOUS
<1>1. /\ NDesc \in Nat \ {0} /\ 0 \in Desc
      /\ txList = [n \in 1 .. NDesc |-> n - 1] /\ \A n \in 1 .. NDesc : n - 1 \in Desc
  BY TxAssumption DEF TxInit, Desc
<1>2. txList \in Seq(Desc) /\ Len(txList) = NDesc
  BY <1>1
<1>3. TxTypeOK
  <2>1. entry \in [Desc -> [skb : Skb \cup {NoSkb}, mapped : BOOLEAN]]
    BY DEF TxInit
  <2>2. desc \in [Desc -> [next : Desc, done : BOOLEAN]]
    BY <1>1 DEF TxInit
  <2>3. queued \in 0 .. NDesc /\ cpuIdx \in Desc /\ dmaIdx \in Desc
    BY <1>1 DEF TxInit
  <2> QED
    BY <1>2, <2>1, <2>2, <2>3 DEF TxInit, TxTypeOK
<1>4. InFlight = {} /\ Awaiting = {}
  BY DEF TxInit, InFlight, Awaiting
<1>5. Listed = Desc
  <2>1. \A d \in Desc : d + 1 \in 1 .. NDesc /\ (d + 1) - 1 = d
    BY <1>1 DEF Desc
  <2>2. \A d \in Desc : txList[d + 1] = d
    BY <1>1, <2>1
  <2> QED
    BY <1>1, <2>1, <2>2, FreeList, <1>2 DEF Listed
<1>6. FreeInv
  BY <1>1, <1>2, <1>4, <1>5 DEF FreeInv, TxInit
<1>7. ChainInv
  <2>1. PICK order : order = [i \in 0 .. 0 |-> 0]
    OBVIOUS
  <2>2. 0 \in 0 .. 0 /\ 1 \in 1 .. NDesc /\ \A i \in 0 .. 0 - 1 : FALSE
    BY <1>1
  <2>3. IsChain(0, order)
    BY <1>1, <1>4, <2>1, <2>2 DEF IsChain, TxInit
  <2> QED
    BY <2>3 DEF ChainInv
<1> QED
  BY <1>3, <1>4, <1>6, <1>7 DEF TxInv, TxInit, BuffersInv, ReportedInv

(* No fragment after the first is refused.  One that is leaves descriptors *)
(* on the chain that are free again: HwSendsMapped and this invariant fail *)
(* then.                                                                   *)
NoLateMappingError == UnmappableAt \subseteq {1}

LEMMA TxInvStep ==
    ASSUME NoLateMappingError, TxInv, [TxNext]_txVars
    PROVE  TxInv'
<1>1. ASSUME NEW by \in Routine, NEW n \in Frags, NEW s \in Skb, NEW more \in More(by), Send(by, s, n, more)
      PROVE  TxInv'
  <2>1. more \in BOOLEAN
    BY DEF More
  <2> QED
    BY <1>1, <2>1, SendTakes
<1>2. ASSUME NEW n \in Frags, NEW s \in Skb, NEW k \in UnmappableAt, SendUnmappable(s, n, k)
      PROVE  TxInv'
  <2>1. k = 1
    BY DEF NoLateMappingError
  <2> QED
    BY <1>2, <2>1, UnmappableFirst, FullKeeps
<1>3. ASSUME NEW by \in Routine, RoutineStep(by)
      PROVE  TxInv'
  BY <1>1, <1>2, <1>3, FullKeeps DEF RoutineStep
<1>4. CASE DevXmitStep
  BY <1>4, SendTakes, FullKeeps DEF DevXmitStep
<1>5. CASE UNCHANGED txVars
  BY <1>5, FullKeeps
<1> QED
  BY <1>3, <1>4, <1>5, HwSendKeeps, PollKeeps DEF TxNext

LEMMA TxInvCorrect ==
    ASSUME NoLateMappingError
    PROVE  TxSpec => []TxInv
<1>1. TxInv /\ [TxNext]_txVars => TxInv'
  BY TxInvStep
<1> QED
  BY <1>1, TxInvInit, PTL DEF TxSpec

(* The values of the ring's descriptors, list and counters. *)
THEOREM TxTypeCorrect ==
    ASSUME NoLateMappingError
    PROVE  TxSpec => []TxTypeOK
<1>1. TxInv => TxTypeOK
  BY DEF TxInv
<1> QED
  BY <1>1, TxInvCorrect, PTL

(* Every descriptor is free, once, or in flight and counted, and one is    *)
(* always free, whatever the packets, the order of completions and the     *)
(* packets of which the first fragment could not be mapped.                *)
THEOREM RingAccountedHolds ==
    ASSUME NoLateMappingError
    PROVE  TxSpec => []RingAccounted
<1>1. ASSUME TxInv PROVE RingAccounted
  <2>1. Len(txList) \in Nat /\ DOMAIN txList = 1 .. Len(txList) /\ txList \in [1 .. Len(txList) -> Listed]
    BY <1>1, FreeList DEF TxInv, TxTypeOK, Listed
  <2>2. txList \in Bijection(1 .. Len(txList), Listed)
    BY <1>1, <2>1 DEF TxInv, FreeInv, Bijection, Injection, IsInjective, Surjection, Listed
  <2>3. ExistsBijection(1 .. Len(txList), Listed)
    BY <2>2 DEF ExistsBijection
  <2>4. IsFiniteSet(1 .. Len(txList)) /\ Cardinality(1 .. Len(txList)) = Len(txList)
    BY <2>1, FS_Interval
  <2>5. Cardinality(Listed) = Len(txList)
    BY <2>3, <2>4, FS_Bijection
  <2>6. IsFiniteSet(Desc) /\ Cardinality(Desc) = NDesc
    BY TxAssumption, FS_Interval DEF Desc
  <2>7. InFlight = Desc \ Listed /\ Desc \cap Listed = Listed
    BY <1>1 DEF TxInv, FreeInv, InFlight
  <2>8. Cardinality(InFlight) = NDesc - Len(txList)
    <3>1. Cardinality(Desc \ Listed) = Cardinality(Desc) - Cardinality(Desc \cap Listed)
      BY <2>6, FS_Difference
    <3> QED
      BY <2>5, <2>6, <2>7, <3>1
  <2>9. queued = NDesc - Len(txList)
    BY <1>1, <2>1, TxAssumption DEF TxInv, TxTypeOK, FreeInv
  <2> QED
    BY <1>1, <2>5, <2>8, <2>9 DEF RingAccounted, TxInv, FreeInv
<1> QED
  BY <1>1, TxInvCorrect, PTL

(* Following NEXT_ID the hardware meets the submitted descriptors          *)
(* and no other, each once, then the head of the free list.                *)
THEOREM ChainIsSubmittedHolds ==
    ASSUME NoLateMappingError
    PROVE  TxSpec => []ChainIsSubmitted
<1>1. ASSUME TxInv PROVE ChainIsSubmitted
  <2>1. PICK m \in Nat : \E order : IsChain(m, order)
    BY <1>1 DEF TxInv, ChainInv
  <2>2. PICK order : IsChain(m, order)
    BY <2>1
  <2>3. PICK f : f = [i \in 0 .. m - 1 |-> order[i]]
    OBVIOUS
  <2>4. f \in Bijection(0 .. m - 1, Awaiting)
    BY <2>2, <2>3 DEF IsChain, Bijection, Injection, IsInjective, Surjection
  <2>5. IsFiniteSet(0 .. m - 1) /\ Cardinality(0 .. m - 1) = m
    BY FS_Interval
  <2>6. Cardinality(Awaiting) = m
    BY <2>4, <2>5, FS_Bijection DEF ExistsBijection
  <2>7. {order[i] : i \in 0 .. m - 1} = Awaiting
    BY <2>2 DEF IsChain
  <2> QED
    BY <2>2, <2>6, <2>7 DEF ChainIsSubmitted, IsChain
<1> QED
  BY <1>1, TxInvCorrect, PTL

(* The hardware sends nothing that is not mapped.                          *)
THEOREM HwSendsMappedHolds ==
    ASSUME NoLateMappingError
    PROVE  TxSpec => []HwSendsMapped
<1>1. ASSUME TxInv PROVE HwSendsMapped
  BY <1>1, ShortOfDoorbell DEF TxInv, ChainInv, HwSendsMapped, Awaiting, InFlight
<1> QED
  BY <1>1, TxInvCorrect, PTL

(* The completion poll frees no buffer a second time.                      *)
THEOREM FreedOnceHolds ==
    ASSUME NoLateMappingError
    PROVE  TxSpec => FreedOnce
<1>1. TxInv => FreesOnce
  <2> SUFFICES ASSUME TxInv, NEW d \in Desc, Poll(d), entry[d].skb # NoSkb
               PROVE  entry[d].skb \in lent
    BY DEF FreesOnce
  <2>1. d \in InFlight
    BY DEF Poll, TxInv, ReportedInv
  <2> QED
    BY <2>1 DEF TxInv, BuffersInv
<1> QED
  BY <1>1, TxInvCorrect, PTL DEF FreedOnce

-----------------------------------------------------------------------------
(***************************************************************************)
(* The multicast entries.  The inductive invariant McInv says of every     *)
(* entry, as far as it has not gone astray, and of every step of the       *)
(* multicast module's call, what the entry, its copy and the record have   *)
(* in common.                                                              *)
(***************************************************************************)
(* The last SerDes port and the fastest port of the switch of a mask.      *)
LEMMA LastMember ==
    ASSUME NEW n \in Nat, NEW S \in SUBSET (1 .. n), S # {}
    PROVE  LET last == CHOOSE x \in S : \A y \in S : y <= x
           IN  last \in S /\ \A y \in S : y <= last
<1>1. S \in SUBSET (0 .. n)
  OBVIOUS
<1>2. \E x \in S : \A y \in S : y <= x
  BY <1>1, MaxIsGreatest
<1> QED
  BY <1>2

LEMMA FastestIs ==
    ASSUME NEW ports \in SUBSET Gsw, ports # {}
    PROVE  /\ FastestChannel(ports) \in DOMAIN GswPort
           /\ GswPort[FastestChannel(ports)] \in ports
           /\ \A p \in ports : Speed[p] <= Speed[GswPort[FastestChannel(ports)]]
<1> DEFINE member == {n \in DOMAIN GswPort : GswPort[n] \in ports}
           fast == {n \in member : Speed[GswPort[n]] = GIGABIT}
           noSlower(n, m) == Speed[GswPort[m]] <= Speed[GswPort[n]]
           best == {n \in member : \A m \in member : noSlower(n, m)}
<1>1. member \in SUBSET (1 .. Len(GswPort)) /\ Len(GswPort) \in Nat
  BY McAssumption
<1>2. member # {} /\ \A p \in ports : \E n \in member : p = GswPort[n]
  BY DEF Gsw
<1>3. \A n \in member : Speed[GswPort[n]] \in 0 .. GIGABIT
  BY McAssumption DEF Gsw
<1>4. \A p \in ports : Speed[p] \in 0 .. GIGABIT
  BY McAssumption
<1>5. CASE fast # {}
  <2>1. fast \in SUBSET Nat
    BY <1>1
  <2>2. \E n \in fast : \A m \in fast : n <= m
    <3> HIDE DEF fast
    <3> QED
      BY <1>5, <2>1, MinIsLeast
  <2>3. FastestChannel(ports) = CHOOSE n \in fast : \A m \in fast : n <= m
    BY <1>5 DEF FastestChannel
  <2>4. FastestChannel(ports) \in fast
    BY <2>2, <2>3
  <2>5. /\ FastestChannel(ports) \in DOMAIN GswPort
        /\ GswPort[FastestChannel(ports)] \in ports
        /\ Speed[GswPort[FastestChannel(ports)]] = GIGABIT
    BY <2>4
  <2>6. \A p \in ports : Speed[p] <= GIGABIT
    BY <1>4 DEF GIGABIT
  <2> QED
    BY <2>5, <2>6
<1>6. CASE fast = {}
  <2>1. best # {}
    <3> DEFINE speeds == {Speed[GswPort[n]] : n \in member}
    <3>1. speeds \in SUBSET (0 .. GIGABIT) /\ speeds # {} /\ GIGABIT \in Nat
      BY <1>2, <1>3 DEF GIGABIT
    <3>2. Max(speeds) \in speeds /\ \A y \in speeds : y <= Max(speeds)
      <4> HIDE DEF speeds
      <4> QED
        BY <3>1, MaxIsGreatest
    <3>3. PICK n \in member : Max(speeds) = Speed[GswPort[n]]
      BY <3>2
    <3>4. \A m \in member : noSlower(n, m)
      BY <3>2, <3>3
    <3> QED
      BY <3>4
  <2>2. PICK n \in best : \A m \in best : m <= n
    <3>1. best \in SUBSET (0 .. Len(GswPort))
      BY <1>1
    <3> HIDE DEF best
    <3> QED
      BY <1>1, <2>1, <3>1, MaxIsGreatest
  <2>3. n \in member /\ \A m \in member : noSlower(n, m) /\ (m > n => ~noSlower(m, n))
    <3>1. ASSUME NEW m \in member, m > n, noSlower(m, n) PROVE FALSE
      <4>1. \A k \in member : noSlower(m, k)
        BY <1>3, <3>1
      <4>2. m \in best
        BY <4>1
      <4> QED
        BY <1>1, <2>2, <3>1, <4>2
    <3> QED
      BY <3>1
  <2>4. FastestChannel(ports) = CHOOSE k \in member : \A m \in member : noSlower(k, m) /\ (m > k => ~noSlower(m, k))
    BY <1>6 DEF FastestChannel
  <2>5. FastestChannel(ports) \in member /\ \A m \in member : noSlower(FastestChannel(ports), m)
    <3> HIDE DEF member, noSlower
    <3> QED
      BY <2>3, <2>4
  <2> QED
    BY <1>2, <2>5
<1> QED
  BY <1>5, <1>6

LEMMA AtMostOne ==
    ASSUME NEW S \in SUBSET Serdes, Cardinality(S) <= 1, NEW x \in S
    PROVE  S = {x}
<1>1. IsFiniteSet(Serdes)
  <2>1. PICK f : f = [n \in 1 .. Len(Xsi) |-> Xsi[n]]
    OBVIOUS
  <2>2. f \in Surjection(1 .. Len(Xsi), Serdes)
    BY <2>1, McAssumption DEF Surjection, Serdes
  <2> QED
    BY <2>2, McAssumption, FS_Interval, FS_Surjection
<1>2. IsFiniteSet(S)
  BY <1>1, FS_Subset
<1>3. Cardinality({x}) = 1 /\ IsFiniteSet({x}) /\ {x} \in SUBSET S
  BY FS_Singleton
<1>4. Cardinality(S) \in Nat /\ Cardinality({x}) <= Cardinality(S)
  BY <1>2, <1>3, FS_Subset, FS_CardinalityType
<1> QED
  BY <1>2, <1>3, <1>4, FS_Subset

(* What arht_muliticast_get_forward_state and the handlers make of a mask  *)
(* leads to its members, whatever the mask.                                *)
LEMMA ForwardServes ==
    ASSUME NEW mask \in SUBSET Member, Servable(mask)
    PROVE  Serves(Forward(mask), mask)
<1> DEFINE gsw == mask \cap Gsw
           xsi == mask \cap Serdes
           wifi == WLAN \in mask
<1>0. mask = gsw \cup xsi \cup (IF wifi THEN {WLAN} ELSE {})
  BY DEF Member
<1>1. CASE xsi # {} /\ gsw # {}
  <2>1. Forward(mask) = LanHsgmii1toN(gsw, xsi, wifi)
    BY <1>1 DEF Forward
  <2>2. /\ Forward(mask).ports = gsw \cup xsi /\ Forward(mask).wifi = wifi
        /\ Forward(mask).pse = "FE_PSE_PORT_MCST"
    BY <2>1 DEF LanHsgmii1toN
  <2>3. Reached(Forward(mask)) = mask
    BY <1>0, <2>2 DEF Reached
  <2> QED
    BY <2>2, <2>3 DEF Serves
<1>2. CASE xsi # {} /\ gsw = {}
  <2> DEFINE member == {n \in DOMAIN Xsi : Xsi[n] \in xsi}
             last == CHOOSE n \in member : \A m \in member : m <= n
  <2>1. Forward(mask) = XsiOnly(xsi, wifi)
    BY <1>2 DEF Forward
  <2>2. last \in member
    <3>1. member \in SUBSET (1 .. Len(Xsi)) /\ Len(Xsi) \in Nat /\ member # {}
      BY <1>2, McAssumption DEF Serdes
    <3> HIDE DEF member
    <3> QED
      BY <3>1, LastMember
  <2>3. xsi = {Xsi[last]}
    BY <1>2, <2>2, AtMostOne DEF Servable
  <2>4. XsiOnly(xsi, wifi) = [pse |-> "fport", ports |-> {Xsi[last]}, channel |-> 0, wifi |-> wifi]
    BY DEF XsiOnly
  <2>5. /\ Forward(mask).ports = xsi /\ Forward(mask).wifi = wifi
        /\ Forward(mask).pse = "fport"
    <3> HIDE DEF last
    <3> QED
      BY <2>1, <2>3, <2>4
  <2>6. Reached(Forward(mask)) = mask
    BY <1>0, <1>2, <2>5 DEF Reached
  <2> QED
    BY <2>5, <2>6 DEF Serves
<1>3. CASE xsi = {} /\ gsw # {}
  <2>1. Forward(mask) = LanOnly(gsw, wifi)
    BY <1>3 DEF Forward
  <2>2. /\ Forward(mask).ports = gsw /\ Forward(mask).wifi = wifi
        /\ Forward(mask).channel = FastestChannel(gsw)
    BY <2>1 DEF LanOnly
  <2>3. Reached(Forward(mask)) = mask
    BY <1>0, <1>3, <2>2 DEF Reached
  <2>4. /\ GswPort[FastestChannel(gsw)] \in mask
        /\ \A p \in mask \cap Gsw : Speed[p] <= Speed[GswPort[FastestChannel(gsw)]]
    BY <1>3, FastestIs
  <2> QED
    BY <2>2, <2>3, <2>4 DEF Serves
<1>4. CASE xsi = {} /\ gsw = {} /\ wifi
  <2>1. Forward(mask) = WlanOnly
    BY <1>4 DEF Forward
  <2> QED
    BY <1>0, <1>4, <2>1 DEF WlanOnly, NoFwd, Serves, Reached
<1>5. CASE xsi = {} /\ gsw = {} /\ ~wifi
  <2>1. Forward(mask) = DropFwd
    BY <1>5 DEF Forward
  <2> QED
    BY <1>0, <1>5, <2>1 DEF DropFwd, NoFwd, Serves, Reached
<1> QED
  BY <1>1, <1>2, <1>3, <1>4, <1>5

LEMMA FwdFields ==
    ASSUME NEW f, NEW ps, NEW po, NEW ch, NEW wi,
           f = [pse |-> ps, ports |-> po, channel |-> ch, wifi |-> wi],
           f.pse \in PSE_PORT, f.ports \in SUBSET (Gsw \cup Serdes),
           f.channel \in 0 .. Len(GswPort), f.wifi \in BOOLEAN
    PROVE  f \in Fwd
BY DEF Fwd

LEMMA ForwardType ==
    ASSUME NEW mask \in SUBSET Member
    PROVE  Forward(mask) \in Fwd /\ NoFwd \in Fwd /\ DropFwd \in Fwd
<1> DEFINE gsw == mask \cap Gsw
           xsi == mask \cap Serdes
           wifi == WLAN \in mask
<1>0. NoFwd \in Fwd /\ DropFwd \in Fwd /\ WlanOnly \in Fwd
  <2>1. 0 \in 0 .. Len(GswPort)
    BY McAssumption
  <2> QED
    BY <2>1 DEF NoFwd, DropFwd, WlanOnly, Fwd, PSE_PORT
<1>2. CASE xsi # {} /\ gsw # {}
  <2>1. Forward(mask) = LanHsgmii1toN(gsw, xsi, wifi)
    BY <1>2 DEF Forward
  <2>2. 0 \in 0 .. Len(GswPort)
    BY McAssumption
  <2>6. Forward(mask) = [pse |-> "FE_PSE_PORT_MCST", ports |-> gsw \cup xsi, channel |-> 0, wifi |-> wifi]
    BY <2>1 DEF LanHsgmii1toN
  <2>7. /\ Forward(mask).pse \in PSE_PORT /\ Forward(mask).ports \in SUBSET (Gsw \cup Serdes)
        /\ Forward(mask).channel \in 0 .. Len(GswPort) /\ Forward(mask).wifi \in BOOLEAN
    BY <2>2, <2>6 DEF PSE_PORT
  <2> QED
    BY <1>0, <2>6, <2>7, FwdFields
<1>3. CASE xsi # {} /\ gsw = {}
  <2> DEFINE member == {n \in DOMAIN Xsi : Xsi[n] \in xsi}
             last == CHOOSE n \in member : \A m \in member : m <= n
  <2>1. Forward(mask) = XsiOnly(xsi, wifi)
    BY <1>3 DEF Forward
  <2>2. last \in member
    <3>1. member \in SUBSET (1 .. Len(Xsi)) /\ Len(Xsi) \in Nat /\ member # {}
      BY <1>3, McAssumption DEF Serdes
    <3> HIDE DEF member
    <3> QED
      BY <3>1, LastMember
  <2>3. Xsi[last] \in Serdes
    BY <2>2
  <2>4. XsiOnly(xsi, wifi) = [pse |-> "fport", ports |-> {Xsi[last]}, channel |-> 0, wifi |-> wifi]
    BY DEF XsiOnly
  <2>5. 0 \in 0 .. Len(GswPort)
    BY McAssumption
  <2> HIDE DEF last
  <2>6. Forward(mask) = [pse |-> "fport", ports |-> {Xsi[last]}, channel |-> 0, wifi |-> wifi]
    BY <2>1, <2>4
  <2>7. /\ Forward(mask).pse \in PSE_PORT /\ Forward(mask).ports \in SUBSET (Gsw \cup Serdes)
        /\ Forward(mask).channel \in 0 .. Len(GswPort) /\ Forward(mask).wifi \in BOOLEAN
    <3>1. "fport" \in PSE_PORT
      BY DEF PSE_PORT
    <3>2. {Xsi[last]} \in SUBSET (Gsw \cup Serdes)
      BY <2>3
    <3> QED
      BY <2>5, <2>6, <3>1, <3>2
  <2>8. Forward(mask) \in Fwd
    BY <2>6, <2>7, FwdFields
  <2> QED
    BY <1>0, <2>8
<1>4. CASE xsi = {} /\ gsw # {}
  <2>1. FastestChannel(gsw) \in 0 .. Len(GswPort)
    BY <1>4, FastestIs, McAssumption
  <2>2. Forward(mask) = LanOnly(gsw, wifi)
    BY <1>4 DEF Forward
  <2>6. Forward(mask) = [pse |-> "FE_PSE_PORT_GDM1", ports |-> gsw, channel |-> FastestChannel(gsw), wifi |-> wifi]
    BY <2>2 DEF LanOnly
  <2>7. /\ Forward(mask).pse \in PSE_PORT /\ Forward(mask).ports \in SUBSET (Gsw \cup Serdes)
        /\ Forward(mask).channel \in 0 .. Len(GswPort) /\ Forward(mask).wifi \in BOOLEAN
    BY <2>1, <2>6 DEF PSE_PORT
  <2> QED
    BY <1>0, <2>6, <2>7, FwdFields
<1>5. CASE xsi = {} /\ gsw = {}
  <2>1. Forward(mask) \in {WlanOnly, DropFwd}
    BY <1>5 DEF Forward
  <2> QED
    BY <1>0, <2>1
<1> QED
  BY <1>0, <1>2, <1>3, <1>4, <1>5

-----------------------------------------------------------------------------
(* What holds of an entry, unless it went astray in the way that matters:  *)
(* it has its layer 2, and so has a copy that is being changed; a change   *)
(* that is under way has its copy and its record in step; otherwise the    *)
(* entry leads where the record says, and it is bound to drop while the    *)
(* multicast module has no record of it.                                   *)
InCall(i, pc) == mcall.i = i /\ mcall.pc = pc
Filled(i) ==
    /\ foe[i].state = "BIND" /\ foe[i].fwd # DropFwd => foe[i].l2
    /\ Uncommitted(i) => copy[i].l2
InStep(i) ==
    /\ Uncommitted(i) => list[i].port_mask = mcall.mask
    /\ InCall(i, "commit") => copy[i].state = "BIND" /\ copy[i].fwd = Forward(mcall.mask)
AsListed(i) ==
    ~Uncommitted(i) /\ list[i].state # "UNBIND" /\ foe[i].state = "BIND"
    /\ Servable(list[i].port_mask) => Serves(foe[i].fwd, list[i].port_mask)
EntryOK(i) ==
    /\ foe[i].state = "BIND" /\ list[i].state = "UNBIND" => foe[i].fwd = DropFwd
    /\ Uncommitted(i) => list[i].state # "UNBIND"
    /\ "taken" \notin astray[i] /\ "blind" \notin astray[i] => Filled(i)
    /\ "taken" \notin astray[i] => InStep(i)
    /\ "taken" \notin astray[i] /\ "parted" \notin astray[i] => AsListed(i)

McInv == McTypeOK /\ \A i \in Index : EntryOK(i)

(* What became of an entry adds to what became of it before.               *)
LEMMA GoesOn ==
    ASSUME McInv, NEW i \in Index, NEW how \in SUBSET Astray, Goes(i, how)
    PROVE  /\ astray' \in [Index -> SUBSET Astray]
           /\ astray'[i] = astray[i] \cup how
           /\ \A j \in Index : astray[j] \subseteq astray'[j]
BY DEF McInv, McTypeOK, Goes

LEMMA CopyTakenIs ==
    ASSUME NEW i \in Index
    PROVE  CopyTaken(i) \in SUBSET Astray /\ ("taken" \in CopyTaken(i) <=> Uncommitted(i))
BY DEF CopyTaken, Astray

(* An entry that a step does not touch.                                    *)
Untouched(j) ==
    /\ foe'[j] = foe[j] /\ copy'[j] = copy[j] /\ list'[j] = list[j]
    /\ mcall' = mcall \/ (~Uncommitted(j) /\ ~Uncommitted(j)')
    /\ astray[j] \subseteq astray'[j]

LEMMA UntouchedKeeps ==
    ASSUME NEW j \in Index, EntryOK(j), Untouched(j)
    PROVE  EntryOK(j)'
<1>1. CASE mcall' = mcall
  BY <1>1 DEF Untouched, EntryOK, Filled, InStep, AsListed, Uncommitted, InCall
<1>2. CASE ~Uncommitted(j) /\ ~Uncommitted(j)'
  BY <1>2 DEF Untouched, EntryOK, Filled, InStep, AsListed, Uncommitted, InCall
<1> QED
  BY <1>1, <1>2 DEF Untouched

LEMMA Drops == DropFwd.pse # "FE_PSE_PORT_GDM1" /\ Reached(DropFwd) = {}
BY DEF DropFwd, NoFwd, Reached

LEMMA McIdleType == McIdle \in [pc : {"idle", "info", "fill", "commit"}, i : Index, mask : SUBSET Member]
                    /\ McIdle.pc = "idle"
BY McAssumption DEF McIdle

LEMMA McRecordType ==
    ASSUME NEW mask \in SUBSET Member
    PROVE  /\ McRecord(mask) \in [state : {"UNBIND", "BINDED", "DROP"}, port_mask : SUBSET Member]
           /\ McRecord(mask).state # "UNBIND" /\ McRecord(mask).port_mask = mask
BY DEF McRecord

LEMMA McLearnKeeps ==
    ASSUME McInv, NEW i \in Index, NEW type \in PPE_PKT_TYPE, McLearn(i, type)
    PROVE  McInv'
<1>1. [state |-> "UNBIND", type |-> type, l2 |-> FALSE, fwd |-> NoFwd] \in McEntry
  <2>1. NoFwd \in Fwd
    <3>1. {} \in SUBSET Member
      OBVIOUS
    <3> QED
      BY <3>1, ForwardType
  <2> QED
    BY <2>1 DEF McEntry
<1>2. McTypeOK'
  BY <1>1 DEF McInv, McTypeOK, McLearn
<1>3. foe'[i].state = "UNBIND"
  BY DEF McInv, McTypeOK, McLearn
<1>4. EntryOK(i)'
  BY <1>3 DEF McInv, EntryOK, McLearn, Filled, InStep, AsListed, Uncommitted, InCall
<1>5. ASSUME NEW j \in Index, j # i PROVE EntryOK(j)'
  BY <1>5, UntouchedKeeps DEF McInv, McTypeOK, McLearn, Untouched
<1> QED
  BY <1>2, <1>4, <1>5 DEF McInv

LEMMA McRetireKeeps ==
    ASSUME McInv, NEW i \in Index, McRetire(i)
    PROVE  McInv'
<1>1. McTypeOK'
  <2>1. foe' \in [Index -> McEntry]
    <3>1. foe \in [Index -> McEntry] /\ foe[i] \in McEntry
      BY DEF McInv, McTypeOK
    <3>2. [foe[i] EXCEPT !.state = "INVALID"] \in McEntry
      BY <3>1 DEF McEntry
    <3>3. foe' = [foe EXCEPT ![i] = [foe[i] EXCEPT !.state = "INVALID"]]
      BY <3>1 DEF McRetire
    <3> QED
      BY <3>1, <3>2, <3>3
  <2> QED
    BY <2>1 DEF McInv, McTypeOK, McRetire
<1>2. foe'[i].state = "INVALID"
  BY DEF McInv, McTypeOK, McEntry, McRetire
<1>3. EntryOK(i)'
  BY <1>2 DEF McInv, EntryOK, McRetire, Filled, InStep, AsListed, Uncommitted, InCall
<1>4. ASSUME NEW j \in Index, j # i PROVE EntryOK(j)'
  BY <1>4, UntouchedKeeps DEF McInv, McTypeOK, McRetire, Untouched
<1> QED
  BY <1>1, <1>3, <1>4 DEF McInv

LEMMA RefreshKeeps ==
    ASSUME McInv, NEW i \in Index, Refresh(i)
    PROVE  McInv'
<1>0. /\ astray' \in [Index -> SUBSET Astray] /\ astray'[i] = astray[i] \cup CopyTaken(i)
      /\ \A j \in Index : astray[j] \subseteq astray'[j]
  BY GoesOn, CopyTakenIs DEF Refresh
<1>1. McTypeOK'
  BY <1>0 DEF McInv, McTypeOK, Refresh
<1>2. EntryOK(i)'
  <2>1. CASE Uncommitted(i)
    <3>1. "taken" \in astray'[i]
      BY <1>0, <2>1, CopyTakenIs
    <3> QED
      BY <3>1 DEF McInv, EntryOK, Refresh, Uncommitted
  <2>2. CASE ~Uncommitted(i)
    BY <1>0, <2>2 DEF McInv, EntryOK, Refresh, Filled, InStep, AsListed, Uncommitted, InCall
  <2> QED
    BY <2>1, <2>2
<1>3. ASSUME NEW j \in Index, j # i PROVE EntryOK(j)'
  BY <1>0, <1>3, UntouchedKeeps DEF McInv, McTypeOK, Refresh, Untouched
<1> QED
  BY <1>1, <1>2, <1>3 DEF McInv

LEMMA SetValidKeeps ==
    ASSUME McInv, NEW i \in Index, SetValid(i)
    PROVE  McInv'
<1>1. McTypeOK'
  BY DEF McInv, McTypeOK, SetValid
<1>2. ASSUME NEW j \in Index PROVE EntryOK(j)'
  BY UntouchedKeeps DEF McInv, SetValid, Untouched
<1> QED
  BY <1>1, <1>2 DEF McInv

LEMMA DataHandlerKeeps ==
    ASSUME McInv, NEW i \in Index, DataHandler(i)
    PROVE  McInv'
<1>1. /\ mcall.pc = "idle" /\ mcall' \in [pc : {"info"}, i : Index, mask : SUBSET Member]
      /\ mcall'.pc = "info"
  BY McAssumption DEF DataHandler, McAt
<1>2. McTypeOK'
  BY <1>1 DEF McInv, McTypeOK, DataHandler
<1>3. \A j \in Index : ~Uncommitted(j) /\ ~Uncommitted(j)' /\ ~InCall(j, "commit")'
  BY <1>1 DEF Uncommitted, InCall
<1>4. EntryOK(i)'
  BY <1>3 DEF McInv, McTypeOK, EntryOK, Filled, InStep, AsListed, DataHandler
<1>5. ASSUME NEW j \in Index, j # i PROVE EntryOK(j)'
  <2>1. Untouched(j)
    BY <1>3, <1>5 DEF McInv, McTypeOK, DataHandler, Untouched
  <2> QED
    BY <2>1, UntouchedKeeps DEF McInv
<1> QED
  BY <1>2, <1>4, <1>5 DEF McInv

LEMMA SetInfoKeeps ==
    ASSUME McInv, SetInfo
    PROVE  McInv'
<1>1. PICK i \in Index : i = mcall.i
  BY DEF McInv, McTypeOK
<1>2. /\ copy' = [copy EXCEPT ![i] = Informed(copy[i])]
      /\ mcall.pc = "info" /\ mcall.mask \in SUBSET Member
      /\ UNCHANGED <<foe, valid, dropping, astray>>
  BY <1>1 DEF SetInfo, McAt, McInv, McTypeOK
<1>3. Informed(copy[i]) \in McEntry /\ Informed(copy[i]).l2 = (copy[i].state # "BIND")
  <2>1. NoFwd \in Fwd
    BY <1>2, ForwardType
  <2>2. copy[i] \in McEntry
    BY DEF McInv, McTypeOK
  <2>3. (copy[i].state # "BIND") \in BOOLEAN
    OBVIOUS
  <2> QED
    BY <2>1, <2>2, <2>3 DEF Informed, McEntry
<1>4. CASE copy[i].state = "BIND"
  <2>1. mcall' = McIdle /\ UNCHANGED list
    BY <1>1, <1>4 DEF SetInfo
  <2>2. McTypeOK'
    BY <1>2, <1>3, <2>1, McIdleType DEF McInv, McTypeOK
  <2>3. \A j \in Index : ~Uncommitted(j) /\ ~Uncommitted(j)' /\ ~InCall(j, "commit")'
    BY <1>2, <2>1, McIdleType DEF Uncommitted, InCall
  <2>4. ASSUME NEW j \in Index PROVE EntryOK(j)'
    BY <1>2, <2>1, <2>3 DEF McInv, EntryOK, Filled, InStep, AsListed
  <2> QED
    BY <2>2, <2>4 DEF McInv
<1>5. CASE copy[i].state # "BIND"
  <2>1. mcall' = [mcall EXCEPT !.pc = "fill"] /\ list' = [list EXCEPT ![i] = McRecord(mcall.mask)]
    BY <1>1, <1>5 DEF SetInfo
  <2>2. McTypeOK'
    BY <1>2, <1>3, <2>1, McRecordType DEF McInv, McTypeOK
  <2>3. mcall'.i = i /\ mcall'.pc = "fill" /\ mcall'.mask = mcall.mask
    BY <1>1, <2>1 DEF McInv, McTypeOK
  <2>4. copy'[i].l2 /\ list'[i] = McRecord(mcall.mask)
    BY <1>2, <1>3, <1>5, <2>1 DEF McInv, McTypeOK
  <2>6. EntryOK(i)'
    BY <1>1, <1>2, <2>3, <2>4, McRecordType DEF McInv, EntryOK, Filled, InStep, AsListed, Uncommitted, InCall
  <2>7. ASSUME NEW j \in Index, j # i PROVE EntryOK(j)'
    <3>1. ~Uncommitted(j) /\ ~Uncommitted(j)'
      BY <1>1, <2>3, <2>7 DEF Uncommitted
    <3>2. Untouched(j)
      BY <1>2, <2>1, <2>7, <3>1 DEF McInv, McTypeOK, Untouched
    <3> QED
      BY <3>2, UntouchedKeeps DEF McInv
  <2> QED
    BY <2>2, <2>6, <2>7 DEF McInv
<1> QED
  BY <1>4, <1>5

LEMMA ListUpdateKeeps ==
    ASSUME McInv, NEW i \in Index, NEW mask \in Mask, ListUpdate(i, mask)
    PROVE  McInv'
<1>0. mask \in SUBSET Member
  BY McAssumption
<1>1. /\ mcall.pc = "idle" /\ mcall' = [pc |-> "fill", i |-> i, mask |-> mask]
      /\ list' = [list EXCEPT ![i] = McRecord(mask)] /\ copy' = [copy EXCEPT ![i] = foe[i]]
      /\ UNCHANGED <<foe, valid, dropping>>
  BY DEF ListUpdate, McAt
<1>2. McTypeOK'
  BY <1>0, <1>1, McRecordType DEF McInv, McTypeOK, ListUpdate, Astray
<1>3. list'[i] = McRecord(mask) /\ copy'[i] = foe[i]
  BY <1>1 DEF McInv, McTypeOK
<1>4. "blind" \notin astray'[i] => foe[i].state = "BIND" /\ foe[i].l2
  BY DEF ListUpdate, McInv, McTypeOK
<1>5. EntryOK(i)'
  BY <1>0, <1>1, <1>3, <1>4, McRecordType DEF EntryOK, Filled, InStep, AsListed, Uncommitted, InCall
<1>6. ASSUME NEW j \in Index, j # i PROVE EntryOK(j)'
  <2>1. ~Uncommitted(j) /\ ~Uncommitted(j)'
    BY <1>1, <1>6 DEF Uncommitted
  <2>2. Untouched(j)
    BY <1>1, <1>6, <2>1 DEF McInv, McTypeOK, ListUpdate, Untouched
  <2> QED
    BY <2>2, UntouchedKeeps DEF McInv
<1> QED
  BY <1>2, <1>5, <1>6 DEF McInv

LEMMA StateHandlerKeeps ==
    ASSUME McInv, StateHandler
    PROVE  McInv'
<1>1. PICK i \in Index : i = mcall.i
  BY DEF McInv, McTypeOK
<1>2. /\ copy' = [copy EXCEPT ![i].state = "BIND", ![i].fwd = Forward(mcall.mask)]
      /\ mcall.pc = "fill" /\ mcall.mask \in SUBSET Member
      /\ mcall' = [mcall EXCEPT !.pc = "commit"]
      /\ UNCHANGED <<foe, list, valid, dropping, astray>>
  BY <1>1 DEF StateHandler, McAt, McInv, McTypeOK
<1>3. Forward(mcall.mask) \in Fwd
  BY <1>2, ForwardType
<1>4. copy[i] \in McEntry /\ copy' = [copy EXCEPT ![i] = [copy[i] EXCEPT !.state = "BIND", !.fwd = Forward(mcall.mask)]]
  BY <1>2 DEF McInv, McTypeOK
<1>5. /\ copy'[i] \in McEntry /\ copy'[i].state = "BIND" /\ copy'[i].fwd = Forward(mcall.mask)
      /\ copy'[i].l2 = copy[i].l2
  BY <1>3, <1>4 DEF McInv, McTypeOK, McEntry
<1>6. McTypeOK'
  BY <1>2, <1>4, <1>5 DEF McInv, McTypeOK
<1>7. mcall'.i = i /\ mcall'.pc = "commit" /\ mcall'.mask = mcall.mask
  BY <1>1, <1>2 DEF McInv, McTypeOK
<1>8. EntryOK(i)'
  BY <1>1, <1>2, <1>5, <1>7 DEF McInv, EntryOK, Filled, InStep, AsListed, Uncommitted, InCall
<1>9. ASSUME NEW j \in Index, j # i PROVE EntryOK(j)'
  <2>1. ~Uncommitted(j) /\ ~Uncommitted(j)'
    BY <1>1, <1>7, <1>9 DEF Uncommitted
  <2>2. Untouched(j)
    BY <1>2, <1>4, <1>9, <2>1 DEF McInv, McTypeOK, Untouched
  <2> QED
    BY <2>2, UntouchedKeeps DEF McInv
<1> QED
  BY <1>6, <1>8, <1>9 DEF McInv

LEMMA NotValidKeeps ==
    ASSUME McInv, NotValid
    PROVE  McInv'
<1>1. PICK i \in Index : i = mcall.i
  BY DEF McInv, McTypeOK
<1>0. {"parted"} \in SUBSET Astray
  BY DEF Astray
<1>2. /\ mcall' = McIdle /\ Goes(i, {"parted"})
      /\ UNCHANGED <<foe, copy, list, valid, dropping>>
  BY <1>1 DEF NotValid
<1>7. /\ astray' \in [Index -> SUBSET Astray] /\ astray'[i] = astray[i] \cup {"parted"}
      /\ \A j \in Index : astray[j] \subseteq astray'[j]
  BY <1>0, <1>2, GoesOn
<1>3. McTypeOK'
  BY <1>2, <1>7, McIdleType DEF McInv, McTypeOK
<1>4. \A j \in Index : ~Uncommitted(j)' /\ ~InCall(j, "commit")'
  BY <1>2, McIdleType DEF Uncommitted, InCall
<1>5. EntryOK(i)'
  BY <1>2, <1>4, <1>7 DEF McInv, EntryOK, Filled, InStep, AsListed
<1>6. ASSUME NEW j \in Index, j # i PROVE EntryOK(j)'
  <2>1. ~Uncommitted(j)
    BY <1>1, <1>6 DEF Uncommitted
  <2>2. Untouched(j)
    BY <1>2, <1>4, <1>6, <1>7, <2>1 DEF Untouched
  <2> QED
    BY <2>2, UntouchedKeeps DEF McInv
<1> QED
  BY <1>3, <1>5, <1>6 DEF McInv

LEMMA CommitKeeps ==
    ASSUME McInv, Commit
    PROVE  McInv'
<1>1. PICK i \in Index : i = mcall.i
  BY DEF McInv, McTypeOK
<1>2. /\ mcall.pc = "commit" /\ mcall' = McIdle /\ foe' = [foe EXCEPT ![i] = copy[i]]
      /\ mcall.mask \in SUBSET Member
      /\ UNCHANGED <<copy, list, valid, dropping, astray>>
  BY <1>1 DEF Commit, McAt, McInv, McTypeOK
<1>3. McTypeOK' /\ foe'[i] = copy[i]
  BY <1>2, McIdleType DEF McInv, McTypeOK
<1>4. \A j \in Index : ~Uncommitted(j)' /\ ~InCall(j, "commit")'
  BY <1>2, McIdleType DEF Uncommitted, InCall
<1>5. Uncommitted(i) /\ InCall(i, "commit")
  BY <1>1, <1>2 DEF Uncommitted, InCall
<1>6. EntryOK(i)'
  <2>1. list[i].state # "UNBIND"
    BY <1>5 DEF McInv, EntryOK
  <2>2. /\ "taken" \notin astray[i] /\ "blind" \notin astray[i] => copy[i].l2
        /\ "taken" \notin astray[i] =>
              copy[i].fwd = Forward(mcall.mask) /\ list[i].port_mask = mcall.mask
    BY <1>5 DEF McInv, EntryOK, Filled, InStep
  <2>3. Servable(mcall.mask) => Serves(Forward(mcall.mask), mcall.mask)
    BY <1>2, ForwardServes
  <2> QED
    BY <1>2, <1>3, <1>4, <2>1, <2>2, <2>3 DEF EntryOK, Filled, InStep, AsListed
<1>7. ASSUME NEW j \in Index, j # i PROVE EntryOK(j)'
  <2>1. ~Uncommitted(j)
    BY <1>1, <1>7 DEF Uncommitted
  <2>2. Untouched(j)
    BY <1>2, <1>4, <1>7, <2>1 DEF McInv, McTypeOK, Untouched
  <2> QED
    BY <2>2, UntouchedKeeps DEF McInv
<1> QED
  BY <1>3, <1>6, <1>7 DEF McInv

LEMMA CleanKeeps ==
    ASSUME McInv, NEW i \in Index, Clean(i)
    PROVE  McInv'
<1>1. /\ mcall.pc = "idle" /\ foe' = [foe EXCEPT ![i].state = "INVALID"]
      /\ copy' = [copy EXCEPT ![i] = foe'[i]]
      /\ list' = [list EXCEPT ![i] = [state |-> "UNBIND", port_mask |-> {}]]
      /\ valid' = valid \ {i} /\ UNCHANGED <<mcall, dropping, astray>>
  BY DEF Clean, McAt
<1>2. foe'[i].state = "INVALID" /\ foe' \in [Index -> McEntry]
  <2>1. foe \in [Index -> McEntry]
    BY DEF McInv, McTypeOK
  <2>2. foe[i] \in McEntry
    BY <2>1
  <2>3. [foe[i] EXCEPT !.state = "INVALID"] \in McEntry
        /\ [foe[i] EXCEPT !.state = "INVALID"].state = "INVALID"
    BY <2>2 DEF McEntry
  <2> QED
    BY <1>1, <2>1, <2>3
<1>3. McTypeOK'
  BY <1>1, <1>2 DEF McInv, McTypeOK
<1>4. EntryOK(i)'
  BY <1>1, <1>2 DEF EntryOK, Filled, InStep, AsListed, Uncommitted, InCall
<1>5. ASSUME NEW j \in Index, j # i PROVE EntryOK(j)'
  <2>1. Untouched(j)
    BY <1>1, <1>5 DEF McInv, McTypeOK, Untouched
  <2> QED
    BY <2>1, UntouchedKeeps DEF McInv
<1> QED
  BY <1>3, <1>4, <1>5 DEF McInv

LEMMA ListAddKeeps ==
    ASSUME McInv, NEW i \in Index, ListAdd(i)
    PROVE  McInv'
<1>1. /\ dropping' = dropping \cup {i} /\ copy' = [copy EXCEPT ![i] = foe[i]]
      /\ list' = [list EXCEPT ![i] = IF list[i].state = "UNBIND" THEN McRecord({}) ELSE list[i]]
      /\ UNCHANGED <<foe, valid, mcall>>
  BY DEF ListAdd
<1>0. /\ astray' \in [Index -> SUBSET Astray] /\ astray'[i] = astray[i] \cup CopyTaken(i)
      /\ \A j \in Index : astray[j] \subseteq astray'[j]
  BY GoesOn, CopyTakenIs DEF ListAdd
<1>2. {} \in SUBSET Member
  OBVIOUS
<1>3. McTypeOK'
  BY <1>0, <1>1, <1>2, McRecordType DEF McInv, McTypeOK
<1>4. EntryOK(i)'
  <2>1. list'[i] = IF list[i].state = "UNBIND" THEN McRecord({}) ELSE list[i]
    BY <1>1 DEF McInv, McTypeOK
  <2>2. list'[i].state # "UNBIND"
    BY <1>2, <2>1, McRecordType
  <2>3. CASE Uncommitted(i)
    <3>1. "taken" \in astray'[i]
      BY <1>0, <2>3, CopyTakenIs
    <3> QED
      BY <2>2, <3>1 DEF EntryOK
  <2>4. CASE ~Uncommitted(i)
    <3>1. astray[i] \subseteq astray'[i] /\ ~Uncommitted(i)' /\ ~InCall(i, "commit")'
      BY <1>0, <1>1, <2>4 DEF Uncommitted, InCall
    <3>2. CASE list[i].state = "UNBIND"
      <4>1. list'[i].port_mask = {}
        BY <1>2, <2>1, <3>2, McRecordType
      <4>2. foe[i].state = "BIND" => Serves(foe[i].fwd, {})
        BY <3>2, Drops DEF McInv, EntryOK, Serves
      <4> QED
        BY <1>1, <2>2, <3>1, <4>1, <4>2 DEF McInv, EntryOK, Filled, InStep, AsListed
    <3>3. CASE list[i].state # "UNBIND"
      BY <1>1, <2>1, <2>4, <3>1, <3>3 DEF McInv, EntryOK, Filled, InStep, AsListed
    <3> QED
      BY <3>2, <3>3
  <2> QED
    BY <2>3, <2>4
<1>5. ASSUME NEW j \in Index, j # i PROVE EntryOK(j)'
  <2>1. Untouched(j)
    BY <1>0, <1>1, <1>5 DEF McInv, McTypeOK, Untouched
  <2> QED
    BY <2>1, UntouchedKeeps DEF McInv
<1> QED
  BY <1>3, <1>4, <1>5 DEF McInv

LEMMA BindDropKeeps ==
    ASSUME McInv, NEW i \in Index, BindDrop(i)
    PROVE  McInv'
<1>1. /\ dropping' = dropping \ {i} /\ foe' = [foe EXCEPT ![i].state = "BIND", ![i].fwd = DropFwd]
      /\ copy' = [copy EXCEPT ![i] = foe'[i]]
      /\ UNCHANGED <<list, valid, mcall>>
  BY DEF BindDrop
<1> DEFINE how == CopyTaken(i) \cup IF list[i].port_mask # {} THEN {"parted"} ELSE {}
<1>0. /\ astray' \in [Index -> SUBSET Astray] /\ astray'[i] = astray[i] \cup how
      /\ \A j \in Index : astray[j] \subseteq astray'[j]
  <2>1. how \in SUBSET Astray
    BY CopyTakenIs DEF Astray
  <2>2. Goes(i, how)
    BY DEF BindDrop
  <2> QED
    BY <2>1, <2>2, GoesOn
<1>2. foe[i] \in McEntry /\ DropFwd \in Fwd
  <2>1. {} \in SUBSET Member
    OBVIOUS
  <2> QED
    BY <2>1, ForwardType DEF McInv, McTypeOK
<1>3. foe' = [foe EXCEPT ![i] = [foe[i] EXCEPT !.state = "BIND", !.fwd = DropFwd]]
  BY <1>1 DEF McInv, McTypeOK
<1>4. foe'[i] \in McEntry /\ foe'[i].state = "BIND" /\ foe'[i].fwd = DropFwd
  BY <1>2, <1>3 DEF McInv, McTypeOK, McEntry
<1>5. foe' \in [Index -> McEntry]
  BY <1>3, <1>4 DEF McInv, McTypeOK
<1>6. McTypeOK'
  BY <1>0, <1>1, <1>4, <1>5 DEF McInv, McTypeOK
<1>7. EntryOK(i)'
  <2>1. Serves(DropFwd, {})
    BY Drops DEF Serves
  <2>2. CASE Uncommitted(i)
    <3>1. "taken" \in astray'[i]
      BY <1>0, <2>2, CopyTakenIs
    <3> QED
      BY <1>1, <1>4, <3>1 DEF McInv, EntryOK, Uncommitted
  <2>3. CASE ~Uncommitted(i)
    <3>1. ~Uncommitted(i)' /\ ~InCall(i, "commit")'
      BY <1>1, <2>3 DEF Uncommitted, InCall
    <3>2. "parted" \notin astray'[i] => list'[i].port_mask = {}
      BY <1>0, <1>1
    <3> QED
      BY <1>1, <1>4, <2>1, <3>1, <3>2 DEF McInv, EntryOK, Filled, InStep, AsListed
  <2> QED
    BY <2>2, <2>3
<1>8. ASSUME NEW j \in Index, j # i PROVE EntryOK(j)'
  <2>1. Untouched(j)
    BY <1>0, <1>1, <1>3, <1>8 DEF McInv, McTypeOK, Untouched
  <2> QED
    BY <2>1, UntouchedKeeps DEF McInv
<1> QED
  BY <1>6, <1>7, <1>8 DEF McInv

LEMMA McInvInit == McInit => McInv
<1> SUFFICES ASSUME McInit PROVE McInv
  OBVIOUS
<1>1. {} \in SUBSET Member
  OBVIOUS
<1>2. NoFwd \in Fwd
  BY <1>1, ForwardType
<1>3. McTypeOK
  BY <1>2, McIdleType DEF McInit, McTypeOK, McEntry, PPE_PKT_TYPE
<1>4. ASSUME NEW i \in Index PROVE EntryOK(i)
  BY McIdleType DEF McInit, EntryOK, Filled, InStep, AsListed, Uncommitted, InCall
<1> QED
  BY <1>3, <1>4 DEF McInv

LEMMA McInvStep == ASSUME McInv, [McNext]_mcVars PROVE McInv'
<1>1. CASE UNCHANGED mcVars
  <2>1. McTypeOK'
    BY <1>1 DEF McInv, McTypeOK, mcVars
  <2>2. ASSUME NEW i \in Index PROVE EntryOK(i)'
    BY <1>1, UntouchedKeeps DEF McInv, Untouched, mcVars
  <2> QED
    BY <2>1, <2>2 DEF McInv
<1> QED
  BY <1>1, McLearnKeeps, McRetireKeeps, RefreshKeeps, SetValidKeeps, DataHandlerKeeps, ListUpdateKeeps,
     CleanKeeps, ListAddKeeps, BindDropKeeps, SetInfoKeeps, StateHandlerKeeps, NotValidKeeps,
     CommitKeeps DEF McNext

LEMMA McInvCorrect == McSpec => []McInv
<1>1. McInv /\ [McNext]_mcVars => McInv'
  BY McInvStep
<1> QED
  BY <1>1, McInvInit, PTL DEF McSpec

(* The entries, their copies and the masks keep their types; the channel   *)
(* of an entry is 0 or a port of the switch.                               *)
THEOREM McTypeCorrect == McSpec => []McTypeOK
<1>1. McInv => McTypeOK
  BY DEF McInv
<1> QED
  BY <1>1, McInvCorrect, PTL

(* A bound entry leads to the members that are recorded for it, for any    *)
(* masks and any number of ports, as long as no other handler has come     *)
(* between the change of its copy and the commit.                          *)
THEOREM MembersServedHolds == McSpec => []MembersServed
<1>1. McInv => MembersServed
  BY DEF McInv, McTypeOK, Astray, EntryOK, AsListed, MembersServed, Uncommitted, McAt
<1> QED
  BY <1>1, McInvCorrect, PTL

(* No entry forwards without the group's MAC address, except one whose     *)
(* copy was taken from a call between its change and its commit and one    *)
(* that arht_multicast_hwnat_list_update bound with no look at its state,  *)
(* which aged under its record or was bound to drop before.                *)
THEOREM NoBareEntryHolds == McSpec => []NoBareEntry
<1>1. McInv => NoBareEntry
  BY DEF McInv, EntryOK, Filled, NoBareEntry
<1> QED
  BY <1>1, McInvCorrect, PTL
(***************************************************************************)
(* The components side by side: a step of one of them is a step of its own *)
(* specification, so each keeps the invariant it has alone.                *)
(***************************************************************************)
PartsInv ==
    /\ part \in Part
    /\ part = "lro" => TypeOK
    /\ part = "qos" => QosInv
    /\ part = "rate" => RateInv
    /\ part = "calc" => RatesInv
    /\ part = "mc" => McInv
    /\ part = "tx" => TxInv
    /\ part = "led" => LedInv

LEMMA OnePart ==
    ASSUME [DriverNext]_driverVars
    PROVE  /\ part' = part
           /\ part = "lro" => [Next]_vars
           /\ part = "qos" => [QosNext]_qosVars
           /\ part = "rate" => [RateNext]_rateVars
           /\ part = "calc" => [CalcNext]_calc
           /\ part = "mc" => [McNext]_mcVars
           /\ part = "tx" => [TxNext]_txVars
           /\ part = "led" => [LedNext]_ledVars
BY Zenon DEF DriverNext, driverVars

(* Every component keeps its variables in the values the code can give     *)
(* them, whichever of the others share the SoC with it.                    *)
THEOREM PartsTypeOKHolds ==
    ASSUME Board, NoLateMappingError
    PROVE  DriverSpec => []PartsTypeOK
<1>1. DriverInit => PartsInv
  <2> SUFFICES ASSUME DriverInit PROVE PartsInv
    OBVIOUS
  <2>1. part \in Part /\ Init /\ QosInit /\ RateInit /\ CalcInit /\ McInit /\ TxInit /\ LedInit
    BY DEF DriverInit
  <2> QED
    BY <2>1, RingTypeInit, QosInvInit, RateInvInit, RatesInit, McInvInit, TxInvInit, LedInvInit
       DEF PartsInv
<1>2. PartsInv /\ [DriverNext]_driverVars => PartsInv'
  <2> SUFFICES ASSUME PartsInv, [DriverNext]_driverVars PROVE PartsInv'
    OBVIOUS
  <2> QED
    BY OnePart, RingTypeStep, QosInvStep, RateInvStep, RatesNext, McInvStep, TxInvStep, LedInvStep
       DEF PartsInv
<1>3. PartsInv => PartsTypeOK
  BY DEF PartsInv, PartsTypeOK, QosInv, RateInv, RatesInv, McInv, TxInv, LedInv
<1> QED
  BY <1>1, <1>2, <1>3, PTL DEF DriverSpec
==============================================================================
