------------------------------- MODULE TxRing -------------------------------
(***************************************************************************)
(* A transmit ring of the QDMA as the three copies of the transmit routine *)
(* in arht_dp_api.c fill it: airoha_eth_transmit_packet, qdma_wan_tx and   *)
(* airoha_eth_fast_tx.  Free descriptors hang on q->tx_list in the order   *)
(* they came back; a descriptor names the one to follow (NEXT_ID), taken   *)
(* from the head of that list, and REG_TX_CPU_IDX tells the hardware how   *)
(* far it may go.  The Ethernet driver's own airoha_dev_xmit and its       *)
(* completion poll share the ring; they exist here as kernel patches.      *)
(*                                                                         *)
(* Each routine runs under q->lock, so a call is one action.  What a       *)
(* packet carries is left out; the frame engine may be slow, and reports   *)
(* descriptors in any order.                                               *)
(***************************************************************************)
EXTENDS Integers, Sequences, FiniteSets

CONSTANTS
    NDesc,          \* descriptors of the ring
    FreeThr,        \* q->free_thr, the descriptors the largest packet needs
    Skb, NoSkb,     \* packet buffers
    UnmappableAt    \* which fragment of a packet dma_map_single may refuse

ASSUME TxAssumption ==
    NDesc \in Nat \ {0} /\ FreeThr \in Nat \ {0} /\ UnmappableAt \subseteq Nat /\ NoSkb \notin Skb

VARIABLES
    txList,     \* q->tx_list, the free descriptors in order
    entry,      \* q->entry: the buffer and whether its fragment is mapped
    desc,       \* q->desc: the NEXT_ID and DONE fields
    queued,     \* q->queued
    cpuIdx,     \* REG_TX_CPU_IDX
    dmaIdx,     \* how far the hardware has got
    reported,   \* descriptors in the completion queue
    stopped,    \* the net device queue is stopped (netif_tx_stop_queue)
    txqStopped, \* q->txq_stopped: the poll is to wake the net device queues
    lent        \* the buffers the ring holds
txVars == <<txList, entry, desc, queued, cpuIdx, dmaIdx, reported, stopped, txqStopped, lent>>

Desc == 0 .. NDesc - 1
Routine == {"transmit", "fast"}  \* qdma_wan_tx does to the ring what transmit does
TxTypeOK ==
    /\ txList \in Seq(Desc)
    /\ entry \in [Desc -> [skb : Skb \cup {NoSkb}, mapped : BOOLEAN]]
    /\ desc \in [Desc -> [next : Desc, done : BOOLEAN]]
    /\ queued \in 0 .. NDesc
    /\ cpuIdx \in Desc /\ dmaIdx \in Desc /\ reported \subseteq Desc
    /\ stopped \in BOOLEAN /\ txqStopped \in BOOLEAN
    /\ lent \subseteq Skb

(* airoha_qdma_init_tx_queue *)
TxInit ==
    /\ txList = [n \in 1 .. NDesc |-> n - 1]
    /\ entry = [d \in Desc |-> [skb |-> NoSkb, mapped |-> FALSE]]
    /\ desc = [d \in Desc |-> [next |-> 0, done |-> TRUE]]
    /\ queued = 0 /\ cpuIdx = 0 /\ dmaIdx = 0 /\ reported = {}
    /\ stopped = FALSE /\ txqStopped = FALSE /\ lent = {}

-----------------------------------------------------------------------------
(* The routines. *)

(* Bug: a packet may take the last free descriptor. *)
Full_Loose(n) == queued + n > NDesc

(* "Not enough space in the queue": one descriptor always stays free, for  *)
(* the last descriptor of a packet to name as the next.                    *)
Full(n) == queued + n >= NDesc

(* The descriptors a packet of n fragments takes, and those that are left. *)
Grabbed(n) == {txList[k] : k \in 1 .. n}
Remaining(n) == SubSeq(txList, n + 1, Len(txList))

(* The loop over the fragments writes descriptor k with the head of the    *)
(* list, after k was taken, as the one to follow.  (The index read from an *)
(* empty list means nothing; Full keeps that from happening.)              *)
HeadIdx(list) == IF list = <<>> THEN 0 ELSE Head(list)

(* Bug: the head is read before k is taken. *)
NextId_Own(k) == txList[k]

NextId(k) == HeadIdx(Remaining(k))
Written(n) ==
    [d \in Desc |->
        IF d \in Grabbed(n)
        THEN [next |-> NextId(CHOOSE k \in 1 .. n : txList[k] = d), done |-> FALSE]
        ELSE desc[d]]

(* Bug: every descriptor of the packet records the buffer. *)
Holding_Every(s, n, holder, isMapped) ==
    [d \in Desc |-> IF d \in Grabbed(n) THEN [skb |-> s, mapped |-> isMapped] ELSE entry[d]]

(* The first descriptor of a packet records the buffer; airoha_dev_xmit    *)
(* records it in the last.                                                 *)
Holding(s, n, holder, isMapped) ==
    [d \in Desc |->
        IF d \in Grabbed(n)
        THEN [skb |-> IF d = txList[holder] THEN s ELSE NoSkb, mapped |-> isMapped]
        ELSE entry[d]]

(* After a packet the routines ring the doorbell unless the stack has more *)
(* to come, and then stop the net device queue when the largest packet no  *)
(* longer fits.  airoha_eth_fast_tx always rings and never stops it.       *)
More(by) == IF by = "fast" THEN {FALSE} ELSE BOOLEAN
RingAndStop(by, n, more) ==
    /\ cpuIdx' = IF stopped \/ ~more THEN HeadIdx(Remaining(n)) ELSE cpuIdx
    /\ stopped' = (stopped \/ (by # "fast" /\ NDesc - (queued + n) < FreeThr))
    /\ UNCHANGED txqStopped

Send(by, s, n, more) ==
    /\ s \notin lent /\ ~Full(n)
    /\ desc' = Written(n)
    /\ entry' = Holding(s, n, 1, TRUE)
    /\ txList' = Remaining(n)
    /\ queued' = queued + n
    /\ lent' = lent \cup {s}
    /\ RingAndStop(by, n, more)
    /\ UNCHANGED <<dmaIdx, reported>>

(* A packet that does not fit goes back to the caller, which stops the net *)
(* device queue; airoha_eth_fast_tx drops it instead.                      *)
SendFull(by, n) ==
    /\ Full(n)
    /\ by # "fast"
    /\ stopped' = TRUE
    /\ UNCHANGED <<txList, entry, desc, queued, cpuIdx, dmaIdx, reported, txqStopped, lent>>

(* error_unmap: fragment k cannot be mapped.  What was written for the     *)
(* fragments before it stays in the descriptors, which go to the tail of   *)
(* the list, and the packet is freed.                                      *)
Returned(k) == Remaining(k - 1) \o SubSeq(txList, 1, k - 1)

SendUnmappable(s, n, k) ==
    /\ s \notin lent /\ ~Full(n) /\ k \in 1 .. n
    /\ desc' = Written(k - 1)
    /\ entry' = IF k = 1 THEN entry ELSE Holding(s, k - 1, 1, FALSE)
    /\ txList' = Returned(k)
    /\ UNCHANGED <<queued, cpuIdx, dmaIdx, reported, stopped, txqStopped, lent>>

-----------------------------------------------------------------------------
(* The Ethernet driver, from its patches. *)

(* airoha_dev_xmit, when everything can be mapped. *)
DevXmit(s, n, more) ==
    /\ ~stopped /\ s \notin lent /\ ~Full(n)
    /\ desc' = Written(n)
    /\ entry' = Holding(s, n, n, TRUE)
    /\ txList' = Remaining(n)
    /\ queued' = queued + n
    /\ lent' = lent \cup {s}
    /\ stopped' = (NDesc - queued' < FreeThr)
    /\ txqStopped' = (txqStopped \/ stopped')
    /\ cpuIdx' = IF stopped' \/ ~more THEN HeadIdx(Remaining(n)) ELSE cpuIdx
    /\ UNCHANGED <<dmaIdx, reported>>

DevXmitFull(n) ==
    /\ ~stopped /\ Full(n)
    /\ stopped' = TRUE /\ txqStopped' = TRUE
    /\ UNCHANGED <<txList, entry, desc, queued, cpuIdx, dmaIdx, reported, lent>>

(* The hardware sends the next descriptor and reports it. *)
HwSend ==
    /\ dmaIdx # cpuIdx
    /\ desc' = [desc EXCEPT ![dmaIdx].done = TRUE]
    /\ reported' = reported \cup {dmaIdx}
    /\ dmaIdx' = desc[dmaIdx].next
    /\ UNCHANGED <<txList, entry, queued, cpuIdx, stopped, txqStopped, lent>>

(* airoha_qdma_tx_napi_poll, for one report. *)
Wakes == txqStopped /\ NDesc - queued' >= FreeThr
Poll(d) ==
    /\ d \in reported
    /\ reported' = reported \ {d}
    /\ IF queued = 0 \/ ~desc[d].done
       THEN UNCHANGED <<txList, entry, queued, stopped, txqStopped, lent>>
       ELSE /\ entry' = [entry EXCEPT ![d].mapped = FALSE]
            /\ txList' = Append(txList, d)
            /\ queued' = queued - 1
            /\ lent' = lent \ {entry[d].skb}
            /\ stopped' = (stopped /\ ~Wakes)
            /\ txqStopped' = (txqStopped /\ ~Wakes)
    /\ UNCHANGED <<desc, cpuIdx, dmaIdx>>

-----------------------------------------------------------------------------
Frags == 1 .. FreeThr
RoutineStep(by) ==
    \E n \in Frags :
        \/ \E s \in Skb, more \in More(by) : Send(by, s, n, more)
        \/ SendFull(by, n)
        \/ \E s \in Skb, k \in UnmappableAt : SendUnmappable(s, n, k)

DevXmitStep ==
    \E n \in Frags : DevXmitFull(n) \/ \E s \in Skb, more \in BOOLEAN : DevXmit(s, n, more)

TxNext ==
    \/ \E by \in Routine : RoutineStep(by)
    \/ DevXmitStep
    \/ HwSend
    \/ \E d \in Desc : Poll(d)

(* The frame engine sends what it is told to, and the poll runs.  Nothing  *)
(* obliges anyone to send another packet.                                  *)
TxFairness == WF_txVars(HwSend) /\ \A d \in Desc : WF_txVars(Poll(d))

TxSpec == TxInit /\ [][TxNext]_txVars /\ TxFairness

-----------------------------------------------------------------------------
(* Properties. *)

InFlight == {d \in Desc : entry[d].mapped}
Listed == {txList[k] : k \in DOMAIN txList}

(* Every descriptor is either free, once and unmapped, or in flight and    *)
(* counted; and one is always free, which the loop relies on when it reads *)
(* the head of the list after taking the last descriptor it needs.         *)
RingAccounted ==
    /\ Len(txList) = Cardinality(Listed) /\ Len(txList) >= 1
    /\ Listed = Desc \ InFlight
    /\ queued = Cardinality(InFlight)

(* What the hardware is about to send, following NEXT_ID from where it is, *)
(* is what was submitted: it meets every mapped descriptor that was not    *)
(* sent before, each once and no other, then the head of the free list;    *)
(* and it comes to the doorbell on the way.                                *)
Awaiting == {d \in InFlight : ~desc[d].done}
ChainIsSubmitted ==
    LET m == Cardinality(Awaiting)
    IN  \E order \in [0 .. m -> Desc] :
          /\ order[0] = dmaIdx /\ order[m] = txList[1]
          /\ \A i \in 0 .. m - 1 : order[i + 1] = desc[order[i]].next
          /\ {order[i] : i \in 0 .. m - 1} = Awaiting
          /\ \E i \in 0 .. m : order[i] = cpuIdx

(* No buffer is freed twice: the poll frees what the ring still holds. *)
FreesOnce ==
    \A d \in Desc :
        Poll(d) /\ queued' < queued /\ entry[d].skb # NoSkb => entry[d].skb \in lent
FreedOnce == [][FreesOnce]_txVars

(* Patch 148, "In order to avoid any potential net_device TX queue stall,  *)
(* we need to wake all the net_device TX queues feeding the same hw QDMA   *)
(* TX queue": a net device queue that is stopped is woken.                 *)
StoppedIsWoken == stopped ~> ~stopped

(* Patch 157, "In order to respect the original descriptor order and avoid *)
(* any potential IOMMU fault or memory corruption": the hardware sends     *)
(* nothing that is not mapped.                                             *)
HwSendsMapped == dmaIdx # cpuIdx => entry[dmaIdx].mapped
=============================================================================
