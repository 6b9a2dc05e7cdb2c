# Verification of the Airoha Ethernet data path

TLA+ models of the parts of `src/airoha/files/` where several actors share state or a
long sequence of calls must leave the hardware right: the packet processing engine
(PPE) and its tables, the binding and the cleaning of flows, multicast, the transmit
rings, the scheduler and the meters of the QDMA, the LRO rings, the L2-bridge filter, the
mailbox of the Aeon PHYs and the system LEDs. Paths below are relative to
`src/airoha/files/drivers/net/ethernet/airoha/` unless they say otherwise. The
files are an overlay on the driver of Linux 6.18 (`KERNEL_PATCHVER` in
`src/airoha/Makefile`), which is not in the repository. What
`src/airoha/patches-6.18/` changes in it can be read there, and the upstream bodies of
`airoha_eth.c` and `airoha_ppe.c` in the backports of `src/airoha/patches-6.12/`; the rest is
modelled from how the overlay uses it. Of the patches of the 992 series that change overlay
files (AN7583, Wi-Fi flows, GDM2, TX completion, a NULL guard in the multicast
handler, the link monitor switched off), the one for Wi-Fi flows, 992-80, matters
here and is in `FlowOffload`.

## 1. Inventory

| component | state | operations | hard behaviour | correct means |
|---|---|---|---|---|
| Source-MAC shrink table (`arht_ppe.c` 436-929, 3653-3685) | `shnkTbl`: 16 slots with valid, MAC, time stamp, pin; the source-MAC index in each FOE entry | lookup with ageing, reuse, dump, PON pin | slots are shared by entries and aged by time only; a full table | an entry keeps its MAC while fresh, one slot per MAC, failure only when full |
| Flow binding (`arht_ppe.c` 271-318, 1125-1596, 1698-1788) | FOE entries in SRAM, `foe_ext` | routed, bridged, local-in and local-out binds, drop binds | a packet carries an entry index from reception to transmission while the hardware gives the entry away | an entry says what the packet was, and a bound one is not bound over |
| LRO ring pool (`arht_dp_api.c` 3405-3440) | `lro_ring_reserve`, queue number and port in the entry | reserve, take over an aged ring, fall back to ring 1 | no release: a ring is judged by re-reading its entry | no two live flows on a ring |
| FOE cleaning (`arht_ppe.c` 1790-2512, 3025-3245, 4236-4251) | SRAM, the buffer `ppe->foe`, `foe_ext`, the work queue | by_gemport, by_channel, by_fport_and_channel, by_mac, by_type, by_ip, by_port, by_landev, the whole table | locks per entry, a notifier that scans beside the worker | no flow of a device that is gone survives, no other conntrack is lost |
| L2B filter and `mac_swap` (`arht_ppe.c` 3959-4234, `arht_loopback.c` 340-500) | EN and value registers, `l2b_*_etype_index` | install, clear, find, roll back | shared registers, failure half way, no lock | off restores, on is complete, others' entries stay |
| Aeon mailbox (`arht_hsgmii.c` 1194-1516) | `ipc_cmd_num`, command and status registers | commands, polling, parity sync | a counter shared by PHYs, late answers, timeouts | a success belongs to the command |
| Multicast hardware NAT (`arht_dp_api.c` 1671-2120, `arht_ppe.c` 231-257, 494-546, 3688-3854) | FOE entries, their one shared copy, the multicast module's list of masks | bind, update, clean, drop | the copy is changed outside the lock that refreshes it | an entry leads to the members recorded for it |
| Flow offload (`arht_ppe.c` 2758-3580, 3856-3956; patches 048-13, 992-40, 992-80) | the flow table `ppe->foe_flow` with `tx_modified` and the index of each flow, SRAM, the buffer `ppe->foe` | add, fill in, commit and remove a flow | commit before the fields are known, a stale index or buffer, a flow looked up by an entry that changed hands | nothing bound without egress fields, table and entry agree, a removed flow is unbound |
| Transmit rings (`arht_dp_api.c` 1049-1163, 1551-1640, 2592-2733; `airoha_eth.c` in the patches) | descriptors, the list of free ones, doorbell, stopped queues | three transmit routines, the driver's own, the completion poll | routines that disagree on how a ring is kept; descriptors that complete out of order | descriptors accounted for, the hardware follows what was submitted |
| QDMA scheduler (`arht_qdma.c` 49-50, 268-499) | the copy of the close register, weights, modes | set and get of the QoS of a channel | write-only register, no lock, a command that is not acknowledged | a set has done what was asked, on its channel only; get then set changes nothing |
| QDMA meters (`arht_qdma.c` 502-1407, `arht_dp_api_debugfs.c` 53-146) | meter parameters behind a command register, `gemport` flags | set a limit of a ring or a gemport, read it | commands that fail half way, reads outside the lock, one flag for the meters of both directions | a meter that took a limit is on and has it |
| Rate arithmetic (`arht_qdma.c` 58-91, 539-569, 1158-1258; `arht_hsgmii.c` 2895-3137) | - | bucket and token rate of a limit | rounding, narrow integers | the least bucket that covers, the rate asked for |
| System LEDs (`src/airoha/files/drivers/leds/leds-smartrg-system.c`) | `control[]`, registers behind I2C | brightness, blink, pulse, probe, remove | a write fails after its effect was recorded; probe and remove beside calls | the LEDs show what was asked |
| Speed test and TR-471 (`arht_dp_api.c` 2123-2590) | FOE entries | binds of their own | the copy of an entry without `ppe_lock` | section 6 |
| Receive dispatch (`arht_dp_api.c` 3259-3404) | - | one handler per packet | - | section 6 |
| Frame engine (`arht_fe.c`) | channel enable and retire bits | drop, retire, unlock a hang | - | not called: section 6 |
| Link monitor (`arht_dp_api.c` 2800-3257) | `eth_lastlinks`, QDMA channels | stop and start with the link | - | not built: section 6 |
| NPU messages (`airoha_npu_extra.c`), init and exit of the PPE, loopback binding, debug files, SoC tables, kernel patches, device trees | | parsing, register defaults, data | | section 6 |

How they interact: the network stack calls the binders in softirq through hooks;
the binders look a source MAC up in the shrink table and, for local-in flows, take
an LRO ring, all under `ppe_lock`; PON, Wi-Fi and VLAN modules call the
`clean_entry_by_*` hooks, which queue work; the netdevice notifier cleans by
itself; the hardware learns and retires entries whenever it likes. Every handler of an
entry goes through the one copy of it in `ppe->foe`. The transmit routines share
the rings with the Ethernet driver, under the lock of the ring. Proc and debugfs
writers enter from process context with no lock of their own. The scheduler,
the meters, the mailbox and the LEDs share nothing with the others but the hardware bus.

## 2. Modules

| module | models | how it corresponds |
|---|---|---|
| `ShrinkTable` | the source-MAC selector of `shnkTbl`, binders, cleaners, hardware | `valid`, `smac`, `pinned` are the fields of a slot, `age` is `jiffies - timestamp` capped above `timeOutVal`; `FindAndUpdate` is `find_and_update_shrink_table` with its trailing `reuse_shrink_table`; a clean by source MAC goes entry by entry (`GetEntry`, or `GetEntryFails` which ends it, `CheckEntry` on the buffer and without the lock, `ClearEntry` under it, `NextEntry`), with everything else between; `want`, `boundAge` and `settled` are history |
| `SmacLease` | what the table promises: leases of slots to MACs | abstract, knows no order of slots |
| `LroRing` | `lro_ring_reserve` and the entry fields it is judged by | `LocalInBind` is one bind under `ppe_lock`; `ReadMayFail` (FALSE in the runs) allows SRAM reads of other entries to time out |
| `FoeClean` | SRAM, the buffer, `foe_ext`, the queue, two scans | one action per lock section: `GetEntry`, `Check`, `DeleteConntrack`, `DeleteEntry`; `Bind` is any binder, and only `airoha_ppe_general_bind` records the packet's device in `foe_ext`, when it has one: the others leave what the entry's previous flow left; the field `recorded` of an entry is a ghost that tells them apart |
| `FlowOffload` | the flow table, SRAM, the state each entry has in the buffer, packets in flight | one action per section under `ppe_lock`: `Insert` on reception (`airoha_ppe_check_skb`), `TxUpdate` on transmission, then `GeneralBind` or `DropPacket`; `Replace` and `Destroy` are netfilter's; `by` is the flow whose packet gave the egress fields, `by # NoFlow` is `tx_modified`; `via` is the path an entry was bound on and is history |
| `Multicast` | multicast entries, their copies, the multicast module's list | one action per section under a lock, or up to the next without one: `DataHandler`, `SetInfo`, `StateHandler`, `Commit` make up a bind, `ListUpdate` begins an update; `Forward` chooses among the state handlers; `Refresh` is any other handler that fetches the entry; `astray` is history: `taken` (another handler fetched the copy between its change and its commit), `parted` (recorded while it was not valid, or bound to drop beside its record), `blind` (`list_update` bound it although it was not bound or had no layer 2) |
| `L2bEtype` | the L2B registers and `mac_swap` | one action per register access: `ReadEn`, `WriteEn`, `ReadVal`, `WriteVal`; the slot scans are one action |
| `AeonIpc` | the mailbox between driver and PHY firmware | one action per command sent and per poll; `FwAccept` and `FwComplete` are the firmware |
| `TxRing` | a transmit ring | a routine runs under `q->lock` and is one action: `Send`, `SendFull`, `SendUnmappable`; `DevXmit`, `DevXmitFull` and `Poll` are the Ethernet driver, `HwSend` the QDMA, which reports in any order |
| `QdmaQos` | the scheduler of the QDMAs | one action per memory or register access of a call; `shadow` is `TXQ_DIS_CFG_VALUE`, one for all QDMAs, the rest of the state is per QDMA; a command whose acknowledge does not come may have worked or not (`SetTimeout`, `AskTimeout`); `snap` and `qresult` are history |
| `RateLimit` | the meters and the two debug files that set them | one action per register access; `Ops` lists the accesses of a call in order; the meters are those of two QDMAs, one of each direction, and `gemEnable` is the one array both share; a rate is the token word of a limit in the meter's tick, 0 for a limit below a 64th of the unit, and a limit that does not fit is refused before anything is written (`Refused`); `limited` is history |
| `Rates` | the arithmetic of buckets and token rates | each function of the code is an operator with the code's integer widths; a step is one call of it, and the search for a bucket size, which calls itself last of all, takes a step for each (`Search`) |
| `SystemLed` | the LED driver | one action per I2C write, which is taken, lost, or taken and not acknowledged; `asked` and `torn` are history |
| `SetLemmas` | lemmas on `Min` and `Max` | - |
| `ShrinkTable_proofs`, `FlowOffload_proofs`, `AeonIpc_proofs`, `FoeClean_proofs`, `L2bEtype_proofs` | theorems on the module of that name | section 5 |
| `Drivers_proofs` | theorems on `LroRing`, `TxRing` and `Multicast`, which model `arht_dp_api.c`, and on the components of `MCDrivers` together | section 5 |
| `HwCalls_proofs` | theorems on `SystemLed`, `QdmaQos` and `RateLimit`, whose calls go register by register, and on `Rates` | section 5 |

The `MC*` modules give constants their values; `MCDrivers` and `MCProgress` put
components that share no state side by side, a behaviour being one of one component.
An operator that follows a comment
beginning "Bug:" is a plausible wrong version of the definition after it, and no
specification uses it.

Left out of the models that exist: the IPv4 and IPv6 selectors of the shrink table
(the same code on another field), the two-register write of a slot's MAC
(one step in `ShrinkTable`), the branch of `reuse_shrink_table` that consults the
bitmap (no caller passes a `foe_idx`, so it stays empty), from `FoeClean` SRAM reads that fail
during a clean, the life of the conntracks, the proc writers that interleave
IPC messages (`AeonIpc` has one caller at a time), from `FlowOffload` multicast,
tunnel and local-in packets, L2 flows and their subflows, statistics and the entries
that are not in SRAM; from `Multicast` the twin for LAN groups
(`arht_multicast_hwnat_list_update_lan`), which calls the same handlers, and the headers; from
`TxRing` what a message to the frame engine says and byte queue limits; from
`RateLimit` the TRTCM mode, the packet mode (handled like the tick) and the LAN
meters. The modules of one FOE entry see different sides of it:
`ShrinkTable` its source-MAC index, `LroRing` its queue, `FoeClean` its device and
conntrack, `FlowOffload` its flow and egress fields, `Multicast` its forward mask.

## 3. Runs

| run | bounds | shows |
|---|---|---|
| `shrink_table` | 3 slots, 3 MACs, 2 entries, one of them in SRAM and one in DRAM, timeout 1; PON slot 1, "keep" index 2 | types, `NoDuplicateSmac`, `BoundMacFresh`, `FailsOnlyWhenFull`, `PinnedStays`, `CleanBySrcMacExact`, and that `ShrinkTable` implements `SmacLease` |
| `flow_offload` | 2 entries, a wired and a Wi-Fi flow of one family with different addresses, 2 packets in flight, SFU mode (so that drops bind) | `GeneralOwnAddresses`, `EgressKnown`, `EgressAgrees`, `BindingNotStolen`, `DestroyUnbinds` |
| `foe_clean` | 2 entries, a flow of each of 2 devices, each bound with its device recorded or without, conntrack cap 1, queue of 1 | `NothingSurvives`, `OwnConntrackOnly` |
| `l2b_etype` | 4 slots (2 registers), 3 ether types, every content at boot; a second writer where boot left two slots | `Armed`, `NothingLeft` (claimed while writes never meet), `PreExistingKept` and `SwitchReturns` however two writers interleave |
| `progress` | `FoeClean` with 2 entries, 2 flows, one of a device and one of none, 1 device; `AeonIpc` with 2 PHYs, 3 polls to the timeout, slow or failing firmware | liveness: `QueuedCleanRuns`, `CallReturns`; and `OwnSuccess`, `SyncRestoresStep` |
| `drivers` | seven components side by side, below | types (`PartsTypeOK`) and seventeen properties, named by component below |

The components of `drivers`:

| module | bounds | properties |
|---|---|---|
| `LroRing` | 1 ring per port (pool of 2), 3 entries, ring number 12 used by other binders too | `RingExclusive`, `FallbackOnlyWhenAllHeld` |
| `QdmaQos` | 2 QDMAs, 2 channels, 2 queues, weights 0 and 1, 1 caller; two structs to fill in, both for one QDMA: the other is set with what was read | `QosTakesHold`, `OtherChannelsKept`, `GetThenSetIsNoOp` |
| `RateLimit` | 2 QDMAs, each with 1 ring of the slow tick and 2 gemports; limits an ordinary one, one too small for a token, one too large for the field, and 0; 1 writer; every access may fail | `LimitTakesHold`, `PolicedWhenEnabled` |
| `Rates` | every power of two with its neighbours, the rates the driver asks for by default, a tick of 0 and 7 on both sides of 16 us | `BucketIsLeast`, `TokenRateExact`, `HsgmiiBucketCovers` |
| `Multicast` | 1 entry, 2 switch ports of different speed, 2 SerDes, 6 masks that between them take every handler, one of them not servable | `MembersServed`, `NoBareEntry` |
| `TxRing` | 3 descriptors, packets of 1 or 2 fragments, 2 buffers, the first fragment may fail to map | `RingAccounted`, `ChainIsSubmitted`, `FreedOnce` |
| `SystemLed` | 2 LEDs, levels 0 and 1, any write may fail with or without effect | `LedsShowWhatWasAsked`, `OffWhenGone` |

Why they are enough: three slots are the least with an ordinary slot, the PON
slot and the "keep" slot, and three MACs overfill them, so lookups match, age, evict and fail; an age of
0, 1 and 2 is young, at the limit and over it. Two rings on two ports
alias one queue number, and three entries exhaust them. Two slots per value register
and a filter that can be full at boot make every rollback happen. A
conntrack cap of 1 is exceeded by two entries of one device. Two packets are the least
of which one can bind the entry the other carries, and both flows may be learned into
either entry, so that an entry changes hands and a flow moves. A ring of three
descriptors is full with one packet of two fragments, and wraps. Two queues have
a closed and an open one beside each other. Two gemports tell the meter that is programmed from
the one that flows are sent to, and two QDMAs the direction that took a limit from the one the flag speaks of as well. Two LEDs are the least where a failed write leaves another LED
behind. Symmetry is used on MACs, entries and packets where no property
distinguishes them. The types of `FlowOffload`, `FoeClean`, `L2bEtype` and `AeonIpc` are
proved and are not checked by a run. `drivers` and the violation runs do not check for deadlock where a part really
stops: a driver that was removed, a calculation, a ring with nothing left to send.

`QdmaQos` and `RateLimit` have one caller in the run: nothing in the code serialises two, and so
the properties claim nothing of calls that overlap (`qoverlap`, `roverlap`);
the lost updates that follow are listed as hazards. The proofs have any number of callers.

The flag of a gemport is one for both QDMAs (`arht_dp_api_debugfs.c:121-131`) and is read for flows of
both directions (`arht_dp_api.c:668-702`), while a setting reaches the meter of one: the flows of the other
direction are sent to a meter that may be off. `RateLimit` has this behaviour.
`PolicedWhenEnabled` therefore speaks of the directions that took a limit since the last 0 (`limited`),
and says that there is one whenever the flag is set. The gemport of a request is not used
(`arht_dp_api_debugfs.c:113`): every request is for the first one's meter and flag.

`arht_multicast_hwnat_list_update` (`arht_dp_api.c:2056`) binds its entry whatever state that is in. One
that aged and was learned again under its record, or was bound to drop, has no group MAC address
and forwards without one. `Multicast` has this behaviour, and `NoBareEntry` excepts it by name (`blind`), together
with the copies another handler fetched in between (`taken`). What it does claim is that the wipe that
`arht_set_multicast_hwnat_info` makes of a copy before it returns early is never committed, and that every
entry bound or updated while bound keeps its address, through ageing, learning, drops and other
handlers at any point outside a change. `MembersServed` needs no such exception: the forward fields are right even then.

`OwnConntrackOnly` speaks of flows whose own bind recorded their device. A flow that a flow-table, local, drop or
multicast bind put into an entry keeps the `lan_ifindex` of the entry's previous flow, and may lose its
entry and its conntrack to a clean of that device: `FoeClean` has this behaviour too.

The copy of the close register is one array for both QDMAs (`arht_qdma.c:50`). A set for
one QDMA writes its register from that copy, and so closes and opens the queues of the
channels beside it as they were last set on either QDMA. `QdmaQos` has this behaviour.
`OtherChannelsKept` therefore speaks of the channels of which the copy has what the register
has (`AsRecorded`), and of every channel of the other QDMA; `GetThenSetIsNoOp` of a struct
read while the copy told that channel's closed queues rightly, and of a channel a
completed set has left (`Whole`): a weight of 256 is a 0 in the hardware's eight bits and
closes nothing.

Six comments or patch texts say something the code does not do; each has a run with the one
property that states it, and TLC finds the counterexample:

| run | what the source says | what the code does |
|---|---|---|
| `shrink_slot_reused` | `arht_ppe.c:683` "if current entry is time out and no bindidx, invalid this entry" | a slot a bound entry uses is invalidated after the timeout, and so free for another MAC |
| `aeon_two_phys` | `arht_hsgmii.h:813` the status MSB is "a parity bit, toggling each time an IPC command is serviced" | a command to another PHY moves the shared counter, and an old success is taken for the answer |
| `foe_clean_toctou` | `arht_ppe.c:2471` "Copy the entry while holding the lock to avoid TOCTOU race condition" | the entry deleted may not be the entry checked |
| `flow_own_egress` | 992-40:175 "only commit once the TX path has populated the egress-side fields for this flow direction" | a packet whose entry went to another flow while it was forwarded fills in that flow, which passes the gate and is bound with another's egress |
| `tx_queue_stall` | 148-v7.1:11 "to avoid any potential net_device TX queue stall, we need to wake all the net_device TX queues feeding the same hw QDMA TX queue" | the overlay's routines stop a queue and never set `txq_stopped`, by which the poll wakes it |
| `tx_mapping_error` | 157-v7.2:7 "to respect the original descriptor order ... move pending queue entries to the head of hw queue tx_list" | a packet that cannot be mapped returns its descriptors to the tail, and the hardware goes on through one that is free |

In `aeon_two_phys` the firmware is prompt and never fails, so that the shared
counter is the one cause. In `progress` it is slow and may fail, and
`OwnSuccess` therefore speaks of commands sent in step whose wait did not time out:
on a timeout `aeon_ipc_wait_cmd_done` returns the status it read last, and an error
is returned whatever its parity. The two runs of `TxRing` have four descriptors; in
`drivers` only the first fragment may fail to map, as the chain is lost once a
later one does.

## 4. Fairness

`FoeClean` has weak fairness on `Dequeue` (a work queue runs what is queued) and on
each step of a running scan (the loops do not block). `L2bEtype` has it on each writer
inside a write: a system call runs on. `AeonIpc` has it on a call in progress (a polling loop)
and on the firmware once it has something to do; `CallReturns` also rests on the
timeout, not on the firmware being able to answer. `TxRing` has it on `HwSend` and
on `Poll` of each report: the QDMA sends what it was told to and NAPI polls what was
reported, and the queue of `tx_queue_stall` stays stopped all the same. The other modules have none: nothing there is
promised to happen. Nothing assumes that traffic, new requests
or commands arrive, and no strong fairness is used.

## 5. Proofs

For every number of slots, MACs, entries, rings, descriptors, buffers, ports, flows, packets, devices, PHYs, ether
types, QDMAs, channels, meters, callers and LEDs, and any timeout:

* `ShrinkTable_proofs`. `TypeCorrect`; then `NoDuplicateSmacHolds`,
  `BoundMacFreshHolds`, `FailsOnlyWhenFullHolds`, `PinnedStaysHolds`,
  `CleanBySrcMacExactHolds` and `ImplementsLease`. The inductive invariant `IInv`
  is types, `OnlyPonPinned`, `NoDuplicateSmac`, `ScanInv` and `SlotOutlivesBind`: a slot is
  stamped no earlier than any entry was bound to it, so the slot of an entry
  that is still fresh cannot have timed out. `BoundMacFresh` alone says nothing of
  the slot's age and is lost at the next lookup. `ScanInv` follows a clean by source MAC over the flows nobody
  else touches until it is done with them (`settled`): the buffer shows such an entry as it is when it is checked,
  the one about to be cleared was bound to the MAC, and of those behind the scan none was; that
  the slot of a fresh entry keeps its MAC while the scan runs without a lock is `SlotOutlivesBind` again.
  Of an entry that changed hands, of one in DRAM and of a clean whose read fails the theorem says nothing. `LookupEffect` collects what a
  lookup does to one slot, and each action gets a step of its own. The refinement
  maps an invalid slot to an unowned one.
* `Drivers_proofs`, the LRO rings. `RingTypeCorrect`, `FallbackOnlyWhenAllHeldHolds` and, assuming
  that SRAM reads do not fail, `RingExclusiveHolds`. The invariant adds to the types that an
  entry that delivers into a ring is the one the ring is reserved for. The
  assumption is needed: `airoha_get_free_lro_ring` takes an entry it cannot read for
  one that aged out, and gives its ring away.
* `Drivers_proofs`, the transmit rings. `RingAccountedHolds`, `ChainIsSubmittedHolds`,
  `HwSendsMappedHolds`, `FreedOnceHolds` and `TxTypeCorrect`, for rings and packets of any size, completions in any
  order and two ways of recording the buffer in one ring, assuming that no fragment after the first
  fails to map (`NoLateMappingError`; the run `tx_mapping_error` shows that it is needed). The
  invariant `TxInv` is `FreeInv` (the free list has no descriptor twice, is what is not in
  flight, and with what is queued makes up the ring), `BuffersInv` (a buffer is recorded in one
  descriptor in flight), `ReportedInv` (what is reported is in flight and sent) and `ChainInv`: there is a path
  from the hardware along NEXT_ID through every descriptor it has yet to send, once, to the head of
  the free list, and the doorbell is on it. A packet lengthens that path at its end, the hardware shortens it
  at its front (`IsChain`), and the poll leaves it alone as it appends to the other end
  of the list. "The last descriptor names the next free one" is lost when the list is
  empty; that it never is, is in `FreeInv`.
* `Drivers_proofs`, multicast. `McTypeCorrect`, `MembersServedHolds` and `NoBareEntryHolds`, for any ports,
  SerDes, speeds up to a gigabit and masks. `EntryOK`, entry by entry, says what is promised of entries at rest and what
  the call of the multicast module has come to in between: the copy it is changing has
  the group's MAC address, before the commit it also has the forward fields of the mask that
  was recorded, and an entry of no group that is bound drops. Each of the state handlers is shown
  to serve the members of its mask (`Serves`), and the port it chooses to be a fastest
  one of the mask (`FastestIs`, from the lemmas on `Min` and `Max`). What is
  excepted of an entry is what the properties except: `Filled` (the address) of those `taken` or `blind`, `InStep` (the
  call's copy) of those `taken`, `AsListed` (the record) of those `taken` or `parted`. Ageing and learning
  excuse nothing.
* `FlowOffload_proofs`. `TypeOKHolds`, `GeneralOwnAddressesHolds`,
  `EgressKnownHolds`, `EgressAgreesHolds`, `BindingNotStolenHolds` and
  `DestroyUnbindsHolds`: every property of the run. The inductive invariant adds three
  facts to the properties. `Mirrored`: the buffer shows every bound entry as bound,
  since the hardware never binds; this is what lets `airoha_ppe_foe_remove_flow`, which
  consults the buffer, unbind a flow instead of binding it again. `HashHasEgress`: a
  flow with an index is in the table and has its egress fields, so a packet that fills
  a flow in cannot change one that is bound. `Learned`: the entry a packet carries has
  shown a flow ever since. `Touched` says that a handler commits a sound entry,
  refreshes the buffer or leaves both alone; each handler is shown to be of that form,
  and what that preserves is proved once.

* `AeonIpc_proofs`. `AeonTypeCorrect`, `OwnSuccessHolds`, `SyncRestoresStepHolds`. The
  invariant `AeonInv` follows the one command that is out: while a call waits, the
  command register holds the parity before the counter's, and the firmware has
  not taken it up, has it in service, or has answered it. `OwnSuccess` alone does not
  say where a command is between its two ends.
* `FoeClean_proofs`. `CleanTypeCorrect`; `OwnConntrackOnlyHolds` from
  `DeviceRecorded`: for every bound entry of SRAM and of the buffer whose own bind recorded its
  device, that is what `foe_ext` still has; `NothingSurvivesHolds` from `CleanInv`: what was bound when
  a device clean began and is still pending is at the entry the scan is at or
  ahead of it.
* `L2bEtype_proofs`. `EtypeTypeCorrect` and `PreExistingKeptHolds`, with any number of
  writers interleaved register access by register access. The invariant is
  `Kept` (the registers hold what they held at boot), that no recorded slot is one of
  those, and for each writer `ChoseFree` (the slot it is about to fill, and the
  values it has read of the registers it is about to write, leave them alone) and `NotHad` (the ether type it is
  about to take out was not there at boot). Without the last two a writer that was
  overtaken could undo what another did. `ArmedHolds` and `NothingLeftHolds` add `SoloInv`, which is
  claimed until two writes have met: `SlotsOK` (a slot is recorded for one ether type at most and holds it,
  and holds what it held at boot otherwise, but for the slot that is half written), and for the one
  writer `Enabling` or `Removing` (which ether types are installed, by the position it is at) and
  `ReadBack` (what it has read of a register is still there).
* `HwCalls_proofs`, the LEDs. `LedTypeCorrect`, `LedsShowWhatWasAskedHolds`,
  `OffWhenGoneHolds`, for any board with at least one LED and level 0 among the levels (`Board`). The
  invariant `LedInv` is `LedRecorded` (`control[]` has the last command asked of each LED),
  `Placed` (where a call, probe and remove are in their writes), `Synced` (the command registers
  a sync has gone past hold what `control[]` says) and `TurnedOff` (each LED
  unregistered so far was asked to be off).
* `HwCalls_proofs`, the scheduler. `QosTakesHoldHolds`, `GetThenSetIsNoOpHolds` and
  `OtherChannelsKeptHolds`, for any QDMAs, channels, queues, weights, structs and callers, with the calls that
  overlapped or timed out in the past. `QosInv` follows the call in progress while no calls have met: `Setting`
  (the queues it has been past are closed as asked in the copy and in the register, the weights it has
  been past are in the hardware, and the modes it has read are still there), `Getting` (what it has read so far is what the hardware
  has), and what a call that returned has left (`Holds`). `FromSnap` ties a struct to the
  channel it was read from, closed queues told as weight 0; it outlives the
  set, which turns those weights into 1 in the caller's own struct.
* `HwCalls_proofs`, the meters. `LimitTakesHoldHolds` and `PolicedWhenEnabledHolds`, for any rings, gemports,
  limits, ticks and writers. `RateInv` says which register holds what inside an access (`Accessing`),
  what the accesses before it have left in the meter if they worked (`Passed`), that the meters of the directions
  that took a limit police (`Polices`) unless the call in progress is switching one off, and that a gemport is
  flagged only if there is such a direction (`FlaggedIf`). A
  read back that goes unanswered leaves the value at the 0 it starts with: for that reason `Passed` distinguishes a limit
  of 0, of which the verification may pass without the write having worked, from the
  others, of which it may not.

* `HwCalls_proofs`, the arithmetic. `BucketIsLeastHolds`, `TokenRateExactHolds` and
  `HsgmiiBucketCoversHolds`, for any sizes, rates and ticks. `RatesInv` has, while a search goes on,
  `Bracketed`: its bounds are at least two apart, the upper one is large enough or the last there is, the lower one
  is too small or 0; and once it has returned, `Answered`, from which the two bucket properties follow. That bounds
  so far apart have their middle strictly between them (`HalfwayIs`) is also why the code's
  test for `lo > hi` is never true. `BiSearchStep` and `HsgmiiSearchStep` take one call each, and `ShlGrows`
  rules out the shifts below. `UnitIs` says when 16 bits hold a unit, `TokenRateIs` is the two divisions.
* `Drivers_proofs`, the components together. `PartsTypeOKHolds`: a step of `MCDrivers` is a step of
  the one component the behaviour is of (`OnePart`), which therefore keeps the invariant it has alone. The types
  of the parts are theorems of their own specifications too (`QosTypeCorrect`, `RateTypeCorrect`, `TxTypeCorrect`,
  `McTypeCorrect`, `RingTypeCorrect`, `LedTypeCorrect`).

The assumptions on constants are the named `ASSUME`s of the modules, which TLC
evaluates in every run, and the three assumptions a theorem states itself (`ReadMayFail = FALSE`,
`NoLateMappingError`, `Board`); the runs have the same. What they leave out: that `Speed` is at most a gigabit
(`McAssumption`): the search for the fastest port stops at 1000, and the ports of the switch are no faster; that the masks name members is what the multicast
module, which is external, passes.

Every invariant and action property that a passing run checks is a theorem. Only model-checked are
the liveness properties `SwitchReturns`, `QueuedCleanRuns` and `CallReturns`, which are beyond the
prover, as is `ENABLED`.

## 6. Not modelled

About 17000 of the 37000 lines under `src/airoha/files/` are headers: tables of hook numbers,
structs and inline wrappers (`src/airoha/files/include/linux/`), most of which nothing in the
repository calls, and register maps. They have no behaviour to model, nor has the code that
formats and parses debug and proc files. Of the code that has some:

* **Frame engine** (`arht_fe.c`). Its hook and the hook interface it would answer
  are inside `#if 0`, and no other file calls its functions but the link monitor.
* **Link monitor** (`arht_dp_api.c` 2800-3257). Patch 992-94 removes its start in 6.12 and in 6.18.
* **Aeon image update** (`arht_hsgmii.c` 1833-2035). Built only with `DUAL_FLASH`,
  which nothing defines. (A reader who enables it should know that
  `aeon_ipc_sys_cpu_info` returns 1 for a command that failed, which
  `aeon_burn_image` takes for an image that was checked.)
* **Aeon parameters, cable diagnostics, SerDes** (`arht_hsgmii.c` 1517-1832,
  2037-2893). Single mailbox calls with other data, which `AeonIpc` has, and register
  programming whose order only the data sheet explains.
* **Speed test and TR-471** (`arht_dp_api.c` 2123-2590). They bind entries for packets that modules
  outside the repository mark, through the shared copy and without `ppe_lock`. The
  hazards are listed; a property would have to say what such an entry is for.
* **Receive dispatch.** Reads a descriptor and calls one handler, whose effects are
  in `LroRing`, `FlowOffload` and `Multicast`.
* **HW-NAT loopback binding** (`arht_loopback.c` 29-340). Rewrites one packet's entry, nothing shared.
* **NPU messages** (`airoha_npu_extra.c`). Up to three more sends of a message; what the
  firmware does with one it gets twice is not in the repository.
* **The UPDMEM registers** of a shrink-table slot. Two writes whose overlap with the unlocked PON
  writer matters only by when the hardware takes a request, of which the code says nothing.
* **Init and exit.** The order of calls in one function; what a late caller then meets is freed
  memory, which the models do not have.
* **Hazards noted without a property.** The second LRO ring of an entry bound again after ageing
  (`arht_dp_api.c:3421`); an error status left in the mailbox by an earlier command
  (`arht_hsgmii.c:1384`) and its wall-clock timeout (1389); collision checks that differ between IPv4 and IPv6 (299) or are not made for
  local-in binds (1341); `skb` devices kept as raw pointers (3147); the exit order
  (4284). Each is one
  assignment or one missing check and is visible in the code itself; a model would restate it.
* **SoC tables, device trees, images, other kernel patches.** Data, and diffs against
  code that is not here.

## 7. What could come next

1. The rest of the flow table: L2 flows and subflows, local-in binds, the lock gap of the
   drop handler, flows found by index; an abstract flow table that `FoeClean` and
   `FlowOffload` implement together.
2. Failing SRAM reads in `FoeClean`; two callers in `AeonIpc`.
3. Proofs: a ring that survives late mapping errors, should the code come to put descriptors back at the head.
