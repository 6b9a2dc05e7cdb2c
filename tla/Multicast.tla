------------------------------ MODULE Multicast -----------------------------
(***************************************************************************)
(* Multicast in the packet engine (arht_dp_api.c, arht_ppe.c): entries are *)
(* bound to the set of ports that have members, which a multicast module   *)
(* outside this repository keeps in its list and changes as members join   *)
(* and leave.                                                              *)
(*                                                                         *)
(* All handlers work on the copy of an entry that is in ppe->foe, one copy *)
(* for all CPUs: airoha_ppe_foe_get_entry_locked refreshes it, a commit    *)
(* writes it to SRAM, and between them neither a lock nor a reference      *)
(* keeps others away.  The multicast module is taken to make one call at a *)
(* time and to give up when the entry has been bound meanwhile; a step     *)
(* here is what runs under one lock, or without one up to the next.        *)
(***************************************************************************)
EXTENDS Integers, Sequences, FiniteSets

CONSTANTS
    Index,      \* FOE entries
    GswPort,    \* the ports of the switch, in the order of their bits
    Xsi,        \* the SerDes ports, in the order of their bits: ETH first
    Speed,      \* gsw_speed, by port of the switch
    Mask        \* the port masks the multicast module asks for

Gsw == {GswPort[n] : n \in DOMAIN GswPort}
Serdes == {Xsi[n] : n \in DOMAIN Xsi}
WLAN == "wlan"  \* bit 31
GIGABIT == 1000
Member == Gsw \cup Serdes \cup {WLAN}

ASSUME McAssumption ==
    /\ Index # {} /\ Mask \subseteq SUBSET Member
    /\ DOMAIN GswPort = 1 .. Len(GswPort) /\ DOMAIN Xsi = 1 .. Len(Xsi)
    /\ Len(GswPort) \in Nat /\ Len(Xsi) \in Nat
    /\ Gsw \cap Serdes = {} /\ WLAN \notin Gsw \cup Serdes
    /\ Speed \in [Gsw -> 0 .. GIGABIT]  \* the ports of the switch are gigabit ports

PPE_PKT_TYPE == {"IPV4_HNAPT", "IPV6_ROUTE_5T"}
NoFwd == [pse |-> "none", ports |-> {}, channel |-> 0, wifi |-> FALSE]
DropFwd == [NoFwd EXCEPT !.pse = "FE_PSE_PORT_DROP"]

VARIABLES
    foe,      \* the FOE entries in SRAM
    copy,     \* ppe->foe, the shared copies
    list,     \* the multicast module's entries: state and port_mask
    valid,    \* entries the get_valid hook or a flow in foe_flow vouches for
    mcall,    \* the multicast module's call
    dropping, \* the entries whose packet airoha_ppe_drop_packet_handler handles
    astray    \* history: by entry, what became of it since it was recorded
mcVars == <<foe, copy, list, valid, mcall, dropping, astray>>

(* How an entry goes astray: its copy was fetched again between its change *)
(* and its commit; it is not bound as recorded; list_update bound it while *)
(* it was not bound already, or had no layer 2.                            *)
Astray == {"taken", "parted", "blind"}

PSE_PORT == {"none", "fport", "FE_PSE_PORT_DROP", "FE_PSE_PORT_MCST", "FE_PSE_PORT_GDM1",
             "FE_PSE_PORT_CDM1"}
Fwd == [pse : PSE_PORT, ports : SUBSET (Gsw \cup Serdes), channel : 0 .. Len(GswPort),
        wifi : BOOLEAN]
McEntry == [state : {"INVALID", "UNBIND", "BIND"}, type : PPE_PKT_TYPE, l2 : BOOLEAN, fwd : Fwd]

McTypeOK ==
    /\ foe \in [Index -> McEntry] /\ copy \in [Index -> McEntry]
    /\ list \in [Index -> [state : {"UNBIND", "BINDED", "DROP"}, port_mask : SUBSET Member]]
    /\ valid \subseteq Index
    /\ mcall \in [pc : {"idle", "info", "fill", "commit"}, i : Index, mask : SUBSET Member]
    /\ dropping \subseteq Index
    /\ astray \in [Index -> SUBSET Astray]

McIdle == [pc |-> "idle", i |-> CHOOSE i \in Index : TRUE, mask |-> {}]

McInit ==
    /\ foe = [i \in Index |-> [state |-> "INVALID", type |-> "IPV4_HNAPT", l2 |-> FALSE, fwd |-> NoFwd]]
    /\ copy = foe
    /\ list = [i \in Index |-> [state |-> "UNBIND", port_mask |-> {}]]
    /\ valid = {}
    /\ mcall = McIdle
    /\ dropping = {}
    /\ astray = [i \in Index |-> {}]

-----------------------------------------------------------------------------
(* arht_multicast_get_channel_by_stag: the first gigabit port, or the last *)
(* of the fastest ones.                                                    *)
FastestChannel(ports) ==
    LET member == {n \in DOMAIN GswPort : GswPort[n] \in ports}
        fast == {n \in member : Speed[GswPort[n]] = GIGABIT}
        noSlower(n, m) == Speed[GswPort[m]] <= Speed[GswPort[n]]
    IN  IF fast # {} THEN CHOOSE n \in fast : \A m \in fast : n <= m
        ELSE CHOOSE n \in member :
                \A m \in member : noSlower(n, m) /\ (m > n => ~noSlower(m, n))

(* The handlers of the forward states.  Ports of the switch and SerDes go  *)
(* through the multicast port of the PSE.                                  *)
(* Bug: the copy for Wi-Fi is left out beside a SerDes port. *)
LanHsgmii1toN_NoWifi(gsw, xsi, wifi) ==
    [pse |-> "FE_PSE_PORT_MCST", ports |-> gsw \cup xsi, channel |-> 0, wifi |-> FALSE]

LanHsgmii1toN(gsw, xsi, wifi) ==
    [pse |-> "FE_PSE_PORT_MCST", ports |-> gsw \cup xsi, channel |-> 0, wifi |-> wifi]

(* With no port of the switch the entry leads to one SerDes, the last.     *)
XsiOnly(xsi, wifi) ==
    LET member == {n \in DOMAIN Xsi : Xsi[n] \in xsi}
        last == CHOOSE n \in member : \A m \in member : m <= n
    IN  [pse |-> "fport", ports |-> {Xsi[last]}, channel |-> 0, wifi |-> wifi]

LanOnly(gsw, wifi) ==
    [pse |-> "FE_PSE_PORT_GDM1", ports |-> gsw, channel |-> FastestChannel(gsw), wifi |-> wifi]

WlanOnly == [NoFwd EXCEPT !.pse = "FE_PSE_PORT_CDM1", !.wifi = TRUE]

(* arht_muliticast_get_forward_state and the table of the handlers. *)
Forward(mask) ==
    LET gsw == mask \cap Gsw
        xsi == mask \cap Serdes
        wifi == WLAN \in mask
    IN  CASE xsi # {} /\ gsw # {} -> LanHsgmii1toN(gsw, xsi, wifi)
          [] xsi # {} /\ gsw = {} -> XsiOnly(xsi, wifi)
          [] xsi = {} /\ gsw # {} -> LanOnly(gsw, wifi)
          [] xsi = {} /\ gsw = {} /\ wifi -> WlanOnly
          [] OTHER -> DropFwd

(* arht_set_multicast_hwnat_info: what it makes of an entry.  An entry is  *)
(* cleared before its state is looked at.                                  *)
(* Bug: the entry is cleared after its layer 2 has been filled in. *)
Informed_ClearLast(e) == [e EXCEPT !.l2 = FALSE, !.fwd = NoFwd]

Informed(e) == [e EXCEPT !.l2 = (e.state # "BIND"), !.fwd = NoFwd]

McAt(pc) == mcall.pc = pc

(* The copy of i holds changes that are not in SRAM yet. *)
Uncommitted(i) == mcall.i = i /\ mcall.pc \in {"fill", "commit"}
Goes(i, how) == astray' = [astray EXCEPT ![i] = @ \cup how]
CopyTaken(i) == IF Uncommitted(i) THEN {"taken"} ELSE {}

-----------------------------------------------------------------------------
(* The hardware learns and retires; other handlers refresh the copy.       *)
McLearn(i, type) ==
    /\ foe[i].state = "INVALID"
    /\ foe' = [foe EXCEPT ![i] = [state |-> "UNBIND", type |-> type, l2 |-> FALSE, fwd |-> NoFwd]]
    /\ UNCHANGED <<copy, list, valid, mcall, dropping, astray>>

McRetire(i) ==
    /\ foe[i].state # "INVALID"
    /\ foe' = [foe EXCEPT ![i].state = "INVALID"]
    /\ UNCHANGED <<copy, list, valid, mcall, dropping, astray>>

Refresh(i) ==
    /\ copy' = [copy EXCEPT ![i] = foe[i]]
    /\ Goes(i, CopyTaken(i))
    /\ UNCHANGED <<foe, list, valid, mcall, dropping>>

(* airoha_qdma_lan_tx: arht_ppe_multicast_set_valid. *)
SetValid(i) ==
    /\ i \notin valid
    /\ valid' = valid \cup {i}
    /\ UNCHANGED <<foe, copy, list, mcall, dropping, astray>>

-----------------------------------------------------------------------------
(* arht_ppe_multicast_handler, for a packet that reached the unbind rate,  *)
(* up to the unlock after which the hook is called with the copy.          *)
DataHandler(i) ==
    /\ McAt("idle") /\ foe[i].state # "INVALID"
    /\ \E mask \in Mask : mcall' = [pc |-> "info", i |-> i, mask |-> mask]
    /\ copy' = [copy EXCEPT ![i] = foe[i]]
    /\ astray' = [astray EXCEPT ![i] = IF foe[i].state = "UNBIND" THEN {} ELSE @]
    /\ UNCHANGED <<foe, list, valid, dropping>>

McRecord(mask) == [state |-> IF mask = {} THEN "DROP" ELSE "BINDED", port_mask |-> mask]

SetInfo ==
    LET i == mcall.i
    IN  /\ McAt("info")
        /\ copy' = [copy EXCEPT ![i] = Informed(@)]
        /\ IF copy[i].state = "BIND"
           THEN /\ mcall' = McIdle
                /\ UNCHANGED list
           ELSE /\ mcall' = [mcall EXCEPT !.pc = "fill"]
                /\ list' = [list EXCEPT ![i] = McRecord(mcall.mask)]
        /\ UNCHANGED <<foe, valid, dropping, astray>>

(* arht_multicast_hwnat_list_update: the record changes first.             *)
ListUpdate(i, mask) ==
    /\ McAt("idle")
    /\ list[i].state # "UNBIND" /\ list[i].port_mask # mask
    /\ list' = [list EXCEPT ![i] = McRecord(mask)]
    /\ copy' = [copy EXCEPT ![i] = foe[i]]
    /\ mcall' = [pc |-> "fill", i |-> i, mask |-> mask]
    /\ astray' = [astray EXCEPT ![i] =
                    IF foe[i].state = "BIND" /\ foe[i].l2 THEN {} ELSE {"blind"}]
    /\ UNCHANGED <<foe, valid, dropping>>

(* arht_multicast_hwnat_state_handler: an entry that is to drop is bound   *)
(* in any case, another one if arht_ppe_multicast_check_valid says so.     *)
StateHandler ==
    LET i == mcall.i
        fwd == Forward(mcall.mask)
    IN  /\ McAt("fill")
        /\ fwd = DropFwd \/ i \in valid
        /\ copy' = [copy EXCEPT ![i].state = "BIND", ![i].fwd = fwd]
        /\ mcall' = [mcall EXCEPT !.pc = "commit"]
        /\ UNCHANGED <<foe, list, valid, dropping, astray>>

NotValid ==
    /\ McAt("fill")
    /\ Forward(mcall.mask) # DropFwd /\ mcall.i \notin valid
    /\ mcall' = McIdle
    /\ Goes(mcall.i, {"parted"})
    /\ UNCHANGED <<foe, copy, list, valid, dropping>>

Commit ==
    /\ McAt("commit")
    /\ foe' = [foe EXCEPT ![mcall.i] = copy[mcall.i]]
    /\ mcall' = McIdle
    /\ UNCHANGED <<copy, list, valid, dropping, astray>>

(* arht_multicast_hwnat_clean, and the multicast module forgets the entry. *)
Clean(i) ==
    /\ McAt("idle") /\ list[i].state # "UNBIND"
    /\ foe' = [foe EXCEPT ![i].state = "INVALID"]
    /\ copy' = [copy EXCEPT ![i] = foe'[i]]
    /\ list' = [list EXCEPT ![i] = [state |-> "UNBIND", port_mask |-> {}]]
    /\ valid' = valid \ {i}
    /\ UNCHANGED <<mcall, dropping, astray>>

-----------------------------------------------------------------------------
(* airoha_ppe_drop_packet_handler in SFU mode: a packet of the entry was   *)
(* dropped.  The multicast module is told of it with the lock released,    *)
(* and then the entry is bound to drop, whatever it is by then.            *)
ListAdd(i) ==
    /\ foe[i].state # "INVALID" /\ i \notin dropping
    /\ dropping' = dropping \cup {i}
    /\ copy' = [copy EXCEPT ![i] = foe[i]]
    /\ list' = [list EXCEPT ![i] = IF @.state = "UNBIND" THEN McRecord({}) ELSE @]
    /\ Goes(i, CopyTaken(i))
    /\ UNCHANGED <<foe, valid, mcall>>

BindDrop(i) ==
    /\ i \in dropping
    /\ dropping' = dropping \ {i}
    /\ foe' = [foe EXCEPT ![i].state = "BIND", ![i].fwd = DropFwd]
    /\ copy' = [copy EXCEPT ![i] = foe'[i]]
    /\ Goes(i, CopyTaken(i) \cup IF list[i].port_mask # {} THEN {"parted"} ELSE {})
    /\ UNCHANGED <<list, valid, mcall>>

McNext ==
    \/ \E i \in Index :
        \/ \E type \in PPE_PKT_TYPE : McLearn(i, type)
        \/ McRetire(i)
        \/ Refresh(i)
        \/ SetValid(i)
        \/ DataHandler(i)
        \/ \E mask \in Mask : ListUpdate(i, mask)
        \/ Clean(i)
        \/ ListAdd(i)
        \/ BindDrop(i)
    \/ SetInfo
    \/ StateHandler
    \/ NotValid
    \/ Commit

McSpec == McInit /\ [][McNext]_mcVars

-----------------------------------------------------------------------------
(* The ports a packet of a bound entry goes to. *)
Reached(fwd) == fwd.ports \cup (IF fwd.wifi THEN {WLAN} ELSE {})

(* A mask the engine can serve: without a port of the switch, one SerDes.  *)
Servable(mask) == mask \cap Gsw = {} => Cardinality(mask \cap Serdes) <= 1

(* It leads to the members of the mask, and on the switch the channel is   *)
(* that of the fastest of them.                                            *)
Serves(fwd, mask) ==
    /\ Reached(fwd) = mask
    /\ fwd.pse = "FE_PSE_PORT_GDM1" =>
        /\ GswPort[fwd.channel] \in mask
        /\ \A p \in mask \cap Gsw : Speed[p] <= Speed[GswPort[fwd.channel]]

(* The members the multicast module has recorded for a bound entry are the *)
(* ports the entry leads to, as long as nobody took the copy of the entry  *)
(* away between its change and its commit and every record was of a valid  *)
(* one.                                                                    *)
MembersServed ==
    \A i \in Index :
        /\ astray[i] \subseteq {"blind"} /\ (mcall.i = i => McAt("idle"))
        /\ list[i].state # "UNBIND" /\ foe[i].state = "BIND" /\ Servable(list[i].port_mask)
        => Serves(foe[i].fwd, list[i].port_mask)

(* An entry that forwards has the group's MAC address to put on packets,   *)
(* unless another handler took its copy between the change and the commit, *)
(* or list_update bound it without a look at its state: one that aged and  *)
(* was learned again under its record, or was bound to drop, has no MAC    *)
(* and gets none.  arht_set_multicast_hwnat_info wipes the copy of an      *)
(* entry before it sees that the entry is bound already, and no later      *)
(* commit may write that.                                                  *)
NoBareEntry ==
    \A i \in Index :
        foe[i].state = "BIND" /\ foe[i].fwd # DropFwd =>
            foe[i].l2 \/ astray[i] \cap {"taken", "blind"} # {}
=============================================================================
