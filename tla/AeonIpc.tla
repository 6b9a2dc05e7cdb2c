------------------------------- MODULE AeonIpc -------------------------------
(***************************************************************************)
(* The mailbox between the driver and the firmware of the 10G PHYs         *)
(* (arht_hsgmii.c, "IPC Layer functions").  A command word carries a       *)
(* parity bit taken from the one counter ipc_cmd_num that all the PHYs     *)
(* share; the firmware reports the parity of the command it serviced in    *)
(* its status register, and aeon_ipc_wait_cmd_done polls that register     *)
(* until it shows the parity of the command just sent, an error, or a      *)
(* timeout.                                                                *)
(*                                                                         *)
(* The firmware is external: it takes the command register up when its     *)
(* parity differs from the status parity (arht_hsgmii.h:813) and answers   *)
(* after any delay.  The 2-second timeout is a number of polls.            *)
(***************************************************************************)
EXTENDS Integers

CONSTANTS
    Phy,        \* the PHYs behind the driver
    MaxPolls,   \* polls before the timeout expires
    FwMayFail,  \* whether a command may end in IPC_STS_CMD_ERROR
    FwPrompt    \* whether the firmware always answers before the timeout

ASSUME PhyAssumption == Phy # {}
ASSUME PollAssumption == MaxPolls \in Nat \ {0}
ASSUME FwAssumption == FwMayFail \in BOOLEAN /\ FwPrompt \in BOOLEAN

Parity == {0, 1}
Status == {"READY", "PROCESS", "SUCCESS", "ERROR"}
Pc == {"idle", "wait", "noop", "sync"}

VARIABLES
    cmdNum,     \* ipc_cmd_num, of which only the lowest bit is used
    pc, phy,    \* what the driver is doing, and with which PHY
    polls,      \* polls of the current wait
    ret,        \* how the last call ended
    cmdPar,     \* IPC_CMD register, by PHY: parity of the command in it
    stsPar, sts,\* IPC_STS register, by PHY
    busyPar,    \* firmware: parity of the command in service, or Idle
    cmdMine, busyMine, stsMine, \* history: the word belongs to the current call
    clean       \* history: the PHY was in step when the current command was sent
driver == <<cmdNum, pc, phy, polls, ret>>
mailbox == <<cmdPar, stsPar, sts, busyPar>>
history == <<cmdMine, busyMine, stsMine, clean>>
vars == <<driver, mailbox, history>>

Idle == 2
NoReturn == [call |-> "idle", status |-> "READY", timedOut |-> FALSE, own |-> FALSE, clean |-> FALSE]

TypeOK ==
    /\ cmdNum \in Parity
    /\ pc \in Pc /\ phy \in Phy /\ polls \in 0 .. MaxPolls
    /\ ret \in [call : Pc, status : Status, timedOut : BOOLEAN, own : BOOLEAN, clean : BOOLEAN]
    /\ cmdPar \in [Phy -> Parity] /\ stsPar \in [Phy -> Parity]
    /\ sts \in [Phy -> Status]
    /\ busyPar \in [Phy -> Parity \cup {Idle}]
    /\ cmdMine \in [Phy -> BOOLEAN] /\ busyMine \in [Phy -> BOOLEAN]
    /\ stsMine \in [Phy -> BOOLEAN] /\ clean \in BOOLEAN

(* A firmware boots ready, with either parity and nothing to take up. *)
Init ==
    /\ cmdNum = 0
    /\ pc = "idle" /\ phy \in Phy /\ polls = 0
    /\ ret = NoReturn
    /\ stsPar \in [Phy -> Parity] /\ cmdPar = stsPar
    /\ sts = [p \in Phy |-> "READY"]
    /\ busyPar = [p \in Phy |-> Idle]
    /\ cmdMine = [p \in Phy |-> FALSE]
    /\ busyMine = cmdMine /\ stsMine = cmdMine
    /\ clean = FALSE

-----------------------------------------------------------------------------
(* get_par, before the counter moves: the parity of the next command. *)
SentPar == cmdNum

(* The firmware of p has nothing in service and nothing to take up. *)
Settled(p) == busyPar[p] = Idle /\ cmdPar[p] = stsPar[p]

(* The next command will be seen as new, and only its answer will match. *)
InStep(p) == Settled(p) /\ stsPar[p] # SentPar

(* aeon_ipc_build_cmd and aeon_send_ipc_cmd *)
SendCmd ==
    /\ cmdPar' = [cmdPar EXCEPT ![phy] = SentPar]
    /\ cmdNum' = 1 - cmdNum
    /\ cmdMine' = [p \in Phy |-> p = phy]
    /\ busyMine' = [p \in Phy |-> FALSE]
    /\ stsMine' = [p \in Phy |-> FALSE]
    /\ clean' = InStep(phy)
    /\ UNCHANGED <<stsPar, sts, busyPar, phy>>

(* aeon_match_device, or a call that names another PHY *)
ChooseDevice(p) ==
    /\ pc = "idle" /\ p # phy
    /\ phy' = p
    /\ UNCHANGED <<cmdNum, pc, polls, ret, mailbox, history>>

(* A command: aeon_ipc_cfg_param_direct, aeon_ipc_get_fw_version, ... up   *)
(* to the wait.                                                            *)
Command ==
    /\ pc = "idle"
    /\ SendCmd
    /\ pc' = "wait" /\ polls' = 0 /\ UNCHANGED ret

(* aeon_ipc_sync_parity sends a NOOP, lets it settle for noop_to, and      *)
(* sends the one it waits for.  The delay is meant to be long enough for   *)
(* the firmware to be done with the first, and the model takes it to be.   *)
SyncFirst ==
    /\ pc = "idle"
    /\ SendCmd
    /\ pc' = "noop" /\ polls' = 0 /\ UNCHANGED ret

SyncSecond ==
    /\ pc = "noop" /\ Settled(phy)
    /\ SendCmd
    /\ pc' = "sync" /\ UNCHANGED <<polls, ret>>

-----------------------------------------------------------------------------
(* What a poll of the chosen PHY reads. *)
(* Bug: the comparison is the other way round. *)
ParMatches_Swapped == SentPar = stsPar[phy]

ParMatches == SentPar # stsPar[phy]

(* Bug: the parity is not looked at. *)
CallDone_AnyParity == sts[phy] \in {"ERROR", "SUCCESS"}

CallDone == sts[phy] = "ERROR" \/ (ParMatches /\ sts[phy] = "SUCCESS")

(* Bug: the timeout is not tested. *)
LastPoll_Never == FALSE

LastPoll == polls + 1 >= MaxPolls

Return(timedOut) ==
    /\ pc' = "idle" /\ polls' = 0
    /\ ret' = [call |-> pc, status |-> sts[phy], timedOut |-> timedOut,
               own |-> stsMine[phy], clean |-> clean]
    /\ UNCHANGED <<cmdNum, phy, mailbox, history>>

(* Bug: the elapsed time stays 0. *)
PollAgain_NoTime ==
    UNCHANGED <<cmdNum, pc, phy, polls, ret, mailbox, history>>

PollAgain ==
    /\ polls' = polls + 1
    /\ UNCHANGED <<cmdNum, pc, phy, ret, mailbox, history>>

(* One round of aeon_ipc_wait_cmd_done: an error ends it whatever its      *)
(* parity, and a timeout returns the status just read.                     *)
PollCommand ==
    /\ pc = "wait"
    /\ IF CallDone THEN Return(FALSE)
       ELSE IF LastPoll THEN (FwPrompt => Settled(phy)) /\ Return(TRUE)
       ELSE PollAgain

(* One round of aeon_ipc_sync_parity: only the parity counts. *)
PollSync ==
    /\ pc = "sync"
    /\ IF ParMatches THEN Return(FALSE)
       ELSE IF LastPoll THEN (FwPrompt => Settled(phy)) /\ Return(TRUE)
       ELSE PollAgain

-----------------------------------------------------------------------------
(* The firmware of p. *)
FwAccept(p) ==
    /\ busyPar[p] = Idle /\ cmdPar[p] # stsPar[p]
    /\ busyPar' = [busyPar EXCEPT ![p] = cmdPar[p]]
    /\ busyMine' = [busyMine EXCEPT ![p] = cmdMine[p]]
    /\ sts' = [sts EXCEPT ![p] = "PROCESS"]
    /\ UNCHANGED <<driver, cmdPar, stsPar, cmdMine, stsMine, clean>>

FwComplete(p) ==
    /\ busyPar[p] # Idle
    /\ \E s \in IF FwMayFail THEN {"SUCCESS", "ERROR"} ELSE {"SUCCESS"} :
         sts' = [sts EXCEPT ![p] = s]
    /\ stsPar' = [stsPar EXCEPT ![p] = busyPar[p]]
    /\ stsMine' = [stsMine EXCEPT ![p] = busyMine[p]]
    /\ busyPar' = [busyPar EXCEPT ![p] = Idle]
    /\ UNCHANGED <<driver, cmdPar, cmdMine, busyMine, clean>>

DriverStep == Command \/ SyncFirst \/ SyncSecond \/ PollCommand \/ PollSync
FwStep(p) == FwAccept(p) \/ FwComplete(p)

Next ==
    \/ \E p \in Phy : ChooseDevice(p)
    \/ DriverStep
    \/ \E p \in Phy : FwStep(p)

(* A call in progress runs on, and so does a firmware with work to do. *)
Fairness ==
    /\ WF_vars(SyncSecond) /\ WF_vars(PollCommand) /\ WF_vars(PollSync)
    /\ \A p \in Phy : WF_vars(FwStep(p))

Spec == Init /\ [][Next]_vars /\ Fairness

-----------------------------------------------------------------------------
Succeeded == ret.call = "wait" /\ ret.status = "SUCCESS"

(* A command sent in step, whose wait did not time out, gets its own       *)
(* answer: a success left in the status register by an earlier command is  *)
(* never taken for it, whatever the other PHYs did to the counter before.  *)
OwnSuccess ==
    Succeeded /\ ret.clean /\ ~ret.timedOut => ret.own

(* Whatever was lost, ignored or left half done before, and wherever the   *)
(* shared counter stood, a parity sync that reports success leaves its PHY *)
(* in step for the next command.                                           *)
SyncEndsInStep == pc = "sync" /\ pc' = "idle" /\ ~ret'.timedOut => InStep(phy)
SyncRestoresStep == [][SyncEndsInStep]_vars

(* Every call ends, by an answer or by the timeout. *)
CallReturns == pc # "idle" ~> pc = "idle"

-----------------------------------------------------------------------------
(* arht_hsgmii.h:813, "The MSB of the status bit is used as a parity bit,  *)
(* toggling each time an IPC command is serviced": a success the wait      *)
(* returns is that of a command the firmware serviced for this call.       *)
SuccessMeansServiced == Succeeded => ret.own
=============================================================================
