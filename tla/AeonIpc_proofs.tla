--------------------------- MODULE AeonIpc_proofs ---------------------------
(***************************************************************************)
(* Theorems about the PHY mailbox, for any number of PHYs, any number of   *)
(* polls before the timeout and any firmware: what the end of a wait and   *)
(* of a parity sync say of the firmware's answer.                          *)
(***************************************************************************)
EXTENDS AeonIpc, TLAPS

(* Every step keeps the variables in their types. *)
LEMMA AeonTypeStep ==
    ASSUME TypeOK, [Next]_vars
    PROVE  TypeOK'
<1> USE DEF TypeOK
<1>1. ASSUME NEW p \in Phy, ChooseDevice(p)
      PROVE  TypeOK'
  BY <1>1 DEF ChooseDevice, mailbox, history
<1>2. ASSUME SendCmd, pc' \in Pc, polls' \in 0 .. MaxPolls, UNCHANGED ret
      PROVE  TypeOK'
  <2>1. cmdNum' \in Parity /\ SentPar \in Parity
    BY <1>2 DEF SendCmd, Parity, SentPar
  <2>2. clean' \in BOOLEAN
    BY <1>2 DEF SendCmd, InStep, Settled
  <2> QED
    BY <1>2, <2>1, <2>2 DEF SendCmd
<1>3. 0 \in 0 .. MaxPolls /\ {"wait", "noop", "sync", "idle"} \subseteq Pc
  BY PollAssumption DEF Pc
<1>4. ASSUME Command \/ SyncFirst \/ SyncSecond
      PROVE  TypeOK'
  BY <1>2, <1>3, <1>4 DEF Command, SyncFirst, SyncSecond
<1>5. ASSUME NEW timedOut \in BOOLEAN, Return(timedOut)
      PROVE  TypeOK'
  BY <1>3, <1>5 DEF Return, mailbox, history
<1>6. ASSUME PollAgain, ~LastPoll
      PROVE  TypeOK'
  BY <1>6, PollAssumption DEF PollAgain, LastPoll, mailbox, history
<1>7. ASSUME PollCommand \/ PollSync
      PROVE  TypeOK'
  BY <1>5, <1>6, <1>7 DEF PollCommand, PollSync
<1>8. ASSUME NEW p \in Phy, FwStep(p)
      PROVE  TypeOK'
  BY <1>8, FwAssumption DEF FwStep, FwAccept, FwComplete, driver, Status, Parity, Idle
<1>9. CASE UNCHANGED vars
  BY <1>9 DEF vars, driver, mailbox, history
<1> QED
  BY <1>1, <1>4, <1>7, <1>8, <1>9 DEF Next, DriverStep

(* The driver and the firmware keep the types of the mailbox, whatever is  *)
(* lost on the way.                                                        *)
THEOREM AeonTypeCorrect == Spec => []TypeOK
<1>1. ASSUME Init
      PROVE  TypeOK
  <2>1. NoReturn \in [call : Pc, status : Status, timedOut : BOOLEAN, own : BOOLEAN, clean : BOOLEAN]
    BY DEF NoReturn, Pc, Status
  <2>2. polls \in 0 .. MaxPolls /\ cmdNum \in Parity /\ pc \in Pc /\ phy \in Phy
    BY <1>1, PollAssumption DEF Init, Pc, Parity
  <2>3. sts \in [Phy -> Status] /\ busyPar \in [Phy -> Parity \cup {Idle}]
    BY <1>1 DEF Init, Status
  <2>4. /\ cmdMine \in [Phy -> BOOLEAN] /\ busyMine \in [Phy -> BOOLEAN]
        /\ stsMine \in [Phy -> BOOLEAN] /\ clean \in BOOLEAN
    BY <1>1 DEF Init
  <2>5. cmdPar \in [Phy -> Parity] /\ stsPar \in [Phy -> Parity] /\ ret = NoReturn
    BY <1>1 DEF Init
  <2> QED
    BY <2>1, <2>2, <2>3, <2>4, <2>5 DEF TypeOK
<1> QED
  BY <1>1, AeonTypeStep, PTL DEF Spec

-----------------------------------------------------------------------------
(* The firmware of the chosen PHY has not taken the last command up, is at *)
(* it, or has answered it.                                                 *)
NotTaken == busyPar[phy] = Idle /\ stsPar[phy] = cmdNum
InService == busyPar[phy] = cmdPar[phy] /\ stsPar[phy] = cmdNum
Answered == busyPar[phy] = Idle /\ stsPar[phy] = cmdPar[phy]

(* A wait begun in step, and the second half of a sync, whatever the state *)
(* of the PHY was before it, end up in one of these.                       *)
AeonInv ==
    /\ pc = "wait" /\ clean =>
        /\ cmdPar[phy] = 1 - cmdNum /\ cmdMine[phy]
        /\ NotTaken \/ (InService /\ busyMine[phy]) \/ (Answered /\ stsMine[phy])
    /\ pc = "sync" =>
        /\ cmdPar[phy] = 1 - cmdNum
        /\ NotTaken \/ InService \/ Answered
    /\ OwnSuccess

(* Sending in step, waiting and the firmware's steps keep AeonInv; a wait  *)
(* that sees the parity it expects sees the answer to its command.         *)
LEMMA AeonInvStep ==
    ASSUME TypeOK, AeonInv, [Next]_vars
    PROVE  AeonInv'
<1> USE DEF TypeOK, AeonInv, NotTaken, InService, Answered, OwnSuccess, Succeeded, Parity, Idle
<1>1. ASSUME NEW p \in Phy, ChooseDevice(p)
      PROVE  AeonInv'
  BY <1>1 DEF ChooseDevice, mailbox, history
<1>2. CASE Command
  <2>1. /\ cmdNum' = 1 - cmdNum /\ cmdPar'[phy] = cmdNum /\ cmdMine'[phy]
        /\ UNCHANGED <<stsPar, busyPar, phy, ret>> /\ pc' = "wait"
    BY <1>2 DEF Command, SendCmd, SentPar
  <2>2. clean' => busyPar[phy] = Idle /\ stsPar[phy] # cmdNum
    BY <1>2 DEF Command, SendCmd, InStep, Settled, SentPar
  <2>3. clean' => NotTaken'
    BY <2>1, <2>2
  <2> QED
    BY <2>1, <2>3
<1>3. CASE SyncFirst
  BY <1>3 DEF SyncFirst, SendCmd
<1>4. CASE SyncSecond
  BY <1>4 DEF SyncSecond, SendCmd, Settled, SentPar
<1>5. CASE PollCommand
  BY <1>5 DEF PollCommand, Return, PollAgain, CallDone, ParMatches, SentPar, mailbox, history
<1>6. CASE PollSync
  BY <1>6 DEF PollSync, Return, PollAgain, mailbox, history
<1>7. ASSUME NEW p \in Phy, FwAccept(p)
      PROVE  AeonInv'
  BY <1>7 DEF FwAccept, driver
<1>8. ASSUME NEW p \in Phy, FwComplete(p)
      PROVE  AeonInv'
  BY <1>8 DEF FwComplete, driver
<1>9. CASE UNCHANGED vars
  BY <1>9 DEF vars, driver, mailbox, history
<1> QED
  BY <1>1, <1>2, <1>3, <1>4, <1>5, <1>6, <1>7, <1>8, <1>9 DEF Next, DriverStep, FwStep

LEMMA AeonInvInit == Init => AeonInv
BY DEF Init, AeonInv, OwnSuccess, Succeeded, NoReturn

(* aeon_ipc_wait_cmd_done: a command sent in step that did not time out    *)
(* and reports success was answered by the firmware itself.                *)
THEOREM OwnSuccessHolds == Spec => []OwnSuccess
<1>1. AeonInv => OwnSuccess
  BY DEF AeonInv
<1> QED
  BY <1>1, AeonTypeCorrect, AeonInvInit, AeonInvStep, PTL DEF Spec

(* aeon_ipc_sync_parity: a sync that does not time out leaves its PHY with *)
(* nothing in service and the parity the next command needs.               *)
THEOREM SyncRestoresStepHolds == Spec => SyncRestoresStep
<1>1. ASSUME TypeOK, AeonInv, [Next]_vars
      PROVE  [SyncEndsInStep]_vars
  <2> SUFFICES ASSUME pc = "sync", pc' = "idle", ~ret'.timedOut
               PROVE  InStep(phy)
    BY DEF SyncEndsInStep
  <2>1. PollSync
    BY <1>1 DEF Next, vars, driver, mailbox, history, ChooseDevice, DriverStep, Command, SyncFirst,
                SyncSecond, PollCommand, FwStep, FwAccept, FwComplete
  <2>2. ParMatches
    BY <2>1 DEF PollSync, Return, PollAgain
  <2> QED
    BY <1>1, <2>2 DEF AeonInv, TypeOK, NotTaken, InService, Answered, InStep, Settled, ParMatches,
                      SentPar, Parity
<1> QED
  BY <1>1, AeonTypeCorrect, AeonInvInit, AeonInvStep, PTL DEF Spec, SyncRestoresStep
=============================================================================
