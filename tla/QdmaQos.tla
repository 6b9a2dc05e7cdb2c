------------------------------- MODULE QdmaQos ------------------------------
(***************************************************************************)
(* The transmit scheduler of the QDMAs (arht_qdma.c): the bits that close  *)
(* queues, the round-robin weights and the scheduler mode of a channel,    *)
(* as qdma_set_tx_qos_upstream and qdma_get_tx_qos_upstream handle them.   *)
(*                                                                         *)
(* Nothing takes a lock.  A caller moves memory access by memory access:   *)
(* the close register can only be written, so the driver keeps a copy, one *)
(* array for all QDMAs; the weights go through one command register per    *)
(* QDMA, whose acknowledge may fail to come.                               *)
(***************************************************************************)
EXTENDS Integers, FiniteSets

CONSTANTS
    Base,       \* the QDMAs
    Channel,    \* channels that share one close register and one mode register
    QUEUES,     \* queues of a channel, 8 in the hardware
    Weight,     \* weights a caller may ask for, 0 among them
    Caller,
    Request     \* by caller, the structs it may fill in

Queue == 0 .. QUEUES - 1

(* Scheduler types by the number of queues in the round robin: all of them *)
(* (WRR), none (SP), or the first n (SPWRRn).                              *)
QosType == 0 .. QUEUES
WEIGHT_RANGE == 256

Struct == [base : Base, channel : Channel, type : QosType, weight : [Queue -> Weight]]

(* A weight is an unsigned short; the hardware keeps what fits its field.  *)
ASSUME QosAssumption ==
    /\ Base # {} /\ Channel # {} /\ QUEUES \in Nat \ {0}
    /\ Weight \subseteq Nat /\ {0, 1} \subseteq Weight
    /\ \A w \in Weight : w % WEIGHT_RANGE \in Weight
    /\ Request \in [Caller -> SUBSET Struct]

NoSnap == [closed |-> {}, wrr |-> {}, mode |-> -1]

VARIABLES
    shadow,    \* TXQ_DIS_CFG_VALUE: the queues recorded as closed, as <<channel, queue>>
    closed,    \* by QDMA, the queues its register closes
    wrr,       \* by QDMA, channel and queue, the weight in the hardware
    wrrReg,    \* by QDMA, what the weight command register shows
    mode,      \* by QDMA and channel, the scheduler type
    qcall,     \* by caller, its call: operation, struct, position and local variables
    qoverlap,  \* history: a call began while another was in progress
    qresult,   \* history: by caller, its last call and how it ended
    snap       \* history: the channel as it was when the struct was read from it,
               \* if the copy told its closed queues then
qhw == <<closed, wrr, wrrReg, mode>>
qosVars == <<shadow, qhw, qcall, qoverlap, qresult, snap>>

(* What is in a local variable before it is used and once it is dead. *)
NoStruct == [base |-> CHOOSE b \in Base : TRUE, channel |-> CHOOSE c \in Channel : TRUE,
             type |-> QUEUES, weight |-> [q \in Queue |-> 0]]
NoModes == [c \in Channel |-> QUEUES]
Pc == {"idle", "read", "record", "write", "weight", "rdMode", "wrMode",
       "getMode", "ask", "answer"}

Cqs == SUBSET (Channel \X Queue)
CallRecord == [pc : Pc, q : Queue, read : Cqs, modes : [Channel -> QosType],
               struct : Struct, asked : Struct]
HwWeight == {w % WEIGHT_RANGE : w \in Weight}
SnapRecord == [closed : SUBSET Queue, wrr : SUBSET (Queue \X HwWeight), mode : QosType \cup {-1}]

QosTypeOK ==
    /\ shadow \in Cqs
    /\ closed \in [Base -> Cqs]
    /\ wrr \in [Base -> [Channel \X Queue -> HwWeight]]
    /\ wrrReg \in [Base -> HwWeight]
    /\ mode \in [Base -> [Channel -> QosType]]
    /\ qcall \in [Caller -> CallRecord]
    /\ qoverlap \in BOOLEAN
    /\ qresult \in [Caller -> {"none", "set", "get", "ETIME"}]
    /\ snap \in [Caller -> SnapRecord]

QosInit ==
    /\ shadow = {}
    /\ closed = [b \in Base |-> {}]
    /\ wrr = [b \in Base |-> [cq \in Channel \X Queue |-> 1]]
    /\ wrrReg = [b \in Base |-> 0]
    /\ mode = [b \in Base |-> [c \in Channel |-> QUEUES]]
    /\ qcall = [p \in Caller |-> [pc |-> "idle", q |-> 0, read |-> {}, modes |-> NoModes,
                                  struct |-> NoStruct, asked |-> NoStruct]]
    /\ qoverlap = FALSE
    /\ qresult = [p \in Caller |-> "none"]
    /\ snap = [p \in Caller |-> NoSnap]

-----------------------------------------------------------------------------
At(p, pc) == qcall[p].pc = pc
Goto(p, pc) == qcall' = [qcall EXCEPT ![p].pc = pc]

(* The queue of caller p's struct that it has come to. *)
Here(p) == <<qcall[p].struct.channel, qcall[p].q>>
IsLast(p) == qcall[p].q = QUEUES - 1

(* A channel as the hardware has it. *)
Channels(b, c) ==
    [closed |-> {q \in Queue : <<c, q>> \in closed[b]},
     wrr |-> {<<q, wrr[b][<<c, q>>]>> : q \in Queue},
     mode |-> mode[b][c]]

(* What the copy has of a channel is what the register of this QDMA has:   *)
(* the copy is of the register that was written last, and one set for the  *)
(* other QDMA is enough to part them.                                      *)
AsRecorded(b, c) == \A q \in Queue : <<c, q>> \in shadow <=> <<c, q>> \in closed[b]

Begin(p, pc, struct) ==
    /\ At(p, "idle")
    /\ qcall' = [r \in Caller |->
                   IF r = p THEN [qcall[p] EXCEPT !.pc = pc, !.struct = struct, !.asked = struct]
                   ELSE IF At(r, "idle") THEN [qcall[r] EXCEPT !.asked = NoStruct]
                   ELSE qcall[r]]
    /\ qoverlap' = (qoverlap \/ \E r \in Caller \ {p} : ~At(r, "idle"))
    /\ qresult' = [r \in Caller |-> "none"]
    /\ UNCHANGED <<shadow, qhw>>

(* qdma_api_set_tx_qos_upstream, with a struct the caller has filled in or *)
(* with the one it has kept, as the last call left it.                     *)
CallSet(p) ==
    /\ \E struct \in Request[p] : Begin(p, "read", struct)
    /\ snap' = [r \in Caller |-> NoSnap]

CallSetAgain(p) ==
    /\ Begin(p, "read", qcall[p].struct)
    /\ snap' = [r \in Caller |-> IF r = p /\ qresult[p] = "get" THEN snap[p] ELSE NoSnap]

(* The queue is closed when it is in the round robin with weight 0. *)
(* Bug: the last queue of the round robin is taken for strict priority. *)
Closes_OneShort(struct, q) == q < struct.type - 1 /\ struct.weight[q] = 0

Closes(struct, q) == q < struct.type /\ struct.weight[q] = 0

(* qdmaSetQueueClose_sw and qdmaSetQueueOpen_sw: read the copy, change it, *)
(* write it to the register.                                               *)
ReadShadow(p) ==
    /\ At(p, "read")
    /\ qcall' = [qcall EXCEPT ![p].read = shadow, ![p].pc = "record"]
    /\ UNCHANGED <<shadow, qhw, qoverlap, qresult, snap>>

(* Bug: the copy is rebuilt for the channel and loses the others. *)
Recorded_OwnChannel(p) ==
    LET own == {cq \in qcall[p].read : cq[1] = Here(p)[1]}
    IN  IF Closes(qcall[p].struct, qcall[p].q) THEN own \cup {Here(p)} ELSE own \ {Here(p)}

Recorded(p) ==
    IF Closes(qcall[p].struct, qcall[p].q) THEN qcall[p].read \cup {Here(p)}
    ELSE qcall[p].read \ {Here(p)}

RecordShadow(p) ==
    /\ At(p, "record")
    /\ shadow' = Recorded(p)
    /\ qcall' = [qcall EXCEPT ![p].read = Recorded(p), ![p].pc = "write"]
    /\ UNCHANGED <<qhw, qoverlap, qresult, snap>>

(* The source reads the copy a second time for the register.  The copy is  *)
(* a plain variable, so a build may as well write what it has just stored. *)
RegisterValue(p) == {qcall[p].read, shadow}

(* After the last queue a weight 0 becomes 1 in the caller's own struct. *)
WriteClose(p) ==
    /\ At(p, "write")
    /\ \E value \in RegisterValue(p) :
        closed' = [closed EXCEPT ![qcall[p].struct.base] = value]
    /\ qcall' = LET left == [qcall EXCEPT ![p].read = {}]
                IN  IF IsLast(p)
                    THEN [left EXCEPT ![p].pc = "weight", ![p].q = 0,
                                      ![p].struct.weight =
                                          [q \in Queue |-> IF @[q] = 0 THEN 1 ELSE @[q]]]
                    ELSE [left EXCEPT ![p].pc = "read", ![p].q = @ + 1]
    /\ UNCHANGED <<shadow, wrr, wrrReg, mode, qoverlap, qresult, snap>>

Finish(p, how) ==
    /\ qcall' = [qcall EXCEPT ![p].pc = "idle", ![p].q = 0, ![p].modes = NoModes,
                              ![p].asked = IF how = "set" THEN @ ELSE NoStruct]
    /\ qresult' = [qresult EXCEPT ![p] = how]

(* qdmaSetTxQosSchedulerUpstream: a weight is written and acknowledged, or *)
(* the third look at the register still shows no acknowledge.              *)
PutWeight(p) ==
    LET b == qcall[p].struct.base
        w == qcall[p].struct.weight[qcall[p].q] % WEIGHT_RANGE
    IN  /\ wrr' = [wrr EXCEPT ![b][Here(p)] = w]
        /\ wrrReg' = [wrrReg EXCEPT ![b] = w]

SetWeight(p) ==
    /\ At(p, "weight")
    /\ PutWeight(p)
    /\ qcall' = IF IsLast(p) THEN [qcall EXCEPT ![p].pc = "rdMode", ![p].q = 0]
                ELSE [qcall EXCEPT ![p].q = @ + 1]
    /\ UNCHANGED <<shadow, closed, mode, qoverlap, qresult, snap>>

NoAnswer(p) == Finish(p, "ETIME")

(* The command is in its register before the wait for the acknowledge: the *)
(* weight of a call that gives up may be in the hardware or not.           *)
SetTimeout(p) ==
    /\ At(p, "weight")
    /\ PutWeight(p) \/ UNCHANGED <<wrr, wrrReg>>
    /\ NoAnswer(p)
    /\ UNCHANGED <<shadow, closed, mode, qoverlap, snap>>

(* qdmaSetPerChnlQosMode: a read and a write of a register that holds the  *)
(* modes of eight channels.                                                *)
ReadMode(p) ==
    /\ At(p, "rdMode")
    /\ qcall' = [qcall EXCEPT ![p].modes = mode[qcall[p].struct.base], ![p].pc = "wrMode"]
    /\ UNCHANGED <<shadow, qhw, qoverlap, qresult, snap>>

WriteMode(p) ==
    /\ At(p, "wrMode")
    /\ LET s == qcall[p].struct
       IN  mode' = [mode EXCEPT ![s.base] =
                       [qcall[p].modes EXCEPT ![s.channel] = s.type]]
    /\ Finish(p, "set")
    /\ UNCHANGED <<shadow, closed, wrr, wrrReg, qoverlap, snap>>

-----------------------------------------------------------------------------
(* qdma_api_get_tx_qos_upstream: the mode, then weight after weight by a   *)
(* command and a read of its answer, and last the copy of the close bits.  *)
(* The struct stands for the local variables meanwhile, and is what it was *)
(* when an answer does not come.                                           *)
CallGet(p) ==
    /\ \E b \in Base, c \in Channel :
        Begin(p, "getMode", [qcall[p].struct EXCEPT !.base = b, !.channel = c])
    /\ snap' = [snap EXCEPT ![p] = NoSnap]

GetMode(p) ==
    /\ At(p, "getMode")
    /\ LET s == qcall[p].struct
       IN  qcall' = [qcall EXCEPT ![p].struct.type = mode[s.base][s.channel], ![p].pc = "ask"]
    /\ UNCHANGED <<shadow, qhw, qoverlap, qresult, snap>>

ShowWeight(p) ==
    LET b == qcall[p].struct.base
    IN  wrrReg' = [wrrReg EXCEPT ![b] = wrr[b][Here(p)]]

Ask(p) ==
    /\ At(p, "ask")
    /\ ShowWeight(p)
    /\ Goto(p, "answer")
    /\ UNCHANGED <<shadow, closed, wrr, mode, qoverlap, qresult, snap>>

AskTimeout(p) ==
    /\ At(p, "ask")
    /\ qcall' = [qcall EXCEPT ![p].pc = "idle", ![p].q = 0, ![p].asked = NoStruct,
                              ![p].struct = qcall[p].asked]
    /\ qresult' = [qresult EXCEPT ![p] = "ETIME"]
    /\ ShowWeight(p) \/ UNCHANGED wrrReg
    /\ UNCHANGED <<shadow, closed, wrr, mode, qoverlap, snap>>

(* Bug: the copy is not consulted, and a closed queue reads as weight 1. *)
Told_Raw(p, weight) == weight

Told(p, weight) ==
    [q \in Queue |-> IF weight[q] = 1 /\ <<qcall[p].struct.channel, q>> \in shadow
                     THEN 0 ELSE weight[q]]

Answer(p) ==
    /\ At(p, "answer")
    /\ LET s == qcall[p].struct
           weight == [s.weight EXCEPT ![qcall[p].q] = wrrReg[s.base]]
       IN  IF IsLast(p)
           THEN /\ qcall' = [qcall EXCEPT ![p].pc = "idle", ![p].q = 0,
                                          ![p].asked = NoStruct,
                                          ![p].struct.weight = Told(p, weight)]
                /\ qresult' = [qresult EXCEPT ![p] = "get"]
                /\ snap' = [snap EXCEPT ![p] = IF AsRecorded(s.base, s.channel)
                                                THEN Channels(s.base, s.channel)
                                                ELSE NoSnap]
           ELSE /\ qcall' = [qcall EXCEPT ![p].pc = "ask", ![p].q = @ + 1,
                                          ![p].struct.weight = weight]
                /\ UNCHANGED <<qresult, snap>>
    /\ UNCHANGED <<shadow, qhw, qoverlap>>

QosStep(p) ==
    \/ CallSet(p)
    \/ CallSetAgain(p)
    \/ ReadShadow(p)
    \/ RecordShadow(p)
    \/ WriteClose(p)
    \/ SetWeight(p)
    \/ SetTimeout(p)
    \/ ReadMode(p)
    \/ WriteMode(p)
    \/ CallGet(p)
    \/ GetMode(p)
    \/ Ask(p)
    \/ AskTimeout(p)
    \/ Answer(p)

QosNext == \E p \in Caller : QosStep(p)

QosSpec == QosInit /\ [][QosNext]_qosVars

-----------------------------------------------------------------------------
(* A call that met no other and returned 0 has done all it was asked for:  *)
(* the queues of the channel are closed exactly where the round robin has  *)
(* weight 0, every weight is in the hardware, as 1 where the queue is      *)
(* closed and as far as it fits the field, and so is the mode.             *)
QosTakesHold ==
    \A p \in Caller : qresult[p] = "set" /\ ~qoverlap =>
        LET s == qcall[p].asked
            hw == Channels(s.base, s.channel)
        IN  /\ hw.mode = s.type
            /\ hw.closed = {q \in Queue : q < s.type /\ s.weight[q] = 0}
            /\ \A q \in Queue :
                wrr[s.base][<<s.channel, q>>] =
                    IF s.weight[q] = 0 THEN 1 ELSE s.weight[q] % WEIGHT_RANGE

(* A channel as a set that went through leaves it: one that timed out may  *)
(* leave a queue closed that its mode or its weight does not explain, and  *)
(* a weight of 256 is a weight 0 that closes nothing.                      *)
Whole(ch) ==
    /\ \A q \in ch.closed : q < ch.mode /\ <<q, 1>> \in ch.wrr
    /\ \A q \in Queue : <<q, 0>> \notin ch.wrr

(* Giving a channel what was read from it changes nothing, closed queues   *)
(* included: the weight 0 a get reports for them closes them again.  Doing *)
(* it twice without another get does not qualify: the first set has turned *)
(* the weights 0 of the struct into 1.                                     *)
GetThenSetIsNoOp ==
    \A p \in Caller : qresult[p] = "set" /\ ~qoverlap /\ snap[p] # NoSnap /\ Whole(snap[p]) =>
        Channels(qcall[p].asked.base, qcall[p].asked.channel) = snap[p]

(* A call closes, opens or reweights queues of its own channel only, until *)
(* calls have met, and so does it in the copy.  The queues the register    *)
(* closes in another channel of the same QDMA become those of the copy,    *)
(* which is one for all QDMAs.                                             *)
CopyOf(c) == {q \in Queue : <<c, q>> \in shadow}
KeepsOtherChannels ==
    ~qoverlap' =>
        \A p \in Caller, b \in Base, c \in Channel :
            LET s == qcall[p].struct
            IN  ~At(p, "idle") =>
                /\ c # s.channel => CopyOf(c)' = CopyOf(c)
                /\ b # s.base \/ (c # s.channel /\ AsRecorded(b, c)) =>
                     Channels(b, c)' = Channels(b, c)
OtherChannelsKept == [][KeepsOtherChannels]_qosVars
=============================================================================
