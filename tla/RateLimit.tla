------------------------------ MODULE RateLimit -----------------------------
(***************************************************************************)
(* The ingress rate limiter: the meters of the two QDMAs (arht_qdma.c),    *)
(* one of each direction, the debug files that set them                    *)
(* (arht_dp_api_debugfs.c) and the choice of a meter for a flow            *)
(* (get_meter_idx_by_gemport in arht_dp_api.c).                            *)
(*                                                                         *)
(* A meter parameter is reached through one data register and one command  *)
(* register of its QDMA.  One lock for both is held over the two writes of *)
(* a set and not over the read that verifies it, nor over any other read.  *)
(* A caller moves register access by register access.  The packet mode of  *)
(* a meter behaves as its tick does and is left out; group 0 stands for    *)
(* all.                                                                    *)
(***************************************************************************)
EXTENDS Integers, Sequences, FiniteSets

CONSTANTS
    AIROHA_NUM_RX_RING, \* meters of receive rings, ahead of those of gemports
    GEMPORTS,           \* gemports, 0 .. GEMPORTS - 1
    SlowRing,           \* rings whose meter is configured with the slow tick
    FastUnit, SlowUnit, \* rateLimitUnit, kbit/s, of the fast and the slow tick
    Limit,              \* limits, in kbit/s; 0 switches a limit off
    DefaultLimit,       \* that of the rings
    GemLimit, RingLimit, \* by QDMA, the limits asked for gemports and rings
    Writer              \* processes that write the debug files

Dir == {0, 1}           \* eth->qdma[]: downstream, upstream

ASSUME RateAssumption ==
    /\ AIROHA_NUM_RX_RING \in Nat \ {0} /\ GEMPORTS \in Nat \ {0}
    /\ FastUnit \in Nat /\ SlowUnit \in Nat
    /\ Limit \subseteq Nat /\ DefaultLimit \in Limit
    /\ GemLimit \in [Dir -> SUBSET Limit] /\ RingLimit \in [Dir -> SUBSET Limit]

Gemport == 0 .. GEMPORTS - 1
RxRing == 0 .. AIROHA_NUM_RX_RING - 1
Meter == Dir \X (0 .. 2 * (AIROHA_NUM_RX_RING + GEMPORTS - 1))
NO_METER == -1

(* The token rate of a limit, in 64ths of the tick's unit.  A limit below  *)
(* a 64th has none, and one that overflows the field is refused, as every  *)
(* limit is when the tick is shorter than the unit.                        *)
RateUnit(slow) == IF slow THEN SlowUnit ELSE FastUnit
TokenWord(v, slow) ==
    (v \div RateUnit(slow)) * 64 + ((v % RateUnit(slow)) * 64) \div RateUnit(slow)
Refused(v, slow) == RateUnit(slow) = 0 \/ v \div RateUnit(slow) > 262143

(* Register values: the mode word of a meter, its token rate and its       *)
(* bucket size.  All of them are 0 when they say nothing.                  *)
Zero == <<"zero">>
Misc(en, slow) == IF en \/ slow THEN <<"misc", en, slow>> ELSE Zero
Rate(v, slow) == IF TokenWord(v, slow) = 0 THEN Zero ELSE <<"rate", TokenWord(v, slow)>>
Bucket(v) == <<"bucket", v>>
MiscValues == {Misc(en, slow) : en, slow \in BOOLEAN}
Values == MiscValues \cup {Rate(v, slow) : v \in Limit, slow \in BOOLEAN}
                     \cup {Bucket(v) : v \in Limit} \cup {Zero}
Param == {"misc", "rate", "bucket"}

(* A mode word read for another value has whatever bits that value has.    *)
AsMisc(val) == IF val \in MiscValues THEN {val} ELSE MiscValues
Enabled(val) == val \in MiscValues \ {Zero} /\ val[2]
Slow(val) == val \in MiscValues \ {Zero} /\ val[3]

VARIABLES
    mtr,       \* by meter, its parameters
    dataReg,   \* by QDMA, TRTCM_DATA_LO: the value to write, or the one last read
    cfgLock,   \* who holds qdma_cfg_lock
    gemEnable, \* gemport_ratelimit_enable
    rcall,     \* by writer, its call and its local variables
    limited,   \* history: the QDMAs whose meter took a limit since the last 0
    roverlap,  \* history: calls have been in progress at the same time
    rfailed,   \* history: a read went unanswered in the last call
    rresult    \* history: by writer, the call that returned last
rateVars == <<mtr, dataReg, cfgLock, gemEnable, rcall, limited, roverlap, rfailed, rresult>>

RatePc == {"idle", "ask", "answer", "data", "command", "check", "verify", "done"}
NoCall == [kind |-> "none", meter |-> <<0, 0>>, limit |-> 0]

(* The accesses of a call, in order: a bit of the mode word is changed, a  *)
(* parameter is read, a parameter is written.                              *)
RmwOf(bit, to) == [op |-> "rmw", param |-> "misc", bit |-> bit, to |-> to]
ReadOf(param) == [op |-> "read", param |-> param, bit |-> "none", to |-> FALSE]
WriteOf(param) == [op |-> "write", param |-> param, bit |-> "none", to |-> FALSE]

(* airoha_dp_api_qdma_set_meter_cfg; gemports get the fast tick. *)
CfgOps(v) == <<RmwOf("en", v > 0), RmwOf("slow", FALSE)>>

(* airoha_dp_api_qdma_set_meter_value: the tick, the rate in its unit, the *)
(* bucket size.                                                            *)
ValueOps == <<ReadOf("misc"), WriteOf("rate"), WriteOf("bucket")>>

(* airoha_dp_api_qdma_get_meter_value: the tick, the rate. *)
GetOps == <<ReadOf("misc"), ReadOf("rate")>>

Ops(call) == CASE call.kind = "gem" -> CfgOps(call.limit) \o ValueOps
               [] call.kind = "ring" -> ValueOps
               [] call.kind = "get" -> GetOps
               [] OTHER -> <<>>

RateCall == [kind : {"none", "gem", "ring", "get"}, meter : Meter, limit : Limit \cup {0}]
RateRecord == [pc : RatePc, call : RateCall, at : 1 .. 5, slow : BOOLEAN, ok : BOOLEAN,
               want : Values, tmp : Values]

RateTypeOK ==
    /\ mtr \in [Meter -> [Param -> Values]]
    /\ dataReg \in [Dir -> Values]
    /\ cfgLock \subseteq Writer
    /\ gemEnable \subseteq Gemport
    /\ rcall \in [Writer -> RateRecord]
    /\ limited \subseteq Dir /\ roverlap \in BOOLEAN /\ rfailed \in BOOLEAN
    /\ rresult \in [Writer -> RateCall]

RateIdle == [pc |-> "idle", call |-> NoCall, at |-> 1, slow |-> FALSE, ok |-> TRUE,
         want |-> Zero, tmp |-> Zero]

(* What airoha_dp_api_qdma_meter_default_config leaves: rings are metered, *)
(* some of them by the slow tick, and gemports are not.                    *)
RateInit ==
    /\ mtr = [m \in Meter |->
                IF m[2] \in RxRing
                THEN [misc |-> Misc(TRUE, m[2] \in SlowRing),
                      rate |-> Rate(DefaultLimit, m[2] \in SlowRing),
                      bucket |-> Bucket(DefaultLimit)]
                ELSE [p \in Param |-> Zero]]
    /\ dataReg = [d \in Dir |-> Zero]
    /\ cfgLock = {}
    /\ gemEnable = {}
    /\ limited = {}
    /\ rcall = [w \in Writer |-> RateIdle]
    /\ roverlap = FALSE
    /\ rfailed = FALSE
    /\ rresult = [w \in Writer |-> NoCall]

-----------------------------------------------------------------------------
Call(w) == rcall[w].call
Op(w) == Ops(Call(w))[rcall[w].at]
RateAt(w, pc) == rcall[w].pc = pc

(* Where an access starts: a write with the value, everything else with a  *)
(* read.                                                                   *)
FirstAccess(op) == IF op.op = "write" THEN "data" ELSE "ask"

(* The QDMA of a call's meter. *)
DirOf(w) == Call(w).meter[1]

(* The meter an access is about.  A get reads the mode word with the index *)
(* where TRTCM mode has it, one bit further up.                            *)
MeterOf(w) ==
    IF Call(w).kind = "get" /\ Op(w).param = "misc" THEN <<DirOf(w), 2 * Call(w).meter[2]>>
    ELSE Call(w).meter

(* The gemport of the request is checked; the meter is the first one.      *)
GemMeter(d) == <<d, AIROHA_NUM_RX_RING>>
RingMeter == Dir \X RxRing

RateBegin(w, call) ==
    /\ RateAt(w, "idle")
    /\ rcall' = [rcall EXCEPT ![w] = [RateIdle EXCEPT !.call = call, !.pc = FirstAccess(Ops(call)[1])]]
    /\ roverlap' = (roverlap \/ \E x \in Writer \ {w} : ~RateAt(x, "idle"))
    /\ rfailed' = FALSE
    /\ rresult' = [x \in Writer |-> NoCall]
    /\ UNCHANGED <<mtr, dataReg, cfgLock, gemEnable, limited>>

(* airoha_gemport_ratelimit_value_write. *)
SetGemport(w) ==
    \E d \in Dir : \E v \in GemLimit[d] :
        RateBegin(w, [kind |-> "gem", meter |-> GemMeter(d), limit |-> v])

(* airoha_rxring_limit_value_write. *)
SetRing(w) ==
    \E m \in RingMeter : \E v \in RingLimit[m[1]] :
        RateBegin(w, [kind |-> "ring", meter |-> m, limit |-> v])

GetMeter(w) ==
    \E m \in RingMeter \cup {GemMeter(d) : d \in Dir} :
        RateBegin(w, [kind |-> "get", meter |-> m, limit |-> 0])

(* A gemport is rate limited from now on when the meter took the limit,    *)
(* and no longer when it was asked to be off: in both directions, for the  *)
(* flag has none.                                                          *)
(* Bug: the flag is set before the result is looked at. *)
Flagged_Always(call, ok) ==
    IF call.limit > 0 THEN gemEnable \cup {call.meter[2] - AIROHA_NUM_RX_RING}
    ELSE gemEnable \ {call.meter[2] - AIROHA_NUM_RX_RING}

Flagged(call, ok) ==
    IF call.limit > 0 THEN IF ok THEN gemEnable \cup {call.meter[2] - AIROHA_NUM_RX_RING}
                           ELSE gemEnable
    ELSE gemEnable \ {call.meter[2] - AIROHA_NUM_RX_RING}

NowLimited(call, ok) ==
    IF call.limit = 0 THEN {} ELSE IF ok THEN limited \cup {call.meter[1]} ELSE limited

RateReturn(w, ok) ==
    /\ rcall' = [rcall EXCEPT ![w] = RateIdle]
    /\ rresult' = [rresult EXCEPT ![w] = IF ok THEN Call(w) ELSE NoCall]
    /\ gemEnable' = IF Call(w).kind = "gem" THEN Flagged(Call(w), ok) ELSE gemEnable
    /\ limited' = IF Call(w).kind = "gem" THEN NowLimited(Call(w), ok) ELSE limited

(* The access is over.  A failed one ends the sub-call it is part of: the  *)
(* value is set even if the configuration before it failed.                *)
Following(w, ok) ==
    IF ok THEN rcall[w].at + 1
    ELSE IF Call(w).kind = "gem" /\ rcall[w].at <= Len(CfgOps(0)) THEN Len(CfgOps(0)) + 1
    ELSE Len(Ops(Call(w))) + 1

Proceed(w, ok, slow) ==
    LET n == Following(w, ok)
    IN  IF n > Len(Ops(Call(w)))
        THEN RateReturn(w, rcall[w].ok /\ ok)
        ELSE /\ rcall' = [rcall EXCEPT ![w].at = n, ![w].pc = FirstAccess(Ops(Call(w))[n]),
                                       ![w].slow = slow, ![w].ok = @ /\ ok,
                                       ![w].want = Zero, ![w].tmp = Zero]
             /\ UNCHANGED <<rresult, gemEnable, limited>>

-----------------------------------------------------------------------------
(* generalGetRatelimitParaConfig and airoha_generalGetTrtcmParaConfig: the *)
(* command brings a parameter into the data register.                      *)
AskParam(w) ==
    /\ RateAt(w, "ask") \/ RateAt(w, "check")
    /\ dataReg' = [dataReg EXCEPT ![DirOf(w)] = mtr[MeterOf(w)][Op(w).param]]
    /\ rcall' = [rcall EXCEPT ![w].pc = IF RateAt(w, "ask") THEN "answer" ELSE "verify"]
    /\ UNCHANGED <<mtr, cfgLock, gemEnable, limited, roverlap, rfailed, rresult>>

(* The mode word with one bit changed. *)
Changed(val, op) ==
    IF op.bit = "en" THEN Misc(op.to, Slow(val)) ELSE Misc(Enabled(val), op.to)

(* A set that knows its tick goes on, unless the tick refuses the limit    *)
(* (-EINVAL, before anything is written).                                  *)
Ticked(w, slow) == Proceed(w, Call(w).kind = "get" \/ ~Refused(Call(w).limit, slow), slow)

(* generalSetRatelimitMeterMode and generalSetRatelimitTickSel, and the    *)
(* reads of generalSetRatelimitTokenRate, which take 0 for no answer.      *)
AnswerParam(w) ==
    /\ RateAt(w, "answer")
    /\ IF Op(w).op = "rmw"
       THEN \E val \in AsMisc(dataReg[DirOf(w)]) :
                /\ rcall' = [rcall EXCEPT ![w].pc = "data", ![w].want = Changed(val, Op(w))]
                /\ UNCHANGED <<rresult, gemEnable, limited>>
       ELSE IF Op(w).param = "misc"
       THEN \E val \in AsMisc(dataReg[DirOf(w)]) : Ticked(w, Slow(val))
       ELSE Proceed(w, TRUE, rcall[w].slow)
    /\ UNCHANGED <<mtr, dataReg, cfgLock, roverlap, rfailed>>

NoParam(w) ==
    /\ RateAt(w, "answer")
    /\ rfailed' = TRUE
    /\ IF Op(w).op = "rmw" THEN Proceed(w, FALSE, rcall[w].slow)
       ELSE IF Op(w).param = "misc" THEN Ticked(w, FALSE)
       ELSE Proceed(w, TRUE, rcall[w].slow)
    /\ UNCHANGED <<mtr, dataReg, cfgLock, roverlap>>

(* generalSetRatelimitParaConfig: under the lock the value and then the    *)
(* command, and then a read to see that it is there, over and over.        *)
Wanted(w) ==
    CASE Op(w).op = "rmw" -> rcall[w].want
      [] Op(w).param = "rate" -> Rate(Call(w).limit, rcall[w].slow)
      [] OTHER -> Bucket(Call(w).limit)

PutData(w) ==
    /\ RateAt(w, "data") /\ cfgLock = {}
    /\ cfgLock' = {w}
    /\ dataReg' = [dataReg EXCEPT ![DirOf(w)] = Wanted(w)]
    /\ rcall' = [rcall EXCEPT ![w].pc = "command", ![w].want = Wanted(w)]
    /\ UNCHANGED <<mtr, gemEnable, limited, roverlap, rfailed, rresult>>

(* The hardware may miss the command: the read back is there for that. *)
PutCommand(w) ==
    /\ RateAt(w, "command")
    /\ \/ mtr' = [mtr EXCEPT ![MeterOf(w)][Op(w).param] = dataReg[DirOf(w)]]
       \/ UNCHANGED mtr
    /\ cfgLock' = {}
    /\ rcall' = [rcall EXCEPT ![w].pc = "check"]
    /\ UNCHANGED <<dataReg, gemEnable, limited, roverlap, rfailed, rresult>>

(* The read back, which leaves the variable as it was when unanswered; it  *)
(* starts out as 0.                                                        *)
(* Bug: the value read back is not compared. *)
Accepted_Any(w, tmp) == TRUE

Accepted(w, tmp) == tmp = rcall[w].want

Verify(w) ==
    /\ RateAt(w, "verify")
    /\ \E tmp \in {dataReg[DirOf(w)], rcall[w].tmp} :
        /\ rfailed' = (rfailed \/ tmp # dataReg[DirOf(w)])
        /\ rcall' = [rcall EXCEPT ![w].tmp = tmp,
                                  ![w].pc = IF Accepted(w, tmp) THEN "done" ELSE "data"]
    /\ UNCHANGED <<mtr, dataReg, cfgLock, gemEnable, limited, roverlap, rresult>>

(* The last poll of the acknowledge, which may not come either. *)
Done(w) ==
    /\ RateAt(w, "done")
    /\ \E ok \in BOOLEAN : Proceed(w, ok, rcall[w].slow)
    /\ UNCHANGED <<mtr, dataReg, cfgLock, roverlap, rfailed>>

RateStep(w) ==
    \/ SetGemport(w)
    \/ SetRing(w)
    \/ GetMeter(w)
    \/ AskParam(w)
    \/ AnswerParam(w)
    \/ NoParam(w)
    \/ PutData(w)
    \/ PutCommand(w)
    \/ Verify(w)
    \/ Done(w)

RateNext == \E w \in Writer : RateStep(w)

RateSpec == RateInit /\ [][RateNext]_rateVars

-----------------------------------------------------------------------------
(* get_meter_idx_by_gemport: the meter, of the QDMA of its direction, of a *)
(* flow of gemport g.                                                      *)
MeterIdx(g) == IF g \in gemEnable THEN AIROHA_NUM_RX_RING + g ELSE NO_METER

Alone == ~roverlap /\ \A w \in Writer : RateAt(w, "idle")

(* A call that met no other, whose reads were answered and that returned 0 *)
(* has left in its meter the limit, counted in the tick the meter has.     *)
LimitTakesHold ==
    \A w \in Writer :
        LET c == rresult[w]
        IN  Alone /\ ~rfailed /\ c.kind \in {"gem", "ring"} =>
                /\ mtr[c.meter].rate = Rate(c.limit, Slow(mtr[c.meter].misc))
                /\ mtr[c.meter].bucket = Bucket(c.limit)
                /\ c.kind = "gem" => (Enabled(mtr[c.meter].misc) <=> c.limit > 0)

(* A gemport is flagged only while some QDMA has its limit, and in every   *)
(* QDMA that took one since the last 0 the meter its flows are sent to is  *)
(* enabled, whatever sequence of settings, each of which may have failed   *)
(* half way, came before.  Nothing is claimed of the other direction: the  *)
(* flag sends its flows to a meter that may be off.                        *)
PolicedWhenEnabled ==
    Alone => \A g \in gemEnable :
        limited # {} /\ \A d \in limited : Enabled(mtr[<<d, MeterIdx(g)>>].misc)
=============================================================================
