-------------------------------- MODULE Rates -------------------------------
(***************************************************************************)
(* The arithmetic of the rate limiters: the search for a bucket size and   *)
(* the token rates of arht_qdma.c, and those of arht_hsgmii.c.  The search *)
(* calls itself last of all; a step is one such call, or the whole of a    *)
(* function that does not search.  The last call is remembered.            *)
(*                                                                         *)
(* Widths matter where the code has them: the unit of a QDMA token rate is *)
(* an unsigned short, and the bucket size of an HSGMII is a rate shifted   *)
(* left in 32 bits, computed here in units of 1024 bytes.                  *)
(***************************************************************************)
EXTENDS Integers, Sequences

CONSTANTS
    Size,      \* bucket sizes the search is called with, in bytes
    Kbps,      \* rates in kbit/s or packets/s
    Tick       \* ticks of a meter, in microseconds

ASSUME CalcAssumption == Size \subseteq Nat /\ Kbps \subseteq Nat /\ Tick \subseteq Nat

USHORT == 65536
TOKEN_INTEGER_MAX == 262143    \* 0x3FFFF
QDMA_UNITS == {16, 256, 1024}
QDMA_MAX_SHIFT == 17
QDMA_MAX_BUCKET == 134217728   \* 128 MB
HSGMII_MAX_SHIFT == 15
HSGMII_MAX_BUCKET == 32768     \* 32 MB, in units of 1024 bytes
SIGN == 2097152                \* the sign bit and the carry of a 32-bit
CARRY == 4194304               \* number, in units of 1024 bytes

(* unit << s, for the shifts a bucket size may have. *)
PowersOf2 == <<1, 2, 4, 8, 16, 32, 64, 128, 256, 512, 1024, 2048, 4096, 8192, 16384, 32768,
               65536, 131072>>
Shl(unit, s) == unit * PowersOf2[s + 1]

VARIABLE calc  \* the last call: its function, arguments and result
NoCalc == [fn |-> "none"]
NO_SHIFT == -1
NO_RATE == -1
EINVAL == [integer |-> -1, fraction |-> -1]

(* A search, its bounds and, once it has returned, the shift; a token rate. *)
SearchCall == [fn : {"bucket", "hsgmii"}, rate : Kbps \cup {NO_RATE}, value : Nat,
               unit : QDMA_UNITS \cup {1}, lo : 0 .. QDMA_MAX_SHIFT, hi : 0 .. QDMA_MAX_SHIFT,
               shift : (0 .. QDMA_MAX_SHIFT) \cup {NO_SHIFT}]
TokenCall == [fn : {"token"}, rate : Kbps, tick : Tick, pkt : BOOLEAN,
              token : {EINVAL} \cup [integer : Nat, fraction : Nat]]
CalcTypeOK == calc \in {NoCalc} \cup SearchCall \cup TokenCall

Searching == calc.fn \in {"bucket", "hsgmii"} /\ calc.shift = NO_SHIFT

-----------------------------------------------------------------------------
(* How a call of the search ends: with a shift, or in the next call. *)
Found(s) == [lo |-> s, hi |-> s, shift |-> s]
Again(lo, hi) == [lo |-> lo, hi |-> hi, shift |-> NO_SHIFT]

(* biSearchGetBucketSizeShift and, without the looks at lo and hi,         *)
(* get_bucketsize_shift.  Their test for lo > hi is left out: a search is  *)
(* never called with such bounds (Bracketed in HwCalls_proofs).            *)
(* Bug: the search stops a step early and takes the smaller size. *)
BiSearch_Floor(value, lo, hi, unit) ==
    LET mid == (lo + hi) \div 2
    IN  IF value > 0 /\ value < unit THEN Found(0)
        ELSE IF Shl(unit, mid) = value THEN Found(mid)
        ELSE IF Shl(unit, mid) > value
             THEN IF mid - lo <= 1 THEN Found(lo) ELSE Again(lo, mid)
             ELSE IF hi - mid <= 1 THEN Found(hi) ELSE Again(mid, hi)

BiSearch(value, lo, hi, unit) ==
    LET mid == (lo + hi) \div 2
        exact == {s \in {mid, lo, hi} : Shl(unit, s) = value}
    IN  IF value > 0 /\ value < unit THEN Found(0)
        ELSE IF exact # {} THEN Found(CHOOSE s \in exact : TRUE)
        ELSE IF Shl(unit, mid) > value
             THEN IF mid - lo <= 1 THEN Found(mid) ELSE Again(lo, mid)
             ELSE IF hi - mid <= 1 THEN Found(hi) ELSE Again(mid, hi)

HsgmiiSearch(value, lo, hi, unit) ==
    LET mid == (lo + hi) \div 2
    IN  IF value > 0 /\ value < unit THEN Found(0)
        ELSE IF Shl(unit, mid) = value THEN Found(mid)
        ELSE IF Shl(unit, mid) > value
             THEN IF mid - lo <= 1 THEN Found(mid) ELSE Again(lo, mid)
             ELSE IF hi - mid <= 1 THEN Found(hi) ELSE Again(mid, hi)

(* generalGetBucketSizeByRate, in bytes. *)
BucketSizeByRate(rate) ==
    IF rate <= 4000 THEN 64 * 1024
    ELSE IF rate <= 8000 THEN 512 * 1024
    ELSE IF rate <= 16000 THEN 1024000
    ELSE IF rate <= 128000 THEN 8 * 1024000
    ELSE IF rate <= 256000 THEN 24 * 1024000
    ELSE 64 * 1024000

(* generalSetRatelimitTokenRate: the unit of the tick, and a rate in it.   *)
FullUnit(tick, pkt) == (IF pkt THEN 1000000 ELSE 8000) \div tick

(* Bug: the unit of a byte meter for every meter. *)
Unit_Byte(tick, pkt) == (8000 \div tick) % USHORT

Unit(tick, pkt) == FullUnit(tick, pkt) % USHORT

TokenRate(rate, unit) ==
    IF unit = 0 \/ rate \div unit > TOKEN_INTEGER_MAX THEN EINVAL
    ELSE [integer |-> rate \div unit, fraction |-> ((rate % unit) * 64) \div unit]

(* airoha_generalGetTrtcmTokenRate: what a meter reports. *)
Reported(token, unit) == token.integer * unit + ((token.fraction * unit) \div 64)

(* xsi_mac_set_ratelimit in byte mode: the size is rate << 10 in 32 bits,  *)
(* compared as a signed number with the largest size and searched as an    *)
(* unsigned one; a negative one is beyond every size.                      *)
(* Bug: the size is not limited before the search. *)
HsgmiiBucket_Wrap(rate) == rate % HSGMII_MAX_BUCKET

HsgmiiBucket(rate) ==
    LET size == rate % CARRY
    IN  IF size \in HSGMII_MAX_BUCKET .. SIGN - 1 THEN HSGMII_MAX_BUCKET ELSE size

-----------------------------------------------------------------------------
StartSearch(fn, rate, value, unit, last) ==
    calc' = [fn |-> fn, rate |-> rate, value |-> value, unit |-> unit, lo |-> 0, hi |-> last,
             shift |-> NO_SHIFT]

(* The bucket of a QDMA meter: of any size up to 128 MB, and by the rate.  *)
BucketSize ==
    \E value \in Size, unit \in QDMA_UNITS :
        /\ value <= QDMA_MAX_BUCKET
        /\ StartSearch("bucket", NO_RATE, value, unit, QDMA_MAX_SHIFT)

BucketByRate ==
    \E rate \in Kbps :
        StartSearch("bucket", rate, BucketSizeByRate(rate), 1024, QDMA_MAX_SHIFT)

SetTokenRate ==
    \E rate \in Kbps, tick \in Tick, pkt \in BOOLEAN :
        calc' = [fn |-> "token", rate |-> rate, tick |-> tick, pkt |-> pkt,
                 token |-> IF tick = 0 THEN EINVAL ELSE TokenRate(rate, Unit(tick, pkt))]

SetHsgmii ==
    \E rate \in Kbps \ {0} :
        StartSearch("hsgmii", rate, HsgmiiBucket(rate), 1, HSGMII_MAX_SHIFT)

Calculate == ~Searching /\ (BucketSize \/ BucketByRate \/ SetTokenRate \/ SetHsgmii)

Search ==
    /\ Searching
    /\ LET r == IF calc.fn = "bucket" THEN BiSearch(calc.value, calc.lo, calc.hi, calc.unit)
                ELSE HsgmiiSearch(calc.value, calc.lo, calc.hi, calc.unit)
       IN  calc' = [calc EXCEPT !.lo = r.lo, !.hi = r.hi, !.shift = r.shift]

CalcInit == calc = NoCalc
CalcNext == Calculate \/ Search
CalcSpec == CalcInit /\ [][CalcNext]_calc

-----------------------------------------------------------------------------
(* arht_qdma.c:58, "return the max bucketSize shift close to value": the   *)
(* shift is the least one whose bucket is as large as asked, or the last   *)
(* one when none is.  (Asked for no bucket at all it returns the second.)  *)
BucketIsLeast ==
    calc.fn = "bucket" /\ calc.value > 0 /\ ~Searching =>
        /\ \A s \in 0 .. calc.shift - 1 : Shl(calc.unit, s) < calc.value
        /\ Shl(calc.unit, calc.shift) >= calc.value \/ calc.shift = QDMA_MAX_SHIFT

(* The token rate a meter is given makes up the rate asked for, by the     *)
(* unit the tick really has, to within a 64th of that unit, and reads back *)
(* as that; a tick of a packet meter below 16 microseconds is excepted,    *)
(* whose unit does not fit its variable.                                   *)
TokenRateExact ==
    calc.fn = "token" /\ calc.token # EINVAL /\ (calc.pkt => calc.tick >= 16) =>
        LET unit == FullUnit(calc.tick, calc.pkt)
            part == calc.token.fraction * unit
            low == calc.token.integer * unit + (part \div 64)
        IN  /\ low <= calc.rate
            /\ (calc.rate - calc.token.integer * unit) * 64 < part + unit
            /\ Reported(calc.token, Unit(calc.tick, calc.pkt)) = low

(* The bucket of an HSGMII limit below 4 Gbit/s holds 1024 bytes for each  *)
(* kbit/s of the rate, what it sends in about 8 s, or is the largest there *)
(* is; above, the shift loses bits.                                        *)
HsgmiiBucketCovers ==
    calc.fn = "hsgmii" /\ calc.rate < CARRY /\ ~Searching =>
        Shl(1, calc.shift) >= calc.rate \/ calc.shift = HSGMII_MAX_SHIFT
=============================================================================
