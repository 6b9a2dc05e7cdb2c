------------------------------ MODULE HwCalls_proofs ------------------------------
(***************************************************************************)
(* Theorems about the calls that reach the hardware register by register,  *)
(* where other calls may come between: those of the LED driver, those that *)
(* set the weights of the queues of a QDMA, and those that set the rate    *)
(* limit of a meter.  Each says what a call that returned success has left *)
(* in the registers, for any number of callers, LEDs, channels and meters  *)
(* and whatever calls, failures and timeouts came before.  The last part   *)
(* is about the arithmetic of the limits, for any rate, size and tick.     *)
(***************************************************************************)
EXTENDS SystemLed, QdmaQos, RateLimit, Rates, SequenceTheorems, TLAPS

(***************************************************************************)
(* The LED driver: what a call that succeeded leaves in the registers, and *)
(* what remove leaves there.  The driver has at least one LED and a level  *)
(* 0; the theorems say so.                                                 *)
(***************************************************************************)
Board == LEDS \in Nat \ {0} /\ 0 \in LEVEL

Probing == life.at \in {"register", "read", "write", "live"}

(* The driver's record is what was asked for, and so is the brightness of  *)
(* an LED that is registered, unless its last write failed.                *)
LedRecorded ==
    /\ \A l \in Led : control[l] = asked[l].cmd
    /\ Probing => \A l \in Registered \ torn : levelReg[l] = asked[l].level
    /\ life.at = "register" => \A l \in Led : l >= life.n => asked[l].level = 0

(* Where a call is, and where probe and remove are.                        *)
Placed ==
    /\ life.at \in {"register", "read", "write"} => life.n \in Led
    /\ life.at = "disable" => life.n \in 1 .. 2 * LEDS
    /\ life.at = "unregister" => life.n \in 0 .. LEDS
    /\ ledcall.at = "level" /\ life.at = "register" => ledcall.led < life.n
    /\ ledret = "ok" => ledcall.at = "idle"
    /\ gentle /\ Unguarded(life.at) => ledcall.at = "idle"
    /\ gentle /\ life.at = "write" => life.value = control[life.n]
    /\ life.at \in {"unregister", "gone"} /\ life.n < LEDS => gentle
    /\ life.at = "gone" => life.n = 0 /\ ledcall.at = "idle"

(* The last call began where nobody else writes commands: probe writes     *)
(* what the driver wants, and remove has made its own calls.               *)
LedAlone ==
    /\ gentle
    /\ Probing \/ (life.at \in {"unregister", "gone"} /\ life.n < LEDS)

(* The commands that a sync has gone past are those of the driver, and so  *)
(* are all of them once it has succeeded.                                  *)
Synced ==
    /\ LedAlone /\ ledcall.at = "sync" => \A l \in Led : l < ledcall.n => cmdReg[l] = control[l]
    /\ LedAlone /\ ledret = "ok" => \A l \in Led : cmdReg[l] = control[l]

(* The LEDs that are no longer registered are off, or being turned off.    *)
TurnedOff ==
    life.at \in {"unregister", "gone"} =>
        /\ \A l \in Led \ torn : l > life.n /\ ~(ledcall.at = "level" /\ ledcall.led = l) =>
             control[l] = OFF /\ levelReg[l] = 0
        /\ ledcall.at = "level" /\ ledcall.led > life.n => ledcall.cmd = OFF /\ ledcall.level = 0

LedInv == LedTypeOK /\ LedRecorded /\ Placed /\ Synced /\ TurnedOff

LEMMA Constants ==
    ASSUME Board
    PROVE  /\ LEDS \in Nat /\ LEDS >= 1
           /\ 1 \in Led /\ LEDS \in Led
           /\ OFF = 0 /\ ON = 1 /\ FLASH = 2 /\ PULSE = 3
           /\ \A l \in Led : l \in Nat /\ l >= 1 /\ l <= LEDS
           /\ \A l \in Led \cup (0 .. LEDS) : l \in 0 .. 2 * LEDS
           /\ \A l \in Nat : 1 <= l /\ l <= LEDS => l \in Led
BY DEF Board, Led, OFF, ON, FLASH, PULSE

-----------------------------------------------------------------------------
LEMMA LedInvInit == Board /\ LedInit => LedInv
<1> SUFFICES ASSUME Board, LedInit PROVE LedInv
  OBVIOUS
<1>1. LedTypeOK
  BY Constants DEF LedInit, LedTypeOK, Idle, Board
<1>2. LedRecorded
  BY Constants DEF LedInit, LedRecorded, Registered
<1>3. Placed
  BY Constants DEF LedInit, Placed, Unguarded, Idle
<1>4. Synced /\ TurnedOff
  BY DEF LedInit, Synced, TurnedOff, Idle
<1> QED
  BY <1>1, <1>2, <1>3, <1>4 DEF LedInv

(* A call takes the mutex: with what it asks for not yet written.          *)
LEMMA LockType ==
    ASSUME Board, LedTypeOK, NEW led \in Led, NEW cmd \in OFF .. PULSE, NEW level \in LEVEL, Lock(led, cmd, level)
    PROVE  /\ ledcall' \in [at : {"idle", "level", "sync"}, led : Led, cmd : OFF .. PULSE, level : LEVEL, n : Led]
           /\ ledcall'.at = "level" /\ ledcall'.led = led /\ ledcall'.cmd = cmd /\ ledcall'.level = level
           /\ ledcall.at = "idle"
           /\ ledret' = "none" /\ gentle' = ~Unguarded(life.at) /\ gentle' \in BOOLEAN
           /\ UNCHANGED <<control, cmdReg, levelReg, asked, torn>>
BY Constants DEF Lock, Idle, Unguarded, Board

LEMMA LedAskKeeps ==
    ASSUME Board, LedInv, NEW led \in Registered, led \in Led, NEW cmd \in OFF .. PULSE, NEW level \in LEVEL,
           Lock(led, cmd, level), UNCHANGED life
    PROVE  LedInv'
<1>1. LedTypeOK'
  BY LockType DEF LedInv, LedTypeOK
<1>2. LedRecorded'
  BY LockType DEF LedInv, LedRecorded, Registered, Probing
<1>3. Placed'
  <2>1. life.at = "register" => led < life.n
    BY DEF Registered
  <2>2. life.at # "gone"
    BY DEF Registered
  <2>3. life.at \in {"unregister", "gone"} => ~Unguarded(life.at)
    BY DEF Unguarded
  <2> QED
    BY <2>1, <2>2, <2>3, LockType DEF LedInv, Placed, Unguarded
<1>4. Synced'
  <2>1. ledcall'.at = "level" /\ ledret' = "none"
    BY LockType DEF LedInv
  <2> QED
    BY <2>1 DEF Synced, LedAlone
<1>5. TurnedOff'
  <2>1. life.at = "unregister" => ~(led > life.n)
    BY Constants DEF Registered, LedInv, LedTypeOK
  <2>2. life.at # "gone"
    BY DEF Registered
  <2> QED
    BY <2>1, <2>2, LockType DEF LedInv, TurnedOff
<1> QED
  BY <1>1, <1>2, <1>3, <1>4, <1>5 DEF LedInv

LEMMA UnregisterKeeps ==
    ASSUME Board, LedInv, Unregister
    PROVE  LedInv'
<1>1. CASE life.n = 0
  <2>1. /\ ledcall = Idle /\ life.at = "unregister"
        /\ life' = [life EXCEPT !.at = "gone"]
        /\ UNCHANGED <<control, cmdReg, levelReg, ledcall, asked, torn, ledret, gentle>>
    BY <1>1 DEF Unregister
  <2>2. life'.at = "gone" /\ life'.n = 0 /\ life' \in [at : {"gone"}, n : 0 .. 2 * LEDS, value : OFF .. PULSE]
    BY <1>1, <2>1, Constants DEF LedInv, LedTypeOK
  <2>3. LedTypeOK'
    BY <2>1, <2>2 DEF LedInv, LedTypeOK
  <2>4. LedRecorded' /\ Placed'
    BY <1>1, <2>1, <2>2 DEF LedInv, LedRecorded, Placed, Probing, Unguarded, Idle
  <2>5. Synced'
    BY <1>1, <2>1, <2>2, Constants DEF LedInv, Synced, LedAlone, Probing
  <2>6. TurnedOff'
    BY <1>1, <2>1, <2>2 DEF LedInv, TurnedOff
  <2> QED
    BY <2>3, <2>4, <2>5, <2>6 DEF LedInv
<1>2. CASE life.n # 0
  <2>1. life.at = "unregister" /\ Lock(life.n, Command(0), 0) /\ life' = [life EXCEPT !.n = life.n - 1]
    BY <1>2 DEF Unregister
  <2>2. life \in [at : {"register", "read", "write", "live", "disable", "unregister", "gone"},
                  n : 0 .. 2 * LEDS, value : OFF .. PULSE]
    BY DEF LedInv, LedTypeOK
  <2>3. life.n \in Led /\ Command(0) = OFF /\ OFF \in OFF .. PULSE /\ 0 \in LEVEL
    <3>1. life.n \in 0 .. LEDS
      BY <2>1 DEF LedInv, Placed
    <3> QED
      BY <1>2, <3>1, Constants DEF Command, Board
  <2>4. /\ life'.at = "unregister" /\ life'.n = life.n - 1 /\ life'.n \in 0 .. LEDS /\ life'.value = life.value
        /\ life' \in [at : {"unregister"}, n : 0 .. 2 * LEDS, value : OFF .. PULSE]
    BY <2>1, <2>2, <2>3, Constants
  <2>5. LedTypeOK'
    BY <2>1, <2>3, <2>4, LockType DEF LedInv, LedTypeOK
  <2>6. ~Unguarded(life.at)
    BY <2>1 DEF Unguarded
  <2>7. LedRecorded' /\ Placed'
    BY <2>1, <2>3, <2>4, <2>6, LockType DEF LedInv, LedRecorded, Placed, Probing, Unguarded
  <2>8. Synced'
    <3>1. ledcall'.at = "level" /\ ledret' = "none"
      BY <2>1, <2>3, LockType DEF LedInv
    <3> QED
      BY <3>1 DEF Synced, LedAlone
  <2>9. TurnedOff'
    <3>1. /\ ledcall.at = "idle" /\ UNCHANGED <<control, levelReg, torn>>
          /\ ledcall'.led = life.n /\ ledcall'.at = "level" /\ ledcall'.cmd = OFF /\ ledcall'.level = 0
      BY <2>1, <2>3, LockType DEF LedInv
    <3>2. \A l \in Led : l > life'.n /\ l # life.n => l > life.n
      BY <2>3, <2>4, Constants
    <3> QED
      BY <2>1, <3>1, <3>2 DEF LedInv, TurnedOff
  <2> QED
    BY <2>5, <2>7, <2>8, <2>9 DEF LedInv
<1> QED
  BY <1>1, <1>2

LEMMA CallKeeps ==
    ASSUME Board, LedInv, NEW led \in Led, SetPulse(led) \/ \E level \in LEVEL : SetBrightness(led, level)
    PROVE  LedInv'
<1>1. led \in Registered /\ UNCHANGED life
  BY DEF SetPulse, SetBrightness
<1>2. PICK cmd \in OFF .. PULSE, level \in LEVEL : Lock(led, cmd, level)
  <2>1. CASE SetPulse(led)
    <3>1. PICK p \in Pulse : Lock(led, p[1], p[2])
      BY <2>1 DEF SetPulse
    <3>2. p[1] \in OFF .. PULSE /\ p[2] \in LEVEL
      BY Constants DEF Pulse, Board
    <3> QED
      BY <3>1, <3>2
  <2>2. CASE \E level \in LEVEL : SetBrightness(led, level)
    <3>1. \A level : Command(level) \in OFF .. PULSE
      BY Constants DEF Command
    <3> QED
      BY <2>2, <3>1 DEF SetBrightness
  <2> QED
    BY <2>1, <2>2
<1> QED
  BY <1>1, <1>2, LedAskKeeps

-----------------------------------------------------------------------------
LEMMA WriteLevelKeeps ==
    ASSUME Board, LedInv, WriteLevel
    PROVE  LedInv'
<1> DEFINE l == ledcall.led
<1>1. /\ l \in Led /\ ledcall.cmd \in OFF .. PULSE /\ ledcall.level \in LEVEL
      /\ levelReg \in [Led -> LEVEL] /\ ledcall.at = "level"
      /\ UNCHANGED <<cmdReg, life, gentle>>
  BY DEF LedInv, LedTypeOK, WriteLevel
<1>2. PICK o \in Outcome :
        /\ levelReg' = Write(levelReg, l, ledcall.level, o)
        /\ IF o = "taken"
           THEN /\ control' = [control EXCEPT ![l] = ledcall.cmd]
                /\ asked' = [asked EXCEPT ![l] = [cmd |-> ledcall.cmd, level |-> ledcall.level]]
                /\ torn' = torn \ {l}
                /\ ledcall' = [ledcall EXCEPT !.at = "sync", !.n = SyncFirst(l)]
                /\ UNCHANGED ledret
           ELSE /\ torn' = torn \cup {l}
                /\ Return("error")
                /\ UNCHANGED <<control, asked>>
  BY DEF WriteLevel
<1>3. /\ levelReg' \in [Led -> LEVEL]
      /\ \A x \in Led \ {l} : levelReg'[x] = levelReg[x]
      /\ o = "taken" => levelReg'[l] = ledcall.level
  BY <1>1, <1>2 DEF Write
<1>4. CASE o = "taken"
  <2>1. /\ control' = [control EXCEPT ![l] = ledcall.cmd]
        /\ asked' = [asked EXCEPT ![l] = [cmd |-> ledcall.cmd, level |-> ledcall.level]]
        /\ torn' = torn \ {l}
        /\ ledcall' = [ledcall EXCEPT !.at = "sync", !.n = 1]
        /\ UNCHANGED ledret
    BY <1>2, <1>4 DEF SyncFirst
  <2>2. LedTypeOK'
    BY <1>1, <1>3, <2>1, Constants DEF LedInv, LedTypeOK
  <2>3. ledcall'.at = "sync" /\ ledcall'.n = 1 /\ ledcall'.led = l
    BY <1>1, <2>1 DEF LedInv, LedTypeOK
  <2>4. /\ asked'[l].cmd = ledcall.cmd /\ asked'[l].level = ledcall.level /\ control'[l] = ledcall.cmd
        /\ \A x \in Led \ {l} : asked'[x] = asked[x] /\ control'[x] = control[x]
    BY <1>1, <2>1 DEF LedInv, LedTypeOK
  <2>5. LedRecorded'
    <3>1. \A x \in Led : control'[x] = asked'[x].cmd
      BY <2>4 DEF LedInv, LedRecorded
    <3>2. Probing => \A x \in Registered \ torn' : levelReg'[x] = asked'[x].level
      <4>1. Probing => Registered \subseteq Led
        BY DEF Registered, Probing
      <4> QED
        BY <1>3, <1>4, <2>1, <2>4, <4>1 DEF LedInv, LedRecorded
    <3>3. life.at = "register" => \A x \in Led : x >= life.n => asked'[x].level = 0
      <4>1. life.at = "register" => l < life.n
        BY <1>1 DEF LedInv, Placed
      <4>2. life.n \in Nat /\ l \in Nat
        BY <1>1, Constants DEF LedInv, LedTypeOK
      <4>3. \A x \in Led : life.at = "register" /\ x >= life.n => x # l
        BY <4>1, <4>2, Constants
      <4> QED
        BY <2>4, <4>3 DEF LedInv, LedRecorded
    <3> QED
      BY <1>1, <3>1, <3>2, <3>3 DEF LedRecorded, Probing, Registered
  <2>6. Placed'
    <3>1. gentle => ~Unguarded(life.at) /\ life.at # "write"
      BY <1>1 DEF LedInv, Placed, Unguarded
    <3>2. ledret # "ok" /\ life.at # "gone"
      BY <1>1 DEF LedInv, Placed
    <3> QED
      BY <1>1, <2>1, <2>3, <3>1, <3>2 DEF LedInv, Placed, Unguarded
  <2>7. Synced'
    <3>1. ledret' # "ok"
      BY <1>1, <2>1 DEF LedInv, Placed
    <3>2. \A x \in Led : ~(x < 1)
      BY Constants
    <3> QED
      BY <2>3, <3>1, <3>2 DEF Synced
  <2>8. TurnedOff'
    BY <1>1, <1>3, <1>4, <2>1, <2>3, <2>4 DEF LedInv, TurnedOff
  <2> QED
    BY <2>2, <2>5, <2>6, <2>7, <2>8 DEF LedInv
<1>5. CASE o # "taken"
  <2>1. torn' = torn \cup {l} /\ ledcall' = Idle /\ ledret' = "error" /\ UNCHANGED <<control, asked>>
    BY <1>2, <1>5 DEF Return
  <2>2. ledcall'.at = "idle"
    BY <2>1 DEF Idle
  <2>3. LedTypeOK'
    BY <1>1, <1>3, <2>1, Constants DEF LedInv, LedTypeOK, Idle, Board
  <2>4. LedRecorded'
    <3>1. Probing => Registered \subseteq Led
      BY DEF Registered, Probing
    <3> QED
      BY <1>1, <1>3, <2>1, <3>1 DEF LedInv, LedRecorded, Probing, Registered
  <2>5. Placed'
    BY <1>1, <2>1, <2>2 DEF LedInv, Placed, Unguarded
  <2>6. Synced'
    BY <2>1, <2>2 DEF Synced
  <2>7. TurnedOff'
    BY <1>1, <1>3, <2>1, <2>2 DEF LedInv, TurnedOff
  <2> QED
    BY <2>3, <2>4, <2>5, <2>6, <2>7 DEF LedInv
<1> QED
  BY <1>4, <1>5

LEMMA SyncKeeps ==
    ASSUME Board, LedInv, Sync
    PROVE  LedInv'
<1> DEFINE n == ledcall.n
<1>1. /\ n \in Led /\ control[n] \in OFF .. PULSE /\ ledcall.at = "sync"
      /\ UNCHANGED <<control, levelReg, life, asked, torn, gentle>>
  BY DEF LedInv, LedTypeOK, Sync
<1>2. PICK o \in Outcome :
        /\ cmdReg' = Write(cmdReg, n, control[n], o)
        /\ IF o # "taken" THEN Return("error")
           ELSE IF n = LEDS THEN Return("ok")
           ELSE ledcall' = [ledcall EXCEPT !.n = n + 1] /\ UNCHANGED ledret
  BY DEF Sync
<1>3. /\ cmdReg' \in [Led -> OFF .. PULSE]
      /\ \A x \in Led \ {n} : cmdReg'[x] = cmdReg[x]
      /\ o = "taken" => cmdReg'[n] = control[n]
  BY <1>1, <1>2 DEF Write, LedInv, LedTypeOK
<1>4. \/ ledcall' = Idle /\ ledcall'.at = "idle" /\ ledret' = "error"
      \/ ledcall' = Idle /\ ledcall'.at = "idle" /\ ledret' = "ok" /\ n = LEDS /\ o = "taken"
      \/ /\ ledcall' = [ledcall EXCEPT !.n = n + 1] /\ ledcall'.at = "sync" /\ ledcall'.n = n + 1
         /\ n # LEDS /\ o = "taken" /\ UNCHANGED ledret
  BY <1>1, <1>2 DEF Return, Idle, LedInv, LedTypeOK
<1>5. n + 1 \in Led \/ n = LEDS
  BY <1>1, Constants
<1>6. LedTypeOK'
  <2>1. Idle \in [at : {"idle", "level", "sync"}, led : Led, cmd : OFF .. PULSE, level : LEVEL, n : Led]
    BY Constants DEF Idle, Board
  <2> QED
    BY <1>1, <1>3, <1>4, <1>5, <2>1 DEF LedInv, LedTypeOK
<1>7. LedRecorded'
  BY <1>1 DEF LedInv, LedRecorded, Probing, Registered
<1>8. Placed'
  BY <1>1, <1>4 DEF LedInv, Placed, Unguarded
<1>9. Synced'
  <2>1. LedAlone' = LedAlone
    BY <1>1 DEF LedAlone, Probing
  <2>2. LedAlone /\ o = "taken" => \A x \in Led : x < n + 1 => cmdReg'[x] = control[x]
    <3>1. \A x \in Led : x < n + 1 /\ x # n => x < n
      BY <1>1, Constants
    <3> QED
      BY <1>1, <1>3, <3>1 DEF LedInv, Synced
  <2>3. n = LEDS => \A x \in Led : x < n + 1
    BY Constants
  <2>4. ledret # "ok"
    BY <1>1 DEF LedInv, Placed
  <2> QED
    BY <1>1, <1>4, <2>1, <2>2, <2>3, <2>4 DEF Synced
<1>10. TurnedOff'
  BY <1>1, <1>4 DEF LedInv, TurnedOff
<1> QED
  BY <1>6, <1>7, <1>8, <1>9, <1>10 DEF LedInv

-----------------------------------------------------------------------------
(* Probe and remove, between whose writes a call may come.                 *)
LEMMA RegisterKeeps ==
    ASSUME Board, LedInv, Register
    PROVE  LedInv'
<1> DEFINE n == life.n
<1>1. /\ n \in Led /\ life.at = "register" /\ 0 \in LEVEL
      /\ UNCHANGED <<control, cmdReg, ledcall, asked, ledret>>
  BY DEF LedInv, Placed, Register, Board
<1>2. PICK o \in Outcome :
        /\ levelReg' = Write(levelReg, n, 0, o)
        /\ torn' = IF o = "taken" THEN torn ELSE torn \cup {n}
  BY DEF Register
<1>3. /\ levelReg' \in [Led -> LEVEL] /\ torn' \subseteq Led
      /\ \A x \in Led \ {n} : levelReg'[x] = levelReg[x] /\ (x \in torn' <=> x \in torn)
      /\ n \notin torn' => levelReg'[n] = 0
  BY <1>1, <1>2 DEF Write, LedInv, LedTypeOK
<1>4. \/ /\ n < LEDS /\ n + 1 \in Led /\ UNCHANGED gentle
         /\ life' = [life EXCEPT !.n = n + 1]
         /\ life'.at = "register" /\ life'.n = n + 1
      \/ /\ n = LEDS /\ gentle' = (gentle /\ ledcall = Idle)
         /\ life' = [life EXCEPT !.at = "read", !.n = 1]
         /\ life'.at = "read" /\ life'.n = 1
  <2>1. /\ life \in [at : {"register", "read", "write", "live", "disable", "unregister", "gone"},
                     n : 0 .. 2 * LEDS, value : OFF .. PULSE]
    BY DEF LedInv, LedTypeOK
  <2>2. n = LEDS \/ (n < LEDS /\ n + 1 \in Led)
    BY <1>1, Constants
  <2>3. IF n < LEDS
        THEN life' = [life EXCEPT !.n = n + 1] /\ UNCHANGED gentle
        ELSE /\ life' = [life EXCEPT !.at = "read", !.n = 1]
             /\ gentle' = (gentle /\ ledcall = Idle)
    BY DEF Register
  <2>4. CASE n < LEDS
    <3>1. n + 1 \in Led
      BY <2>4, <2>2, Constants
    <3> QED
      BY <1>1, <2>1, <2>3, <2>4, <3>1
  <2>5. CASE n = LEDS
    <3>1. ~(n < LEDS)
      BY <2>5, Constants
    <3> QED
      BY <2>1, <2>3, <2>5, <3>1
  <2> QED
    BY <2>2, <2>4, <2>5
<1>5. LedTypeOK'
  <2>1. life' \in [at : {"register", "read"}, n : 0 .. 2 * LEDS, value : OFF .. PULSE]
    <3>1. /\ life \in [at : {"register", "read", "write", "live", "disable", "unregister", "gone"},
                       n : 0 .. 2 * LEDS, value : OFF .. PULSE]
          /\ \A l \in Led : l \in 0 .. 2 * LEDS
      BY Constants DEF LedInv, LedTypeOK
    <3> QED
      BY <1>1, <1>4, <3>1, Constants
  <2>2. gentle' \in BOOLEAN
    BY <1>4 DEF LedInv, LedTypeOK
  <2> QED
    BY <1>1, <1>3, <2>1, <2>2 DEF LedInv, LedTypeOK
<1>6. LedRecorded'
  <2>1. asked[n].level = 0
    BY <1>1, Constants DEF LedInv, LedRecorded
  <2>2. \A x \in Led \ torn' : x <= n => levelReg'[x] = asked[x].level
    <3>1. \A x \in Led : x <= n /\ x # n => x < n
      BY <1>1, Constants
    <3>2. \A x \in Led \ torn : x < n => levelReg[x] = asked[x].level
      BY <1>1 DEF LedInv, LedRecorded, Probing, Registered
    <3> QED
      BY <1>3, <2>1, <3>1, <3>2
  <2>3. \A x \in Registered' : x \in Led /\ x <= n
    <3>1. CASE n < LEDS /\ life'.at = "register" /\ life'.n = n + 1
      <4>1. \A x \in Led : x < n + 1 => x <= n
        BY <1>1, Constants
      <4> QED
        BY <3>1, <4>1 DEF Registered
    <3>2. CASE n = LEDS /\ life'.at = "read"
      BY <3>2, Constants DEF Registered
    <3> QED
      BY <1>4, <3>1, <3>2
  <2>4. \A x \in Led : x >= n + 1 => x >= n
    BY <1>1, Constants
  <2>5. life'.at = "register" => \A x \in Led : x >= life'.n => asked'[x].level = 0
    BY <1>1, <1>4, <2>4 DEF LedInv, LedRecorded
  <2> QED
    BY <1>1, <2>2, <2>3, <2>5 DEF LedInv, LedRecorded
<1>7. Placed'
  <2>1. ledcall.at = "level" => ledcall.led < n + 1
    BY <1>1, Constants DEF LedInv, Placed, LedTypeOK
  <2>2. gentle' /\ Unguarded(life'.at) => ledcall.at = "idle"
    <3>1. Idle.at = "idle"
      BY DEF Idle
    <3>2. CASE life'.at = "register"
      BY <3>2 DEF Unguarded
    <3>3. CASE gentle' = (gentle /\ ledcall = Idle)
      BY <3>1, <3>3
    <3> QED
      BY <1>4, <3>2, <3>3
  <2>3. life'.at \in {"register", "read"} /\ life'.n \in Led
    BY <1>4, Constants
  <2>4. life'.at = "register" => life'.n = n + 1
    BY <1>4
  <2>5. ledret = "ok" => ledcall.at = "idle"
    BY DEF LedInv, Placed
  <2> QED
    BY <1>1, <2>1, <2>2, <2>3, <2>4, <2>5 DEF Placed
<1>8. Synced'
  <2>1. LedAlone' => LedAlone
    BY <1>1, <1>4 DEF LedAlone, Probing, LedInv, LedTypeOK
  <2> QED
    BY <1>1, <2>1 DEF LedInv, Synced
<1>9. TurnedOff'
  BY <1>4 DEF TurnedOff
<1> QED
  BY <1>5, <1>6, <1>7, <1>8, <1>9 DEF LedInv

LEMMA ProbeReadKeeps ==
    ASSUME Board, LedInv, ProbeRead
    PROVE  LedInv'
<1>1. /\ life.at = "read" /\ life.n \in Led
      /\ life' = [life EXCEPT !.at = "write", !.value = control[life.n]]
      /\ UNCHANGED <<control, cmdReg, levelReg, ledcall, asked, torn, ledret, gentle>>
  BY DEF LedInv, Placed, ProbeRead
<1>2. life \in [at : {"register", "read", "write", "live", "disable", "unregister", "gone"},
                n : 0 .. 2 * LEDS, value : OFF .. PULSE] /\ control[life.n] \in OFF .. PULSE
  BY <1>1 DEF LedInv, LedTypeOK
<1>3. /\ life' \in [at : {"write"}, n : 0 .. 2 * LEDS, value : OFF .. PULSE]
      /\ life'.at = "write" /\ life'.n = life.n /\ life'.value = control[life.n]
  BY <1>1, <1>2
<1>4. LedTypeOK'
  BY <1>1, <1>3 DEF LedInv, LedTypeOK
<1>5. LedRecorded' /\ TurnedOff'
  BY <1>1, <1>3 DEF LedInv, LedRecorded, TurnedOff, Probing, Registered
<1>6. Placed'
  BY <1>1, <1>3 DEF LedInv, Placed, Unguarded
<1>7. Synced'
  BY <1>1, <1>3 DEF LedInv, Synced, LedAlone, Probing
<1> QED
  BY <1>4, <1>5, <1>6, <1>7 DEF LedInv

LEMMA ProbeWriteKeeps ==
    ASSUME Board, LedInv, ProbeWrite
    PROVE  LedInv'
<1> DEFINE n == life.n
<1>1. /\ life.at = "write" /\ n \in Led /\ life.value \in OFF .. PULSE
      /\ UNCHANGED <<control, levelReg, ledcall, asked, torn, ledret, gentle>>
  BY DEF LedInv, Placed, ProbeWrite, LedTypeOK
<1>2. PICK o \in Outcome :
        /\ cmdReg' = Write(cmdReg, n, life.value, o)
        /\ life' = IF o # "taken" THEN [at |-> "unregister", n |-> LEDS, value |-> OFF]
                   ELSE IF n < LEDS THEN [at |-> "read", n |-> n + 1, value |-> OFF]
                   ELSE [at |-> "live", n |-> 0, value |-> OFF]
  BY DEF ProbeWrite
<1>3. /\ cmdReg' \in [Led -> OFF .. PULSE]
      /\ \A x \in Led \ {n} : cmdReg'[x] = cmdReg[x]
      /\ cmdReg'[n] \in {cmdReg[n], life.value}
  BY <1>1, <1>2 DEF Write, LedInv, LedTypeOK
<1>4. n < LEDS => n + 1 \in Led
  BY <1>1, Constants
<1>5. \/ life' = [at |-> "unregister", n |-> LEDS, value |-> OFF]
      \/ life' = [at |-> "read", n |-> n + 1, value |-> OFF] /\ n + 1 \in Led
      \/ life' = [at |-> "live", n |-> 0, value |-> OFF]
  BY <1>2, <1>4
<1>6. LedTypeOK'
  <2>1. life' \in [at : {"unregister", "read", "live"}, n : 0 .. 2 * LEDS, value : OFF .. PULSE]
    BY <1>5, Constants
  <2> QED
    BY <1>1, <1>3, <2>1 DEF LedInv, LedTypeOK
<1>7. LedRecorded'
  BY <1>1, <1>5 DEF LedInv, LedRecorded, Probing, Registered
<1>8. Placed'
  BY <1>1, <1>5, Constants DEF LedInv, Placed, Unguarded
<1>9. Synced'
  <2>1. LedAlone' => gentle
    BY <1>1 DEF LedAlone
  <2>2. gentle => ledcall.at = "idle" /\ life.value = control[n]
    BY <1>1 DEF LedInv, Placed, Unguarded
  <2>3. gentle /\ ledret = "ok" => \A x \in Led : cmdReg[x] = control[x]
    BY <1>1 DEF LedInv, Synced, LedAlone, Probing
  <2> QED
    BY <1>1, <1>3, <2>1, <2>2, <2>3 DEF Synced
<1>10. TurnedOff'
  <2>1. \A x \in Led : ~(x > LEDS)
    BY Constants
  <2>2. ledcall.led \in Led
    BY DEF LedInv, LedTypeOK
  <2> QED
    BY <1>1, <1>5, <2>1, <2>2 DEF TurnedOff
<1> QED
  BY <1>6, <1>7, <1>8, <1>9, <1>10 DEF LedInv

LEMMA RemoveKeeps ==
    ASSUME Board, LedInv, Remove
    PROVE  LedInv'
<1>1. /\ life.at = "live" /\ life' = [life EXCEPT !.at = "disable", !.n = 1]
      /\ gentle' = (gentle /\ ledcall = Idle)
      /\ UNCHANGED <<control, cmdReg, levelReg, ledcall, asked, torn, ledret>>
  BY DEF Remove
<1>2. life \in [at : {"register", "read", "write", "live", "disable", "unregister", "gone"},
                n : 0 .. 2 * LEDS, value : OFF .. PULSE]
  BY DEF LedInv, LedTypeOK
<1>3. life' \in [at : {"disable"}, n : 0 .. 2 * LEDS, value : OFF .. PULSE] /\ life'.at = "disable" /\ life'.n = 1
  <2>1. 1 \in 0 .. 2 * LEDS
    BY Constants
  <2> QED
    BY <1>1, <1>2, <2>1
<1>4. LedTypeOK'
  BY <1>1, <1>3 DEF LedInv, LedTypeOK
<1>5. LedRecorded' /\ TurnedOff'
  BY <1>1, <1>3 DEF LedInv, LedRecorded, TurnedOff, Probing
<1>6. Placed'
  <2>1. gentle' => ledcall.at = "idle"
    <3>1. Idle.at = "idle"
      BY DEF Idle
    <3> QED
      BY <1>1, <3>1
  <2>2. ledret = "ok" => ledcall.at = "idle"
    BY DEF LedInv, Placed
  <2> QED
    BY <1>1, <1>3, <2>1, <2>2, Constants DEF Placed
<1>7. Synced'
  BY <1>1, <1>3 DEF Synced, LedAlone, Probing
<1> QED
  BY <1>4, <1>5, <1>6, <1>7 DEF LedInv

LEMMA DisableKeeps ==
    ASSUME Board, LedInv, Disable
    PROVE  LedInv'
<1> DEFINE n == life.n
<1>1. /\ life.at = "disable" /\ n \in 1 .. 2 * LEDS
      /\ UNCHANGED <<control, ledcall, asked, torn, ledret, gentle>>
  BY DEF LedInv, Placed, Disable
<1>2. life' = IF n < 2 * LEDS THEN [life EXCEPT !.n = n + 1] ELSE [at |-> "unregister", n |-> LEDS, value |-> OFF]
  BY DEF Disable
<1>3. cmdReg' \in [Led -> OFF .. PULSE] /\ levelReg' \in [Led -> LEVEL]
  <2>1. OFF \in OFF .. PULSE /\ 0 \in LEVEL
    BY Constants DEF Board
  <2> QED
    BY <1>1, <2>1 DEF Disable, Write, LedInv, LedTypeOK
<1>4. life \in [at : {"register", "read", "write", "live", "disable", "unregister", "gone"},
                n : 0 .. 2 * LEDS, value : OFF .. PULSE]
  BY DEF LedInv, LedTypeOK
<1>5. n < 2 * LEDS => n + 1 \in 1 .. 2 * LEDS
  BY <1>1, Constants
<1>6. \/ /\ life'.at = "disable" /\ life'.n \in 1 .. 2 * LEDS
         /\ life' \in [at : {"disable"}, n : 0 .. 2 * LEDS, value : OFF .. PULSE]
      \/ /\ life'.at = "unregister" /\ life'.n = LEDS
         /\ life' \in [at : {"unregister"}, n : 0 .. 2 * LEDS, value : OFF .. PULSE]
  <2>1. CASE n < 2 * LEDS
    <3>1. n + 1 \in 0 .. 2 * LEDS
      BY <1>5, <2>1, Constants
    <3> QED
      BY <1>1, <1>2, <1>4, <1>5, <2>1, <3>1
  <2>2. CASE ~(n < 2 * LEDS)
    <3>1. LEDS \in 0 .. 2 * LEDS
      BY Constants
    <3> QED
      BY <1>2, <2>2, <3>1, Constants
  <2> QED
    BY <2>1, <2>2
<1>7. LedTypeOK'
  BY <1>1, <1>3, <1>6 DEF LedInv, LedTypeOK
<1>8. LedRecorded'
  BY <1>1, <1>6 DEF LedInv, LedRecorded, Probing
<1>9. Placed'
  BY <1>1, <1>6, Constants DEF LedInv, Placed, Unguarded
<1>10. Synced'
  BY <1>1, <1>6, Constants DEF Synced, LedAlone, Probing
<1>11. TurnedOff'
  <2>1. \A x \in Led : ~(x > LEDS)
    BY Constants
  <2>2. ledcall.led \in Led
    BY DEF LedInv, LedTypeOK
  <2> QED
    BY <1>1, <1>6, <2>1, <2>2 DEF TurnedOff
<1> QED
  BY <1>7, <1>8, <1>9, <1>10, <1>11 DEF LedInv

-----------------------------------------------------------------------------
LEMMA LedInvStep == Board /\ LedInv /\ [LedNext]_ledVars => LedInv'
<1> SUFFICES ASSUME Board, LedInv, [LedNext]_ledVars PROVE LedInv'
  OBVIOUS
<1>1. CASE LedNext
  BY <1>1, CallKeeps, WriteLevelKeeps, SyncKeeps, RegisterKeeps, ProbeReadKeeps, ProbeWriteKeeps,
     RemoveKeeps, DisableKeeps, UnregisterKeeps DEF LedNext
<1>2. CASE UNCHANGED ledVars
  BY <1>2 DEF ledVars, LedInv, LedTypeOK, LedRecorded, Placed, Synced, TurnedOff, LedAlone, Probing, Registered, Unguarded
<1> QED
  BY <1>1, <1>2

(* Calls, probe and remove keep the driver's records, the registers and    *)
(* what the calls carry in their types.                                    *)
THEOREM LedTypeCorrect == ASSUME Board PROVE LedSpec => []LedTypeOK
<1>1. LedInv => LedTypeOK
  BY DEF LedInv
<1> QED
  BY <1>1, LedInvInit, LedInvStep, PTL DEF LedSpec

(* leds-smartrg-system.c, srg_led_control_sync: when a call has succeeded  *)
(* every LED does what was last asked of it, with any number of LEDs and   *)
(* whatever writes have failed before.                                     *)
THEOREM LedsShowWhatWasAskedHolds == ASSUME Board PROVE LedSpec => []LedsShowWhatWasAsked
<1>1. LedInv => LedsShowWhatWasAsked
  <2> SUFFICES ASSUME LedInv, ledret = "ok", gentle, life.at \notin {"disable", "unregister", "gone"},
                      NEW l \in Registered
               PROVE  cmdReg[l] = asked[l].cmd /\ (l \notin torn => levelReg[l] = asked[l].level)
    BY DEF LedsShowWhatWasAsked
  <2>1. Probing
    BY DEF LedInv, LedTypeOK, Probing
  <2>2. l \in Led
    BY <2>1 DEF Registered, Probing
  <2> QED
    BY <2>1, <2>2 DEF LedInv, LedRecorded, Synced, LedAlone
<1> QED
  BY <1>1, LedInvInit, LedInvStep, PTL DEF LedSpec

(* leds-smartrg-system.c, srg_led_disable and the LED class: after the     *)
(* driver is gone the LEDs are off if the last call succeeded.             *)
THEOREM OffWhenGoneHolds == ASSUME Board PROVE LedSpec => []OffWhenGone
<1>1. Board /\ LedInv => OffWhenGone
  <2> SUFFICES ASSUME Board, LedInv, life.at = "gone", ledret = "ok", NEW l \in Led \ torn
               PROVE  cmdReg[l] = OFF /\ levelReg[l] = 0
    BY DEF OffWhenGone
  <2>1. life.n = 0 /\ ledcall.at = "idle" /\ 0 < LEDS /\ l > 0
    BY Constants DEF LedInv, Placed
  <2>2. gentle /\ LedAlone
    BY <2>1 DEF LedInv, Placed, LedAlone
  <2> QED
    BY <2>1, <2>2 DEF LedInv, Synced, TurnedOff
<1> QED
  BY <1>1, LedInvInit, LedInvStep, PTL DEF LedSpec

-----------------------------------------------------------------------------
(***************************************************************************)
(* The queues of a QDMA.  While calls have not met, the inductive          *)
(* invariant QosInv follows the one in progress step by step: the queues   *)
(* and weights it has been past are set, and those a get has been past are *)
(* read.                                                                   *)
(***************************************************************************)
(* The first n queues of the channel are in the set that closes queues as  *)
(* the struct asks, and the first n weights are in the hardware.           *)
ClosedTo(cqs, s, n) ==
    \A q \in Queue : q < n => (<<s.channel, q>> \in cqs <=> Closes(s, q))
InHw(weight) == IF weight = 0 THEN 1 ELSE weight % WEIGHT_RANGE
WeighedTo(s, n) ==
    \A q \in Queue : q < n => wrr[s.base][<<s.channel, q>>] = InHw(s.weight[q])
SameButWeight(s, t) == s.base = t.base /\ s.channel = t.channel /\ s.type = t.type

(* The struct is what a get makes of channel ch. *)
FromSnap(s, ch) ==
    /\ s.type = ch.mode
    /\ \E f \in [Queue -> HwWeight] :
        /\ ch.wrr = {<<q, f[q]>> : q \in Queue}
        /\ \A q \in Queue :
            s.weight[q] = IF f[q] = 1 /\ q \in ch.closed THEN 0 ELSE f[q]

(* How far a set has come, step by step. *)
Setting(p) ==
    LET c == qcall[p]
        s == c.asked
    IN  /\ c.pc \in {"read", "record", "write"} =>
            /\ c.struct = s
            /\ ClosedTo(shadow, s, c.q) /\ ClosedTo(closed[s.base], s, c.q)
        /\ c.pc \in {"record", "write"} => c.read = shadow
        /\ c.pc = "write" => ClosedTo(shadow, s, c.q + 1)
        /\ c.pc \in {"weight", "rdMode", "wrMode"} =>
            /\ SameButWeight(c.struct, s)
            /\ ClosedTo(closed[s.base], s, QUEUES)
        /\ c.pc = "weight" =>
            /\ c.struct.weight = [q \in Queue |-> IF s.weight[q] = 0 THEN 1 ELSE s.weight[q]]
            /\ WeighedTo(s, c.q)
        /\ c.pc \in {"rdMode", "wrMode"} => WeighedTo(s, QUEUES)
        /\ c.pc = "wrMode" => c.modes = mode[s.base]
        /\ c.pc \notin {"getMode", "ask", "answer"} /\ snap[p] # NoSnap => FromSnap(s, snap[p])

(* How far a get has come. *)
Getting(p) ==
    LET c == qcall[p]
        s == c.struct
    IN  /\ c.pc \in {"ask", "answer"} =>
            /\ s.type = mode[s.base][s.channel]
            /\ \A q \in Queue : q < c.q => s.weight[q] = wrr[s.base][<<s.channel, q>>]
        /\ c.pc = "answer" => wrrReg[s.base] = wrr[s.base][<<s.channel, c.q>>]

Holds(s) ==
    /\ mode[s.base][s.channel] = s.type
    /\ ClosedTo(closed[s.base], s, QUEUES)
    /\ WeighedTo(s, QUEUES)

(* Until calls have met, the one in progress is alone and no result of an  *)
(* earlier one is claimed; what has returned left the channel as it says.  *)
SoloInv ==
    ~qoverlap =>
        /\ \A p \in Caller : ~At(p, "idle") =>
            /\ Setting(p) /\ Getting(p)
            /\ \A r \in Caller : qresult[r] = "none" /\ (r # p => At(r, "idle"))
        /\ \A p \in Caller : qresult[p] = "set" =>
            /\ Holds(qcall[p].asked)
            /\ snap[p] # NoSnap => FromSnap(qcall[p].asked, snap[p])
        /\ \A p \in Caller : qresult[p] = "get" /\ snap[p] # NoSnap =>
            FromSnap(qcall[p].struct, snap[p])

StartsAtZero == \A p \in Caller : qcall[p].pc \in {"idle", "rdMode", "wrMode", "getMode"} => qcall[p].q = 0

QosInv == QosTypeOK /\ StartsAtZero /\ SoloInv

-----------------------------------------------------------------------------
LEMMA QosConstants ==
    /\ QUEUES \in Nat \ {0} /\ 0 \in Queue
    /\ QUEUES \in QosType /\ QosType \subseteq Nat /\ Queue \subseteq Nat
    /\ NoStruct \in Struct /\ NoModes \in [Channel -> QosType]
    /\ \A p \in Caller : Request[p] \subseteq Struct
<1>1. QUEUES \in Nat \ {0} /\ 0 \in Weight /\ Base # {} /\ Channel # {}
  BY QosAssumption
<1>2. (CHOOSE b \in Base : TRUE) \in Base /\ (CHOOSE c \in Channel : TRUE) \in Channel
  BY <1>1
<1>3. 0 \in Queue /\ QUEUES \in QosType /\ QosType \subseteq Nat /\ Queue \subseteq Nat
  BY <1>1 DEF Queue, QosType
<1>4. NoStruct \in Struct /\ NoModes \in [Channel -> QosType]
  BY <1>1, <1>2, <1>3 DEF NoStruct, NoModes, Struct
<1> QED
  BY <1>1, <1>3, <1>4, QosAssumption

(* A call in progress takes a step and goes on. *)
LEMMA SoloStep ==
    ASSUME QosInv, NEW p \in Caller, ~At(p, "idle"), qcall'[p].pc # "idle",
           \A r \in Caller : r # p => qcall'[r] = qcall[r],
           UNCHANGED <<qoverlap, qresult, snap>>,
           ~qoverlap => Setting(p)' /\ Getting(p)'
    PROVE  SoloInv'
<1> SUFFICES ASSUME ~qoverlap
             PROVE  SoloInv'
  BY DEF SoloInv
<1>1. \A r \in Caller : qresult[r] = "none" /\ (r # p => At(r, "idle"))
  BY DEF QosInv, SoloInv
<1>2. \A r \in Caller : qresult'[r] = "none" /\ (r # p => At(r, "idle")')
  BY <1>1 DEF At
<1>3. \A r \in Caller : ~At(r, "idle")' => r = p
  BY <1>2
<1> QED
  BY <1>2, <1>3 DEF SoloInv

(* A call in progress returns. *)
LEMMA SoloEnd ==
    ASSUME QosInv, NEW p \in Caller, ~At(p, "idle"), At(p, "idle")', NEW how,
           \A r \in Caller : r # p => qcall'[r] = qcall[r],
           UNCHANGED qoverlap, qresult' = [qresult EXCEPT ![p] = how],
           how = "set" /\ ~qoverlap =>
               /\ Holds(qcall[p].asked)'
               /\ snap'[p] # NoSnap => FromSnap(qcall'[p].asked, snap'[p]),
           how = "get" /\ ~qoverlap /\ snap'[p] # NoSnap =>
               FromSnap(qcall'[p].struct, snap'[p])
    PROVE  SoloInv'
<1> SUFFICES ASSUME ~qoverlap
             PROVE  SoloInv'
  BY DEF SoloInv
<1>1. \A r \in Caller : qresult[r] = "none" /\ (r # p => At(r, "idle"))
  BY DEF QosInv, SoloInv
<1>2. \A r \in Caller : At(r, "idle")'
  BY <1>1 DEF At
<1>3. qresult'[p] = how /\ \A r \in Caller : r # p => qresult'[r] = "none"
  BY <1>1 DEF QosInv, QosTypeOK
<1>4. \A r \in Caller : qresult'[r] \in {"set", "get"} => r = p
  BY <1>3
<1>5. (\A r \in Caller : qresult[r] = "set" =>
            /\ Holds(qcall[r].asked)
            /\ snap[r] # NoSnap => FromSnap(qcall[r].asked, snap[r]))'
  BY <1>3, <1>4
<1>6. (\A r \in Caller : qresult[r] = "get" /\ snap[r] # NoSnap =>
            FromSnap(qcall[r].struct, snap[r]))'
  BY <1>3, <1>4
<1> QED
  BY <1>2, <1>5, <1>6 DEF SoloInv

(* What a call's first step does to its own record and to the others'. *)
LEMMA Begun ==
    ASSUME QosInv, NEW p \in Caller, NEW pc \in {"read", "getMode"}, NEW struct \in Struct,
           Begin(p, pc, struct)
    PROVE  /\ At(p, "idle") /\ qcall[p].q = 0
           /\ qcall'[p].pc = pc /\ qcall'[p].q = 0
           /\ qcall'[p].struct = struct /\ qcall'[p].asked = struct
           /\ \A r \in Caller : qcall'[r].pc # "idle" /\ r # p => ~At(r, "idle")
           /\ \A r \in Caller : qresult'[r] = "none"
           /\ ~qoverlap' => ~qoverlap /\ \A r \in Caller : r # p => At(r, "idle") /\ At(r, "idle")'
           /\ StartsAtZero'
           /\ qcall' \in [Caller -> CallRecord]
           /\ qresult' \in [Caller -> {"none", "set", "get", "ETIME"}]
           /\ qoverlap' \in BOOLEAN
           /\ UNCHANGED <<shadow, closed, wrr, wrrReg, mode>>
<1> DEFINE mine == [qcall[p] EXCEPT !.pc = pc, !.struct = struct, !.asked = struct]
<1> DEFINE theirs(r) == [qcall[r] EXCEPT !.asked = NoStruct]
<1>1. qcall \in [Caller -> CallRecord] /\ qoverlap \in BOOLEAN
  BY DEF QosInv, QosTypeOK
<1>2. At(p, "idle") /\ qcall[p].q = 0
  BY DEF Begin, QosInv, StartsAtZero, At
<1>3. mine \in CallRecord /\ mine.pc = pc /\ mine.q = 0 /\ mine.struct = struct /\ mine.asked = struct
  BY <1>1, <1>2 DEF Pc, CallRecord
<1>4. \A r \in Caller : theirs(r) \in CallRecord /\ theirs(r).pc = qcall[r].pc /\ theirs(r).q = qcall[r].q
  BY <1>1, QosConstants DEF CallRecord
<1>5. qcall' = [r \in Caller |-> IF r = p THEN mine
                                ELSE IF At(r, "idle") THEN theirs(r) ELSE qcall[r]]
  BY DEF Begin
<1> HIDE DEF mine, theirs
<1>6. qcall'[p] = mine
  BY <1>5
<1>7. \A r \in Caller : r # p => qcall'[r] \in CallRecord /\ qcall'[r].pc = qcall[r].pc /\ qcall'[r].q = qcall[r].q
  BY <1>1, <1>4, <1>5
<1>8. qcall' \in [Caller -> CallRecord]
  BY <1>3, <1>5, <1>6, <1>7
<1>9. qresult' = [r \in Caller |-> "none"] /\ UNCHANGED <<shadow, closed, wrr, wrrReg, mode>>
  BY DEF Begin, qhw
<1>10. qoverlap' = (qoverlap \/ \E r \in Caller \ {p} : ~At(r, "idle"))
  BY DEF Begin
<1>11. StartsAtZero'
  <2> SUFFICES ASSUME NEW r \in Caller, qcall'[r].pc \in {"idle", "rdMode", "wrMode", "getMode"}
               PROVE  qcall'[r].q = 0
    BY DEF StartsAtZero
  <2>1. CASE r = p
    BY <2>1, <1>3, <1>6
  <2>2. CASE r # p
    BY <2>2, <1>7 DEF QosInv, StartsAtZero
  <2> QED
    BY <2>1, <2>2
<1>12. ~qoverlap' => ~qoverlap /\ \A r \in Caller : r # p => At(r, "idle") /\ At(r, "idle")'
  BY <1>7, <1>10 DEF At
<1> QED
  BY <1>1, <1>2, <1>3, <1>6, <1>7, <1>8, <1>9, <1>10, <1>11, <1>12 DEF At

LEMMA SoloBegin ==
    ASSUME QosInv, NEW p \in Caller, NEW pc \in {"read", "getMode"}, NEW struct \in Struct,
           Begin(p, pc, struct),
           snap' \in [Caller -> SnapRecord],
           pc = "read" /\ ~qoverlap /\ snap'[p] # NoSnap => FromSnap(struct, snap'[p])
    PROVE  QosInv'
<1>1. QosTypeOK'
  <2>1. /\ UNCHANGED <<shadow, closed, wrr, wrrReg, mode>> /\ qcall' \in [Caller -> CallRecord]
        /\ qoverlap' \in BOOLEAN /\ qresult' \in [Caller -> {"none", "set", "get", "ETIME"}]
    BY Begun
  <2> QED
    BY <2>1 DEF QosInv, QosTypeOK
<1>2. StartsAtZero'
  BY Begun
<1>3. SoloInv'
  <2> SUFFICES ASSUME ~qoverlap'
               PROVE  SoloInv'
    BY DEF SoloInv
  <2>1. ~qoverlap /\ \A r \in Caller : ~At(r, "idle")' => r = p
    BY Begun
  <2>2. qcall'[p].pc = pc /\ qcall'[p].q = 0 /\ qcall'[p].struct = struct /\ qcall'[p].asked = struct
    BY Begun
  <2>3. Setting(p)'
    <3>1. \A q \in Queue : ~(q < 0)
      BY DEF Queue
    <3>2. \A cqs : ClosedTo(cqs, struct, 0)
      BY <3>1 DEF ClosedTo
    <3>3. ClosedTo(shadow', struct, 0) /\ ClosedTo(closed'[struct.base], struct, 0)
      BY <3>2
    <3> QED
      BY <2>1, <2>2, <3>3 DEF Setting, ClosedTo, Closes
  <2>4. Getting(p)'
    BY <2>2 DEF Getting
  <2>5. \A r \in Caller : qresult'[r] = "none"
    BY Begun
  <2>6. \A r \in Caller : r # p => At(r, "idle")'
    BY <2>1
  <2> QED
    BY <2>1, <2>3, <2>4, <2>5, <2>6 DEF SoloInv
<1> QED
  BY <1>1, <1>2, <1>3 DEF QosInv

LEMMA NoSnapType ==
    NoSnap \in SnapRecord
  BY DEF NoSnap, SnapRecord

LEMMA CallSetKeeps == ASSUME QosInv, NEW p \in Caller, CallSet(p) PROVE QosInv'
<1>1. PICK struct \in Request[p] : Begin(p, "read", struct)
  BY DEF CallSet
<1>2. struct \in Struct
  BY QosConstants
<1>3. snap' = [r \in Caller |-> NoSnap]
  BY DEF CallSet
<1> QED
  BY <1>1, <1>2, <1>3, SoloBegin, NoSnapType

LEMMA CallSetAgainKeeps == ASSUME QosInv, NEW p \in Caller, CallSetAgain(p) PROVE QosInv'
<1>1. Begin(p, "read", qcall[p].struct) /\ qcall[p].struct \in Struct
  BY DEF CallSetAgain, QosInv, QosTypeOK, CallRecord
<1>2. snap' = [r \in Caller |-> IF r = p /\ qresult[p] = "get" THEN snap[p] ELSE NoSnap]
  BY DEF CallSetAgain
<1>3. snap' \in [Caller -> SnapRecord]
  BY <1>2, NoSnapType DEF QosInv, QosTypeOK
<1>4. ~qoverlap /\ snap'[p] # NoSnap => FromSnap(qcall[p].struct, snap'[p])
  BY <1>2 DEF QosInv, SoloInv
<1> QED
  BY <1>1, <1>3, <1>4, SoloBegin

LEMMA CallGetKeeps == ASSUME QosInv, NEW p \in Caller, CallGet(p) PROVE QosInv'
<1>1. PICK b \in Base, c \in Channel :
          Begin(p, "getMode", [qcall[p].struct EXCEPT !.base = b, !.channel = c])
  BY DEF CallGet
<1>2. [qcall[p].struct EXCEPT !.base = b, !.channel = c] \in Struct
  <2>1. qcall[p].struct \in Struct
    BY DEF QosInv, QosTypeOK, CallRecord
  <2> QED
    BY <2>1 DEF Struct
<1>3. snap' \in [Caller -> SnapRecord]
  BY NoSnapType DEF CallGet, QosInv, QosTypeOK
<1> QED
  BY <1>1, <1>2, <1>3, SoloBegin

-----------------------------------------------------------------------------
(* What a step that changes only the caller's own record keeps.            *)
LEMMA OwnRecord ==
    ASSUME QosInv, NEW p \in Caller,
           NEW rec \in CallRecord,
           qcall' = [qcall EXCEPT ![p] = rec],
           rec.pc \in {"idle", "rdMode", "wrMode", "getMode"} => rec.q = 0
    PROVE  /\ qcall'[p] = rec /\ \A r \in Caller : r # p => qcall'[r] = qcall[r]
           /\ qcall' \in [Caller -> CallRecord]
           /\ StartsAtZero'
<1>1. /\ qcall'[p] = rec /\ \A r \in Caller : r # p => qcall'[r] = qcall[r]
      /\ qcall' \in [Caller -> CallRecord]
  BY DEF QosInv, QosTypeOK
<1>2. StartsAtZero'
  <2> SUFFICES ASSUME NEW r \in Caller, qcall'[r].pc \in {"idle", "rdMode", "wrMode", "getMode"}
               PROVE  qcall'[r].q = 0
    BY DEF StartsAtZero
  <2>1. CASE r = p
    BY <2>1, <1>1
  <2>2. CASE r # p
    BY <2>2, <1>1 DEF QosInv, StartsAtZero
  <2> QED
    BY <2>1, <2>2
<1> QED
  BY <1>1, <1>2

LEMMA RecordOf ==
    ASSUME QosInv, NEW p \in Caller
    PROVE  /\ qcall[p] \in CallRecord
           /\ qcall[p].struct \in Struct /\ qcall[p].asked \in Struct
           /\ qcall[p].q \in 0 .. QUEUES - 1 /\ QUEUES \in Nat \ {0}
           /\ qcall[p].struct.base \in Base /\ qcall[p].struct.channel \in Channel
           /\ qcall[p].struct.type \in QosType
           /\ Here(p) = <<qcall[p].struct.channel, qcall[p].q>> /\ Here(p) \in Channel \X Queue
<1>1. qcall[p] \in CallRecord
  BY DEF QosInv, QosTypeOK
<1>2. qcall[p].struct \in Struct /\ qcall[p].asked \in Struct /\ qcall[p].q \in Queue
  BY <1>1 DEF CallRecord
<1> QED
  BY <1>1, <1>2, QosConstants DEF Struct, Queue, Here

HwType ==
    /\ shadow \in Cqs /\ closed \in [Base -> Cqs]
    /\ wrr \in [Base -> [Channel \X Queue -> HwWeight]] /\ wrrReg \in [Base -> HwWeight]
    /\ mode \in [Base -> [Channel -> QosType]]

(* What is left to show of a step of a call that goes on ...               *)
LEMMA StepKeeps ==
    ASSUME QosInv, NEW p \in Caller, ~At(p, "idle"),
           NEW rec \in CallRecord, qcall' = [qcall EXCEPT ![p] = rec], rec.pc # "idle",
           rec.pc \in {"rdMode", "wrMode", "getMode"} => rec.q = 0,
           UNCHANGED <<qoverlap, qresult, snap>>, HwType',
           ~qoverlap /\ qcall'[p] = rec => Setting(p)' /\ Getting(p)'
    PROVE  QosInv'
<1>1. /\ qcall'[p] = rec /\ \A r \in Caller : r # p => qcall'[r] = qcall[r]
      /\ qcall' \in [Caller -> CallRecord] /\ StartsAtZero'
  BY OwnRecord
<1>2. SoloInv'
  BY <1>1, SoloStep
<1> QED
  BY <1>1, <1>2 DEF QosInv, QosTypeOK, HwType

(* ... and of one with which a call returns.                               *)
LEMMA EndKeeps ==
    ASSUME QosInv, NEW p \in Caller, ~At(p, "idle"),
           NEW rec \in CallRecord, qcall' = [qcall EXCEPT ![p] = rec],
           rec.pc = "idle", rec.q = 0,
           NEW how \in {"set", "get", "ETIME"}, qresult' = [qresult EXCEPT ![p] = how],
           UNCHANGED qoverlap, snap' \in [Caller -> SnapRecord], HwType',
           how = "set" /\ ~qoverlap /\ qcall'[p] = rec =>
               /\ Holds(qcall[p].asked)'
               /\ snap'[p] # NoSnap => FromSnap(rec.asked, snap'[p]),
           how = "get" /\ ~qoverlap /\ snap'[p] # NoSnap => FromSnap(rec.struct, snap'[p])
    PROVE  QosInv'
<1>1. /\ qcall'[p] = rec /\ \A r \in Caller : r # p => qcall'[r] = qcall[r]
      /\ qcall' \in [Caller -> CallRecord] /\ StartsAtZero'
  BY OwnRecord
<1>2. At(p, "idle")'
  BY <1>1 DEF At
<1>3. SoloInv'
  BY <1>1, <1>2, SoloEnd
<1>4. qresult' \in [Caller -> {"none", "set", "get", "ETIME"}]
  BY DEF QosInv, QosTypeOK
<1>5. qoverlap' \in BOOLEAN
  BY DEF QosInv, QosTypeOK
<1>6. QosTypeOK'
  BY <1>1, <1>4, <1>5 DEF QosTypeOK, HwType
<1>7. StartsAtZero'
  BY <1>1
<1> QED
  BY <1>3, <1>6, <1>7, Zenon DEF QosInv

(* Reading and recording: the copy takes in the queue the call has come to. *)
LEMMA ReadShadowKeeps == ASSUME QosInv, NEW p \in Caller, ReadShadow(p) PROVE QosInv'
<1> DEFINE rec == [qcall[p] EXCEPT !.read = shadow, !.pc = "record"]
<1>1. rec \in CallRecord
  BY RecordOf DEF Pc, QosInv, QosTypeOK, CallRecord
<1>2. /\ rec.pc = "record" /\ rec.read = shadow /\ rec.q = qcall[p].q
      /\ rec.struct = qcall[p].struct /\ rec.asked = qcall[p].asked
  BY RecordOf DEF CallRecord
<1>3. qcall' = [qcall EXCEPT ![p] = rec]
  BY DEF ReadShadow
<1> HIDE DEF rec
<1>4. /\ UNCHANGED <<shadow, closed, wrr, wrrReg, mode, qoverlap, qresult, snap>>
      /\ qcall[p].pc = "read" /\ ~At(p, "idle") /\ HwType'
  BY DEF ReadShadow, qhw, At, QosInv, QosTypeOK, HwType
<1>5. ~qoverlap => Setting(p)
  BY <1>4 DEF QosInv, SoloInv
<1>6. ~qoverlap /\ qcall'[p] = rec => Setting(p)' /\ Getting(p)'
  BY <1>2, <1>4, <1>5 DEF Setting, Getting, ClosedTo, Closes
<1> QED
  BY <1>1, <1>2, <1>3, <1>4, <1>6, StepKeeps

LEMMA RecordShadowKeeps == ASSUME QosInv, NEW p \in Caller, RecordShadow(p) PROVE QosInv'
<1> DEFINE rec == [qcall[p] EXCEPT !.read = Recorded(p), !.pc = "write"]
<1>0. Recorded(p) \in Cqs
  BY RecordOf DEF Recorded, QosInv, QosTypeOK, CallRecord, Cqs
<1>1. rec \in CallRecord
  BY <1>0, RecordOf DEF Pc, CallRecord
<1>2. /\ rec.pc = "write" /\ rec.read = Recorded(p) /\ rec.q = qcall[p].q
      /\ rec.struct = qcall[p].struct /\ rec.asked = qcall[p].asked
  BY RecordOf DEF CallRecord
<1>3. qcall' = [qcall EXCEPT ![p] = rec]
  BY DEF RecordShadow
<1> HIDE DEF rec
<1>4. /\ UNCHANGED <<closed, wrr, wrrReg, mode, qoverlap, qresult, snap>>
      /\ qcall[p].pc = "record" /\ ~At(p, "idle") /\ shadow' = Recorded(p) /\ HwType'
  BY <1>0 DEF RecordShadow, qhw, At, QosInv, QosTypeOK, HwType
<1>5. ~qoverlap => Setting(p)
  BY <1>4 DEF QosInv, SoloInv
<1>6. ASSUME ~qoverlap, qcall'[p] = rec
      PROVE  Setting(p)' /\ Getting(p)'
  <2>1. PICK s, q : s = qcall[p].asked /\ q = qcall[p].q
    OBVIOUS
  <2>2. /\ s \in Struct /\ q \in 0 .. QUEUES - 1 /\ qcall[p].struct = s
        /\ qcall[p].read = shadow
        /\ ClosedTo(shadow, s, q) /\ ClosedTo(closed[s.base], s, q)
        /\ snap[p] # NoSnap => FromSnap(s, snap[p])
    BY <1>4, <1>5, <1>6, <2>1, RecordOf DEF Setting
  <2>3. shadow' = IF Closes(s, q) THEN shadow \cup {<<s.channel, q>>} ELSE shadow \ {<<s.channel, q>>}
    BY <1>4, <2>1, <2>2, RecordOf DEF Recorded
  <2>4. ClosedTo(shadow', s, q) /\ ClosedTo(shadow', s, q + 1)
    <3>1. \A x \in Queue : x < q + 1 <=> x < q \/ x = q
      BY <2>2, RecordOf DEF Queue
    <3>2. \A x \in Queue : x < q => x # q
      BY <2>2, RecordOf DEF Queue
    <3>3. \A x \in Queue : x # q => (<<s.channel, x>> \in shadow' <=> <<s.channel, x>> \in shadow)
      BY <2>3
    <3>4. <<s.channel, q>> \in shadow' <=> Closes(s, q)
      BY <2>3
    <3> QED
      BY <2>2, <3>1, <3>2, <3>3, <3>4 DEF ClosedTo
  <2>5. ClosedTo(closed'[s.base], s, q)
    BY <1>4, <2>2
  <2> QED
    BY <1>2, <1>4, <1>6, <2>1, <2>2, <2>4, <2>5 DEF Setting, Getting, ClosedTo, Closes
<1> QED
  BY <1>1, <1>2, <1>3, <1>4, <1>6, StepKeeps

(* The register takes the copy, own channel and all others.                *)
LEMMA WriteCloseKeeps == ASSUME QosInv, NEW p \in Caller, WriteClose(p) PROVE QosInv'
<1> DEFINE ones == [q \in Queue |-> IF qcall[p].struct.weight[q] = 0 THEN 1
                                   ELSE qcall[p].struct.weight[q]]
           last == [qcall[p] EXCEPT !.read = {}, !.pc = "weight", !.q = 0, !.struct.weight = ones]
           more == [qcall[p] EXCEPT !.read = {}, !.pc = "read", !.q = @ + 1]
<1>1. qcall[p] \in CallRecord /\ qcall[p].struct \in Struct
  BY RecordOf
<1>2. ones \in [Queue -> Weight]
  BY <1>1, QosAssumption DEF Struct
<1>3. /\ last \in CallRecord /\ last.pc = "weight" /\ last.q = 0 /\ last.struct.weight = ones
      /\ SameButWeight(last.struct, qcall[p].struct) /\ last.asked = qcall[p].asked
  <2> HIDE DEF ones
  <2>1. [qcall[p].struct EXCEPT !.weight = ones] \in Struct
    BY <1>1, <1>2 DEF Struct
  <2>2. SameButWeight([qcall[p].struct EXCEPT !.weight = ones], qcall[p].struct)
    BY <1>1 DEF Struct, SameButWeight
  <2>3. [qcall[p].struct EXCEPT !.weight = ones].weight = ones
    BY <1>1 DEF Struct
  <2>4. last = [qcall[p] EXCEPT !.read = {}, !.pc = "weight", !.q = 0,
                               !.struct = [qcall[p].struct EXCEPT !.weight = ones]]
    BY <1>1 DEF CallRecord
  <2> QED
    BY <1>1, <2>1, <2>2, <2>3, <2>4, QosConstants DEF CallRecord, Cqs, Pc
<1>4. ~IsLast(p) => /\ more \in CallRecord /\ more.pc = "read" /\ more.q = qcall[p].q + 1
                    /\ more.struct = qcall[p].struct /\ more.asked = qcall[p].asked
  <2>1. ~IsLast(p) => qcall[p].q + 1 \in Queue
    BY RecordOf DEF IsLast, Queue
  <2>2. more = [qcall[p] EXCEPT !.read = {}, !.pc = "read", !.q = qcall[p].q + 1]
    BY <1>1 DEF CallRecord
  <2> QED
    BY <1>1, <2>1, <2>2 DEF CallRecord, Cqs, Pc
<1>5. qcall' = [qcall EXCEPT ![p] = IF IsLast(p) THEN last ELSE more]
  <2>1. p \in DOMAIN qcall
    BY DEF QosInv, QosTypeOK
  <2>2. IsLast(p) => qcall' = [qcall EXCEPT ![p] = last]
    BY <1>1, <2>1 DEF WriteClose, CallRecord, Struct
  <2>3. ~IsLast(p) => qcall' = [qcall EXCEPT ![p] = more]
    BY <1>1, <2>1 DEF WriteClose, CallRecord
  <2> QED
    BY <2>2, <2>3
<1> HIDE DEF ones, last, more
<1>6. PICK value \in RegisterValue(p) : closed' = [closed EXCEPT ![qcall[p].struct.base] = value]
  BY DEF WriteClose
<1>7. /\ UNCHANGED <<shadow, wrr, wrrReg, mode, qoverlap, qresult, snap>>
      /\ qcall[p].pc = "write" /\ ~At(p, "idle")
  BY DEF WriteClose, At
<1>8. value \in Cqs /\ HwType'
  BY <1>1, <1>6, <1>7 DEF RegisterValue, QosInv, QosTypeOK, HwType, CallRecord
<1>9. ~qoverlap => Setting(p)
  BY <1>7 DEF QosInv, SoloInv
<1>10. ASSUME ~qoverlap, qcall'[p] = IF IsLast(p) THEN last ELSE more
       PROVE  Setting(p)' /\ Getting(p)'
  <2>1. PICK s, q : s = qcall[p].asked /\ q = qcall[p].q
    OBVIOUS
  <2>2. /\ s \in Struct /\ q \in 0 .. QUEUES - 1 /\ qcall[p].struct = s
        /\ value = shadow /\ ClosedTo(shadow, s, q + 1)
        /\ snap[p] # NoSnap => FromSnap(s, snap[p])
    BY <1>6, <1>7, <1>9, <1>10, <2>1, RecordOf DEF Setting, RegisterValue
  <2>3. closed'[s.base] = shadow
    BY <1>6, <2>2, RecordOf DEF QosInv, QosTypeOK
  <2>4. CASE IsLast(p)
    <3>1. q + 1 = QUEUES
      BY <2>1, <2>2, <2>4, RecordOf DEF IsLast
    <3>2. \A x \in Queue : ~(x < 0)
      BY DEF Queue
    <3>4. ClosedTo(closed'[s.base], s, QUEUES)
      BY <2>2, <2>3, <3>1
    <3>5. SameButWeight(qcall'[p].struct, s) /\ qcall'[p].asked = s /\ qcall'[p].struct.weight = ones
      BY <1>3, <1>10, <2>1, <2>2, <2>4
    <3>6. qcall'[p].pc = "weight" /\ qcall'[p].q = 0
      BY <1>3, <1>10, <2>4
    <3>7. ones = [x \in Queue |-> IF s.weight[x] = 0 THEN 1 ELSE s.weight[x]]
      BY <2>2 DEF ones
    <3>8. WeighedTo(qcall[p].asked, qcall[p].q)'
      BY <3>2, <3>6 DEF WeighedTo
    <3>9. snap'[p] # NoSnap => FromSnap(s, snap'[p])
      BY <1>7, <2>2
    <3>10. Setting(p)'
      BY <3>4, <3>5, <3>6, <3>7, <3>8, <3>9 DEF Setting, SameButWeight
    <3> QED
      BY <3>6, <3>10 DEF Getting
  <2>5. CASE ~IsLast(p)
    BY <1>4, <1>7, <1>10, <2>1, <2>2, <2>3, <2>5 DEF Setting, Getting, ClosedTo, Closes
  <2> QED
    BY <2>4, <2>5
<1>11. CASE IsLast(p)
  BY <1>3, <1>5, <1>7, <1>8, <1>10, <1>11, StepKeeps
<1>12. CASE ~IsLast(p)
  BY <1>4, <1>5, <1>7, <1>8, <1>10, <1>12, StepKeeps
<1> QED
  BY <1>11, <1>12

(* A weight below the hardware's range is kept, one beyond it is cut, and  *)
(* both times the result is one the register can hold.                     *)
LEMMA FitsTheField ==
    /\ \A w \in Weight : w % WEIGHT_RANGE \in HwWeight /\ InHw(w) \in HwWeight
    /\ \A w \in HwWeight : w % WEIGHT_RANGE = w /\ w \in Weight
    /\ \A w \in Weight : (IF w = 0 THEN 1 ELSE w) % WEIGHT_RANGE = InHw(w)
<1>1. \A w \in Nat : w % 256 \in 0 .. 255
  OBVIOUS
<1>2. \A w \in 0 .. 255 : w % 256 = w
  OBVIOUS
<1>3. 1 % 256 = 1
  BY <1>2
<1>4. Weight \subseteq Nat /\ {0, 1} \subseteq Weight /\ \A w \in Weight : w % 256 \in Weight
  BY QosAssumption DEF WEIGHT_RANGE
<1>5. \A w \in Weight : w % 256 \in HwWeight
  BY DEF HwWeight, WEIGHT_RANGE
<1>6. \A w \in HwWeight : w \in 0 .. 255 /\ w \in Weight
  BY <1>1, <1>4 DEF HwWeight, WEIGHT_RANGE
<1>7. 1 \in HwWeight
  BY <1>3, <1>4, <1>5
<1> QED
  BY <1>1, <1>2, <1>3, <1>4, <1>5, <1>6, <1>7 DEF InHw, WEIGHT_RANGE

(* What the weight command puts in the hardware fits its registers. *)
LEMMA PutWeightFits ==
    ASSUME QosInv, NEW p \in Caller, PutWeight(p), UNCHANGED <<shadow, closed, mode>>
    PROVE  HwType'
<1> DEFINE b == qcall[p].struct.base
           w == qcall[p].struct.weight[qcall[p].q] % WEIGHT_RANGE
<1>1. b \in Base /\ qcall[p].q \in Queue /\ w \in HwWeight
  BY RecordOf, FitsTheField DEF Struct
<1>2. wrr' = [wrr EXCEPT ![b][Here(p)] = w] /\ wrrReg' = [wrrReg EXCEPT ![b] = w]
  BY DEF PutWeight
<1>3. Here(p) \in Channel \X Queue
  BY RecordOf
<1> HIDE DEF b, w
<1>4. UNCHANGED <<shadow, closed, mode>> => HwType'
  BY <1>1, <1>2, <1>3 DEF QosInv, QosTypeOK, HwType
<1> QED
  BY <1>4

LEMMA SetWeightKeeps == ASSUME QosInv, NEW p \in Caller, SetWeight(p) PROVE QosInv'
<1> DEFINE last == [qcall[p] EXCEPT !.pc = "rdMode", !.q = 0]
           more == [qcall[p] EXCEPT !.q = qcall[p].q + 1]
           b == qcall[p].struct.base
           w == qcall[p].struct.weight[qcall[p].q] % WEIGHT_RANGE
<1>1. qcall[p] \in CallRecord /\ b \in Base /\ qcall[p].q \in Queue
  BY RecordOf DEF CallRecord
<1>2. w \in HwWeight
  BY <1>1, RecordOf, FitsTheField DEF Struct
<1>3. /\ last \in CallRecord /\ last.pc = "rdMode" /\ last.q = 0 /\ last.struct = qcall[p].struct
      /\ last.asked = qcall[p].asked
  BY <1>1, QosConstants DEF CallRecord, Pc
<1>4. ~IsLast(p) => /\ more \in CallRecord /\ more.pc = qcall[p].pc /\ more.q = qcall[p].q + 1
                    /\ more.struct = qcall[p].struct /\ more.asked = qcall[p].asked
  <2>1. ~IsLast(p) => qcall[p].q + 1 \in Queue
    BY RecordOf DEF IsLast, Queue
  <2> QED
    BY <1>1, <2>1 DEF CallRecord
<1>5. qcall' = [qcall EXCEPT ![p] = IF IsLast(p) THEN last ELSE more]
  BY <1>1 DEF SetWeight, QosInv, QosTypeOK, CallRecord
<1>6. /\ wrr' = [wrr EXCEPT ![b][Here(p)] = w] /\ wrrReg' = [wrrReg EXCEPT ![b] = w]
      /\ UNCHANGED <<shadow, closed, mode, qoverlap, qresult, snap>>
      /\ qcall[p].pc = "weight" /\ ~At(p, "idle")
  BY DEF SetWeight, PutWeight, At
<1> HIDE DEF last, more, b, w
<1>7. HwType'
  BY <1>1, <1>2, <1>6, RecordOf DEF QosInv, QosTypeOK, HwType
<1>8. ~qoverlap => Setting(p)
  BY <1>6 DEF QosInv, SoloInv
<1>9. ASSUME ~qoverlap, qcall'[p] = IF IsLast(p) THEN last ELSE more
      PROVE  Setting(p)' /\ Getting(p)'
  <2>1. PICK s, q : s = qcall[p].asked /\ q = qcall[p].q
    OBVIOUS
  <2>2. /\ s \in Struct /\ q \in 0 .. QUEUES - 1 /\ q \in Queue /\ SameButWeight(qcall[p].struct, s)
        /\ qcall[p].struct.weight = [x \in Queue |-> IF s.weight[x] = 0 THEN 1 ELSE s.weight[x]]
        /\ ClosedTo(closed[s.base], s, QUEUES) /\ WeighedTo(s, q)
        /\ snap[p] # NoSnap => FromSnap(s, snap[p])
    BY <1>1, <1>6, <1>8, <1>9, <2>1, RecordOf DEF Setting
  <2>3. s.base = b /\ s.base \in Base /\ s.channel \in Channel /\ Here(p) = <<s.channel, q>>
        /\ s.weight \in [Queue -> Weight]
    BY <2>1, <2>2, RecordOf DEF SameButWeight, b, Struct
  <2>4. w = InHw(s.weight[q])
    BY <2>1, <2>2, <2>3, FitsTheField DEF w
  <2>5. \A x \in Queue : wrr'[s.base][<<s.channel, x>>] =
                            IF x = q THEN InHw(s.weight[q]) ELSE wrr[s.base][<<s.channel, x>>]
    BY <1>6, <2>2, <2>3, <2>4 DEF QosInv, QosTypeOK
  <2>6. \A x \in Queue : x < q + 1 => x = q \/ x < q
    BY <2>2 DEF Queue
  <2>7. \A x \in Queue : x < q + 1 => wrr'[s.base][<<s.channel, x>>] = InHw(s.weight[x])
    BY <2>2, <2>5, <2>6 DEF WeighedTo
  <2>8. qcall'[p].struct = qcall[p].struct /\ qcall'[p].asked = s
    BY <1>3, <1>4, <1>9, <2>1
  <2>9. ClosedTo(closed'[s.base], s, QUEUES) /\ (snap'[p] # NoSnap => FromSnap(s, snap'[p]))
    BY <1>6, <2>2
  <2>10. CASE IsLast(p)
    <3>1. QUEUES = q + 1 /\ qcall'[p].pc = "rdMode"
      BY <1>3, <1>9, <2>1, <2>2, <2>10, RecordOf DEF IsLast
    <3>2. WeighedTo(qcall[p].asked, QUEUES)'
      BY <2>7, <2>8, <3>1 DEF WeighedTo
    <3>3. Setting(p)'
      BY <2>2, <2>8, <2>9, <3>1, <3>2 DEF Setting, SameButWeight
    <3> QED
      BY <3>1, <3>3 DEF Getting
  <2>11. CASE ~IsLast(p)
    <3>1. qcall'[p].q = q + 1 /\ qcall'[p].pc = "weight"
      BY <1>4, <1>6, <1>9, <2>1, <2>11
    <3>2. WeighedTo(qcall[p].asked, qcall[p].q)'
      BY <2>7, <2>8, <3>1 DEF WeighedTo
    <3>3. Setting(p)'
      BY <2>2, <2>8, <2>9, <3>1, <3>2 DEF Setting, SameButWeight
    <3> QED
      BY <3>1, <3>3 DEF Getting
  <2> QED
    BY <2>10, <2>11
<1>10. CASE IsLast(p)
  BY <1>3, <1>5, <1>6, <1>7, <1>9, <1>10, StepKeeps
<1>11. CASE ~IsLast(p)
  BY <1>4, <1>5, <1>6, <1>7, <1>9, <1>11, StepKeeps
<1> QED
  BY <1>10, <1>11

LEMMA SetTimeoutKeeps == ASSUME QosInv, NEW p \in Caller, SetTimeout(p) PROVE QosInv'
<1> DEFINE rec == [qcall[p] EXCEPT !.pc = "idle", !.q = 0, !.modes = NoModes, !.asked = NoStruct]
<1>1. qcall[p] \in CallRecord
  BY RecordOf
<1>2. rec \in CallRecord /\ rec.pc = "idle" /\ rec.q = 0
  BY <1>1, QosConstants DEF CallRecord, Pc
<1>3. qcall' = [qcall EXCEPT ![p] = rec] /\ qresult' = [qresult EXCEPT ![p] = "ETIME"]
  BY <1>1 DEF SetTimeout, NoAnswer, Finish, QosInv, QosTypeOK, CallRecord
<1>4. /\ UNCHANGED <<shadow, closed, mode, qoverlap, snap>> /\ ~At(p, "idle")
      /\ snap' \in [Caller -> SnapRecord]
  BY DEF SetTimeout, At, QosInv, QosTypeOK
<1>5. HwType'
  <2>1. CASE PutWeight(p)
    BY <1>4, <2>1, PutWeightFits
  <2>2. CASE UNCHANGED <<wrr, wrrReg>>
    BY <1>4, <2>2 DEF QosInv, QosTypeOK, HwType
  <2> QED
    BY <2>1, <2>2 DEF SetTimeout
<1> HIDE DEF rec
<1> QED
  BY <1>2, <1>3, <1>4, <1>5, EndKeeps

LEMMA ReadModeKeeps == ASSUME QosInv, NEW p \in Caller, ReadMode(p) PROVE QosInv'
<1> DEFINE rec == [qcall[p] EXCEPT !.modes = mode[qcall[p].struct.base], !.pc = "wrMode"]
<1>1. qcall[p] \in CallRecord /\ mode[qcall[p].struct.base] \in [Channel -> QosType]
  BY RecordOf DEF QosInv, QosTypeOK
<1>2. /\ UNCHANGED <<shadow, closed, wrr, wrrReg, mode, qoverlap, qresult, snap>> /\ ~At(p, "idle")
      /\ qcall[p].pc = "rdMode" /\ qcall[p].q = 0 /\ HwType'
  BY DEF ReadMode, qhw, At, QosInv, QosTypeOK, HwType, StartsAtZero
<1>3. /\ rec \in CallRecord /\ rec.pc = "wrMode" /\ rec.q = 0 /\ rec.struct = qcall[p].struct
      /\ rec.asked = qcall[p].asked /\ rec.modes = mode[qcall[p].struct.base]
  BY <1>1, <1>2 DEF CallRecord, Pc
<1>4. qcall' = [qcall EXCEPT ![p] = rec]
  BY DEF ReadMode
<1> HIDE DEF rec
<1>5. ASSUME ~qoverlap, qcall'[p] = rec
      PROVE  Setting(p)' /\ Getting(p)'
  <2>1. PICK s : s = qcall[p].asked
    OBVIOUS
  <2>2. /\ SameButWeight(qcall[p].struct, s) /\ ClosedTo(closed[s.base], s, QUEUES)
        /\ WeighedTo(s, QUEUES) /\ (snap[p] # NoSnap => FromSnap(s, snap[p]))
    BY <1>2, <1>5, <2>1 DEF QosInv, SoloInv, Setting
  <2>3. rec.modes = mode'[s.base] /\ SameButWeight(rec.struct, s) /\ rec.asked = s
    BY <1>2, <1>3, <2>1, <2>2 DEF SameButWeight
  <2>4. ClosedTo(closed'[s.base], s, QUEUES) /\ (snap'[p] # NoSnap => FromSnap(s, snap'[p]))
    BY <1>2, <2>2
  <2>5. WeighedTo(qcall[p].asked, QUEUES)'
    BY <1>2, <1>5, <2>2, <2>3 DEF WeighedTo
  <2> QED
    BY <1>3, <1>5, <2>3, <2>4, <2>5 DEF Setting, Getting, SameButWeight
<1> QED
  BY <1>2, <1>3, <1>4, <1>5, StepKeeps

LEMMA WriteModeKeeps == ASSUME QosInv, NEW p \in Caller, WriteMode(p) PROVE QosInv'
<1> DEFINE rec == [qcall[p] EXCEPT !.pc = "idle", !.q = 0, !.modes = NoModes]
<1>1. qcall[p] \in CallRecord /\ qcall[p].modes \in [Channel -> QosType]
  BY RecordOf DEF CallRecord
<1>2. /\ UNCHANGED <<shadow, closed, wrr, wrrReg, qoverlap, snap>> /\ ~At(p, "idle")
      /\ qcall[p].pc = "wrMode" /\ snap' \in [Caller -> SnapRecord]
      /\ mode' = [mode EXCEPT ![qcall[p].struct.base] =
                       [qcall[p].modes EXCEPT ![qcall[p].struct.channel] = qcall[p].struct.type]]
  BY DEF WriteMode, At, QosInv, QosTypeOK
<1>3. rec \in CallRecord /\ rec.pc = "idle" /\ rec.q = 0 /\ rec.asked = qcall[p].asked
  BY <1>1, QosConstants DEF CallRecord, Pc
<1>4. qcall' = [qcall EXCEPT ![p] = rec] /\ qresult' = [qresult EXCEPT ![p] = "set"]
  BY <1>1 DEF WriteMode, Finish, QosInv, QosTypeOK, CallRecord
<1> HIDE DEF rec
<1>5. HwType'
  BY <1>1, <1>2, RecordOf DEF QosInv, QosTypeOK, HwType
<1>6. ASSUME ~qoverlap, qcall'[p] = rec
      PROVE  /\ Holds(qcall[p].asked)'
             /\ snap'[p] # NoSnap => FromSnap(rec.asked, snap'[p])
  <2>1. PICK s : s = qcall[p].asked
    OBVIOUS
  <2>2. /\ SameButWeight(qcall[p].struct, s) /\ ClosedTo(closed[s.base], s, QUEUES)
        /\ WeighedTo(s, QUEUES) /\ (snap[p] # NoSnap => FromSnap(s, snap[p]))
    BY <1>2, <1>6, <2>1 DEF QosInv, SoloInv, Setting
  <2>3. mode'[s.base][s.channel] = s.type /\ qcall'[p].asked = s
    BY <1>1, <1>2, <1>3, <1>6, <2>1, <2>2, RecordOf DEF SameButWeight, QosInv, QosTypeOK
  <2>4. ClosedTo(closed'[s.base], s, QUEUES) /\ (snap'[p] # NoSnap => FromSnap(s, snap'[p]))
    BY <1>2, <2>2
  <2>5. WeighedTo(qcall[p].asked, QUEUES)'
    BY <1>2, <2>2, <2>3 DEF WeighedTo
  <2> QED
    BY <1>3, <2>1, <2>3, <2>4, <2>5 DEF Holds
<1> QED
  BY <1>2, <1>3, <1>4, <1>5, <1>6, EndKeeps

-----------------------------------------------------------------------------
LEMMA GetModeKeeps == ASSUME QosInv, NEW p \in Caller, GetMode(p) PROVE QosInv'
<1> DEFINE read == [qcall[p].struct EXCEPT !.type = mode[qcall[p].struct.base][qcall[p].struct.channel]]
           rec == [qcall[p] EXCEPT !.struct = read, !.pc = "ask"]
<1>1. qcall[p] \in CallRecord /\ qcall[p].struct \in Struct
  BY RecordOf
<1>2. /\ UNCHANGED <<shadow, closed, wrr, wrrReg, mode, qoverlap, qresult, snap>> /\ ~At(p, "idle")
      /\ qcall[p].pc = "getMode" /\ qcall[p].q = 0 /\ HwType'
  BY DEF GetMode, qhw, At, QosInv, QosTypeOK, HwType, StartsAtZero
<1>3. mode[qcall[p].struct.base][qcall[p].struct.channel] \in QosType
  BY RecordOf DEF QosInv, QosTypeOK
<1>4. /\ read \in Struct /\ read.type = mode[read.base][read.channel]
  BY <1>1, <1>3 DEF Struct
<1>5. rec \in CallRecord /\ rec.pc = "ask" /\ rec.q = 0 /\ rec.struct = read
  <2> HIDE DEF read
  <2> QED
    BY <1>1, <1>2, <1>4 DEF CallRecord, Pc
<1>6. qcall' = [qcall EXCEPT ![p] = rec]
  BY <1>1 DEF GetMode, QosInv, QosTypeOK, CallRecord
<1> HIDE DEF read, rec
<1>7. qcall'[p] = rec => Setting(p)' /\ Getting(p)'
  <2>1. \A q \in Queue : ~(q < 0)
    BY DEF Queue
  <2> QED
    BY <1>2, <1>4, <1>5, <2>1 DEF Setting, Getting
<1> QED
  BY <1>2, <1>5, <1>6, <1>7, StepKeeps

LEMMA AskWeightKeeps == ASSUME QosInv, NEW p \in Caller, Ask(p) PROVE QosInv'
<1> DEFINE rec == [qcall[p] EXCEPT !.pc = "answer"]
           b == qcall[p].struct.base
<1>1. qcall[p] \in CallRecord /\ b \in Base /\ Here(p) \in Channel \X Queue
  BY RecordOf
<1>2. /\ UNCHANGED <<shadow, closed, wrr, mode, qoverlap, qresult, snap>> /\ ~At(p, "idle")
      /\ qcall[p].pc = "ask" /\ wrrReg' = [wrrReg EXCEPT ![b] = wrr[b][Here(p)]]
  BY DEF Ask, ShowWeight, At
<1>3. rec \in CallRecord /\ rec.pc = "answer" /\ rec.q = qcall[p].q /\ rec.struct = qcall[p].struct
  BY <1>1 DEF CallRecord, Pc
<1>4. qcall' = [qcall EXCEPT ![p] = rec]
  BY DEF Ask, Goto
<1> HIDE DEF rec, b
<1>5. wrr[b][Here(p)] \in HwWeight /\ wrrReg' \in [Base -> HwWeight]
  BY <1>1, <1>2 DEF QosInv, QosTypeOK
<1>6. HwType'
  BY <1>2, <1>5 DEF QosInv, QosTypeOK, HwType
<1>7. ~qoverlap /\ qcall'[p] = rec => Setting(p)' /\ Getting(p)'
  <2>1. wrrReg'[b] = wrr[b][Here(p)]
    BY <1>1, <1>2 DEF QosInv, QosTypeOK
  <2> QED
    <3>1. Here(p) = <<qcall[p].struct.channel, qcall[p].q>>
      BY RecordOf
    <3>2. ~qoverlap => Getting(p)
      BY <1>2 DEF QosInv, SoloInv
    <3> QED
      BY <1>2, <1>3, <2>1, <3>1, <3>2 DEF Setting, Getting, b
<1> QED
  BY <1>2, <1>3, <1>4, <1>6, <1>7, StepKeeps

LEMMA AskTimeoutKeeps == ASSUME QosInv, NEW p \in Caller, AskTimeout(p) PROVE QosInv'
<1> DEFINE rec == [qcall[p] EXCEPT !.pc = "idle", !.q = 0, !.asked = NoStruct, !.struct = qcall[p].asked]
<1>1. qcall[p] \in CallRecord /\ qcall[p].asked \in Struct
  BY RecordOf
<1>2. rec \in CallRecord /\ rec.pc = "idle" /\ rec.q = 0
  BY <1>1, QosConstants DEF CallRecord, Pc
<1>3. qcall' = [qcall EXCEPT ![p] = rec] /\ qresult' = [qresult EXCEPT ![p] = "ETIME"]
  BY <1>1 DEF AskTimeout, QosInv, QosTypeOK, CallRecord
<1>4. /\ UNCHANGED <<shadow, closed, wrr, mode, qoverlap, snap>> /\ ~At(p, "idle")
      /\ snap' \in [Caller -> SnapRecord] /\ (ShowWeight(p) \/ UNCHANGED wrrReg)
  BY DEF AskTimeout, At, QosInv, QosTypeOK
<1>5. wrrReg' \in [Base -> HwWeight]
  <2>1. qcall[p].struct.base \in Base /\ Here(p) \in Channel \X Queue
    BY RecordOf
  <2> HIDE DEF rec
  <2> QED
    <3>1. wrrReg \in [Base -> HwWeight] /\ wrr \in [Base -> [Channel \X Queue -> HwWeight]]
      BY DEF QosInv, QosTypeOK
    <3>2. wrr[qcall[p].struct.base][Here(p)] \in HwWeight
      BY <2>1, <3>1
    <3> QED
      BY <1>4, <2>1, <3>1, <3>2 DEF ShowWeight
<1>6. HwType'
  BY <1>4, <1>5 DEF QosInv, QosTypeOK, HwType
<1> HIDE DEF rec
<1> QED
  BY <1>2, <1>3, <1>4, <1>6, EndKeeps

(* The last answer completes the struct; where the copy told the truth of  *)
(* the channel, the struct is what FromSnap says.                          *)
LEMMA AnswerKeeps == ASSUME QosInv, NEW p \in Caller, Answer(p) PROVE QosInv'
<1> DEFINE s == qcall[p].struct
           weight == [s.weight EXCEPT ![qcall[p].q] = wrrReg[s.base]]
           ended == [s EXCEPT !.weight = Told(p, weight)]
           partly == [s EXCEPT !.weight = weight]
           last == [qcall[p] EXCEPT !.pc = "idle", !.q = 0, !.asked = NoStruct, !.struct = ended]
           more == [qcall[p] EXCEPT !.pc = "ask", !.q = qcall[p].q + 1, !.struct = partly]
<1>1. qcall[p] \in CallRecord /\ s \in Struct /\ qcall[p].q \in Queue /\ s.base \in Base /\ s.channel \in Channel
  BY RecordOf DEF CallRecord
<1>2. HwWeight \subseteq Weight /\ 0 \in Weight
  BY FitsTheField, QosAssumption
<1>3. /\ UNCHANGED <<shadow, closed, wrr, wrrReg, mode, qoverlap>> /\ ~At(p, "idle")
      /\ qcall[p].pc = "answer" /\ HwType'
  BY DEF Answer, qhw, At, QosInv, QosTypeOK, HwType
<1>4. wrrReg[s.base] \in HwWeight
  BY <1>1 DEF QosInv, QosTypeOK
<1>5. weight \in [Queue -> Weight]
  BY <1>1, <1>2, <1>4 DEF Struct
<1>6. Told(p, weight) \in [Queue -> Weight]
  BY <1>2, <1>5 DEF Told
<1>7. /\ ended \in Struct /\ ended.type = s.type /\ ended.weight = Told(p, weight)
      /\ partly \in Struct /\ partly.weight = weight
      /\ partly.base = s.base /\ partly.channel = s.channel /\ partly.type = s.type
  <2> HIDE DEF weight
  <2> QED
    BY <1>1, <1>5, <1>6 DEF Struct
<1>8. last \in CallRecord /\ last.pc = "idle" /\ last.q = 0 /\ last.struct = ended
  <2> HIDE DEF ended
  <2> QED
    BY <1>1, <1>7, QosConstants DEF CallRecord, Pc
<1>9. ~IsLast(p) => /\ more \in CallRecord /\ more.pc = "ask" /\ more.q = qcall[p].q + 1
                    /\ more.struct = partly
  <2>1. ~IsLast(p) => qcall[p].q + 1 \in Queue
    BY RecordOf DEF IsLast, Queue
  <2> HIDE DEF partly
  <2> QED
    BY <1>1, <1>7, <2>1 DEF CallRecord, Pc
<1>10. ~qoverlap => /\ s.type = mode[s.base][s.channel]
                    /\ \A x \in Queue : x < qcall[p].q => s.weight[x] = wrr[s.base][<<s.channel, x>>]
                    /\ wrrReg[s.base] = wrr[s.base][<<s.channel, qcall[p].q>>]
  BY <1>3 DEF QosInv, SoloInv, Getting
<1>11. ~qoverlap => \A x \in Queue : x < qcall[p].q + 1 => weight[x] = wrr[s.base][<<s.channel, x>>]
  <2>1. \A x \in Queue : x < qcall[p].q + 1 => x < qcall[p].q \/ x = qcall[p].q
    BY RecordOf DEF Queue
  <2>2. \A x \in Queue : weight[x] = IF x = qcall[p].q THEN wrrReg[s.base] ELSE s.weight[x]
    BY <1>1 DEF Struct
  <2> HIDE DEF weight
  <2> QED
    BY <1>10, <2>1, <2>2
<1>12. CASE ~IsLast(p)
  <2>1. qcall' = [qcall EXCEPT ![p] = more] /\ UNCHANGED <<qresult, snap>>
    <3>1. qcall' = [qcall EXCEPT ![p].pc = "ask", ![p].q = @ + 1, ![p].struct.weight = weight]
          /\ UNCHANGED <<qresult, snap>>
      BY <1>12 DEF Answer
    <3> HIDE DEF weight
    <3> QED
      BY <1>1, <3>1 DEF QosInv, QosTypeOK, CallRecord, Struct
  <2> HIDE DEF weight, partly, more, s
  <2>2. ~qoverlap /\ qcall'[p] = more => Setting(p)' /\ Getting(p)'
    BY <1>3, <1>7, <1>9, <1>10, <1>11, <1>12 DEF Setting, Getting
  <2> QED
    BY <1>3, <1>9, <1>12, <2>1, <2>2, StepKeeps
<1>13. CASE IsLast(p)
  <2> DEFINE seen == IF AsRecorded(s.base, s.channel) THEN Channels(s.base, s.channel) ELSE NoSnap
  <2>1. /\ qcall' = [qcall EXCEPT ![p] = last] /\ qresult' = [qresult EXCEPT ![p] = "get"]
        /\ snap' = [snap EXCEPT ![p] = seen]
    <3>1. /\ qcall' = [qcall EXCEPT ![p].pc = "idle", ![p].q = 0, ![p].asked = NoStruct,
                                   ![p].struct.weight = Told(p, weight)]
          /\ qresult' = [qresult EXCEPT ![p] = "get"] /\ snap' = [snap EXCEPT ![p] = seen]
      BY <1>13 DEF Answer
    <3> HIDE DEF weight
    <3> QED
      BY <1>1, <3>1 DEF QosInv, QosTypeOK, CallRecord, Struct
  <2> DEFINE f == [q \in Queue |-> wrr[s.base][<<s.channel, q>>]]
  <2>2. f \in [Queue -> HwWeight]
    BY <1>1 DEF QosInv, QosTypeOK
  <2>3. Channels(s.base, s.channel).wrr = {<<q, f[q]>> : q \in Queue}
    BY DEF Channels
  <2>4. seen \in SnapRecord
    <3>1. mode[s.base][s.channel] \in QosType
      BY <1>1 DEF QosInv, QosTypeOK
    <3>2. {<<q, f[q]>> : q \in Queue} \in SUBSET (Queue \X HwWeight)
      <4> HIDE DEF f
      <4> QED
        BY <2>2
    <3>3. Channels(s.base, s.channel) \in SnapRecord
      BY <2>3, <3>1, <3>2 DEF Channels, SnapRecord
    <3> QED
      BY <3>3, NoSnapType
  <2>5. snap' \in [Caller -> SnapRecord] /\ snap'[p] = seen
    <3> HIDE DEF seen
    <3> QED
      BY <2>1, <2>4 DEF QosInv, QosTypeOK
  <2>6. ASSUME ~qoverlap, seen # NoSnap
        PROVE  FromSnap(ended, seen)
    <3>1. seen = Channels(s.base, s.channel) /\ AsRecorded(s.base, s.channel)
      BY <2>6
    <3>2. \A q \in Queue : q < qcall[p].q + 1
      BY <1>13, RecordOf DEF IsLast, Queue
    <3>3. \A q \in Queue : weight[q] = f[q]
      BY <1>11, <2>6, <3>2
    <3>4. \A q \in Queue : q \in seen.closed <=> <<s.channel, q>> \in shadow
      BY <3>1 DEF Channels, AsRecorded
    <3>5. \A q \in Queue : ended.weight[q] = IF f[q] = 1 /\ q \in seen.closed THEN 0 ELSE f[q]
      <4> HIDE DEF f, weight, seen, ended
      <4> QED
        BY <1>7, <3>3, <3>4 DEF Told
    <3>6. ended.type = seen.mode
      BY <1>7, <1>10, <2>6, <3>1 DEF Channels
    <3>7. seen.wrr = {<<q, f[q]>> : q \in Queue}
      BY <2>3, <3>1
    <3> HIDE DEF f, weight, seen, ended
    <3> QED
      BY <2>2, <3>5, <3>6, <3>7 DEF FromSnap
  <2> HIDE DEF weight, ended, last, s, seen
  <2> QED
    BY <1>3, <1>8, <2>1, <2>5, <2>6, EndKeeps
<1> QED
  BY <1>12, <1>13

-----------------------------------------------------------------------------
LEMMA QosInvInit == QosInit => QosInv
<1> SUFFICES ASSUME QosInit
             PROVE  QosInv
  OBVIOUS
<1>1. 0 \in HwWeight /\ 1 \in HwWeight
  BY FitsTheField, QosAssumption DEF WEIGHT_RANGE, HwWeight
<1>2. QosTypeOK
  BY <1>1, QosConstants, NoSnapType DEF QosInit, QosTypeOK, CallRecord, Cqs, Pc
<1>3. StartsAtZero /\ SoloInv
  BY DEF QosInit, StartsAtZero, SoloInv, At
<1> QED
  BY <1>2, <1>3 DEF QosInv

LEMMA QosInvStep == QosInv /\ [QosNext]_qosVars => QosInv'
<1> SUFFICES ASSUME QosInv, [QosNext]_qosVars
             PROVE  QosInv'
  OBVIOUS
<1>1. ASSUME NEW p \in Caller, QosStep(p)
      PROVE  QosInv'
  BY <1>1, CallSetKeeps, CallSetAgainKeeps, ReadShadowKeeps, RecordShadowKeeps, WriteCloseKeeps,
     SetWeightKeeps, SetTimeoutKeeps, ReadModeKeeps, WriteModeKeeps, CallGetKeeps, GetModeKeeps,
     AskWeightKeeps, AskTimeoutKeeps, AnswerKeeps DEF QosStep
<1>2. CASE UNCHANGED qosVars
  <2>1. UNCHANGED <<shadow, closed, wrr, wrrReg, mode, qcall, qoverlap, qresult, snap>>
    BY <1>2 DEF qosVars, qhw
  <2>2. \A p \in Caller : Setting(p) /\ Getting(p) => Setting(p)' /\ Getting(p)'
    <3> SUFFICES ASSUME NEW p \in Caller, Setting(p), Getting(p)
                 PROVE  Setting(p)' /\ Getting(p)'
      OBVIOUS
    <3>1. \A s, n : WeighedTo(s, n) <=> WeighedTo(s, n)'
      BY <2>1 DEF WeighedTo
    <3>2. PICK c, s : c = qcall[p] /\ s = qcall[p].asked
      OBVIOUS
    <3>3. c = qcall'[p] /\ s = qcall'[p].asked
      BY <2>1, <3>2
    <3>4. (c.pc = "weight" => WeighedTo(s, c.q)') /\ (c.pc \in {"rdMode", "wrMode"} => WeighedTo(s, QUEUES)')
      BY <3>1, <3>2 DEF Setting
    <3>5. (c.pc = "weight" => WeighedTo(qcall[p].asked, c.q)')
          /\ (c.pc \in {"rdMode", "wrMode"} => WeighedTo(qcall[p].asked, QUEUES)')
      BY <3>3, <3>4 DEF WeighedTo
    <3>6. Setting(p)'
      BY <2>1, <3>2, <3>3, <3>5 DEF Setting, SameButWeight
    <3> QED
      BY <2>1, <3>6 DEF Getting
  <2>3. \A p \in Caller : Holds(qcall[p].asked) => Holds(qcall[p].asked)'
    BY <2>1 DEF Holds, WeighedTo, ClosedTo, Closes
  <2>4. SoloInv'
    <3> SUFFICES ASSUME ~qoverlap
                 PROVE  SoloInv'
      BY <2>1 DEF SoloInv
    <3>1. ASSUME NEW p \in Caller, qcall'[p].pc # "idle"
          PROVE  /\ Setting(p)' /\ Getting(p)'
                 /\ \A r \in Caller : qresult'[r] = "none" /\ (r # p => qcall'[r].pc = "idle")
      BY <2>1, <2>2, <3>1 DEF QosInv, SoloInv, At
    <3>2. \A p \in Caller : qresult'[p] = "set" =>
              Holds(qcall[p].asked)' /\ (snap'[p] # NoSnap => FromSnap(qcall'[p].asked, snap'[p]))
      BY <2>1, <2>3 DEF QosInv, SoloInv
    <3>3. \A p \in Caller : qresult'[p] = "get" /\ snap'[p] # NoSnap =>
              FromSnap(qcall'[p].struct, snap'[p])
      BY <2>1 DEF QosInv, SoloInv
    <3> QED
      BY <3>1, <3>2, <3>3 DEF SoloInv, At
  <2>5. QosTypeOK' /\ StartsAtZero'
    BY <2>1 DEF QosInv, QosTypeOK, StartsAtZero
  <2> QED
    BY <2>4, <2>5 DEF QosInv
<1> QED
  BY <1>1, <1>2 DEF QosNext

LEMMA QosInvCorrect == QosSpec => []QosInv
  BY QosInvInit, QosInvStep, PTL DEF QosSpec

-----------------------------------------------------------------------------
(* A set that met no other call and returned 0 has left in its QDMA what   *)
(* it was asked for, however many steps, timeouts and calls of other       *)
(* channels and QDMAs came before.                                         *)
THEOREM QosTakesHoldHolds == QosSpec => []QosTakesHold
<1>1. QosInv => QosTakesHold
  <2> SUFFICES ASSUME QosInv, NEW p \in Caller, qresult[p] = "set", ~qoverlap,
                      NEW s, s = qcall[p].asked
               PROVE  /\ Channels(s.base, s.channel).mode = s.type
                      /\ Channels(s.base, s.channel).closed = {q \in Queue : q < s.type /\ s.weight[q] = 0}
                      /\ \A q \in Queue : wrr[s.base][<<s.channel, q>>] =
                              IF s.weight[q] = 0 THEN 1 ELSE s.weight[q] % WEIGHT_RANGE
    BY DEF QosTakesHold
  <2>1. Holds(s)
    BY DEF QosInv, SoloInv
  <2>2. \A q \in Queue : q < QUEUES
    BY QosConstants DEF Queue
  <2> QED
    BY <2>1, <2>2 DEF Holds, ClosedTo, Closes, WeighedTo, InHw, Channels
<1> QED
  BY <1>1, QosInvCorrect, PTL

(* A struct that was read from a channel whose closed queues the copy told *)
(* rightly, and given back to it, leaves the channel as it was read.       *)
THEOREM GetThenSetIsNoOpHolds == QosSpec => []GetThenSetIsNoOp
<1>1. QosInv => GetThenSetIsNoOp
  <2> SUFFICES ASSUME QosInv, NEW p \in Caller, qresult[p] = "set", ~qoverlap, snap[p] # NoSnap,
                      Whole(snap[p]), NEW s, s = qcall[p].asked, NEW ch, ch = snap[p]
               PROVE  Channels(s.base, s.channel) = ch
    BY DEF GetThenSetIsNoOp
  <2>1. Holds(s) /\ FromSnap(s, ch)
    BY DEF QosInv, SoloInv
  <2>2. PICK f \in [Queue -> HwWeight] :
            /\ ch.wrr = {<<q, f[q]>> : q \in Queue}
            /\ \A q \in Queue : s.weight[q] = IF f[q] = 1 /\ q \in ch.closed THEN 0 ELSE f[q]
    BY <2>1 DEF FromSnap
  <2>3. ch \in SnapRecord /\ s.type = ch.mode
    BY <2>1 DEF QosInv, QosTypeOK, FromSnap
  <2>4. \A q \in Queue : f[q] # 0 /\ f[q] % WEIGHT_RANGE = f[q] /\ q < QUEUES
    BY <2>2, FitsTheField, QosConstants DEF Whole, Queue
  <2>5. \A q \in ch.closed : q \in Queue /\ q < ch.mode /\ f[q] = 1
    <3>1. \A q \in ch.closed : q \in Queue /\ q < ch.mode /\ <<q, 1>> \in {<<x, f[x]>> : x \in Queue}
      BY <2>2, <2>3 DEF Whole, SnapRecord
    <3> QED
      BY <3>1
  <2>6. \A q \in Queue : s.weight[q] = 0 <=> q \in ch.closed
    BY <2>2, <2>4, <2>5
  <2>7. \A q \in Queue : InHw(s.weight[q]) = f[q]
    BY <2>2, <2>4, <2>5, <2>6 DEF InHw
  <2>8. \A q \in Queue : wrr[s.base][<<s.channel, q>>] = f[q]
    BY <2>1, <2>4, <2>7 DEF Holds, WeighedTo
  <2>9. Channels(s.base, s.channel).wrr = ch.wrr
    <3>1. Channels(s.base, s.channel).wrr = {<<q, wrr[s.base][<<s.channel, q>>]>> : q \in Queue}
      BY DEF Channels
    <3>2. {<<q, wrr[s.base][<<s.channel, q>>]>> : q \in Queue} = {<<q, f[q]>> : q \in Queue}
      BY <2>8, ZenonT(60)
    <3> QED
      BY <2>2, <3>1, <3>2
  <2>10. Channels(s.base, s.channel).closed = ch.closed
    <3>1. \A q \in Queue : <<s.channel, q>> \in closed[s.base] <=> q < s.type /\ s.weight[q] = 0
      BY <2>1, <2>4 DEF Holds, ClosedTo, Closes
    <3> QED
      BY <2>3, <2>5, <2>6, <3>1 DEF Channels
  <2>11. Channels(s.base, s.channel).mode = ch.mode
    BY <2>1, <2>3 DEF Holds, Channels
  <2>12. ch = [closed |-> ch.closed, wrr |-> ch.wrr, mode |-> ch.mode]
    BY <2>3 DEF SnapRecord
  <2> QED
    BY <2>9, <2>10, <2>11, <2>12 DEF Channels
<1> QED
  BY <1>1, QosInvCorrect, PTL

(* What a step of a call that is alone does to other channels.             *)
LEMMA TouchesOwnChannel ==
    ASSUME QosInv, ~qoverlap, NEW p \in Caller, QosStep(p)
    PROVE  \/ UNCHANGED <<closed, wrr, mode>>
           \/ /\ ~At(p, "idle")
              /\ \A b \in Base, c \in Channel :
                    LET s == qcall[p].struct
                    IN  b # s.base \/ (c # s.channel /\ AsRecorded(b, c)) =>
                            Channels(b, c)' = Channels(b, c)
<1> DEFINE s == qcall[p].struct
<1>1. s.base \in Base /\ s.channel \in Channel /\ Here(p) = <<s.channel, qcall[p].q>>
  BY RecordOf
<1>2. CASE WriteClose(p)
  <2>1. Setting(p) /\ qcall[p].pc = "write" /\ ~At(p, "idle")
    BY <1>2 DEF WriteClose, At, QosInv, SoloInv
  <2>2. UNCHANGED <<wrr, mode>> /\ closed' = [closed EXCEPT ![s.base] = shadow]
    BY <1>2, <2>1 DEF WriteClose, RegisterValue, Setting
  <2>3. ASSUME NEW b \in Base, NEW c \in Channel, b # s.base \/ (c # s.channel /\ AsRecorded(b, c))
        PROVE  Channels(b, c)' = Channels(b, c)
    <3>1. \A q \in Queue : <<c, q>> \in closed'[b] <=> <<c, q>> \in closed[b]
      BY <1>1, <2>2, <2>3 DEF AsRecorded, QosInv, QosTypeOK
    <3> QED
      BY <2>2, <3>1 DEF Channels
  <2> QED
    BY <2>1, <2>3
<1>3. CASE SetWeight(p) \/ SetTimeout(p)
  <2> DEFINE w == s.weight[qcall[p].q] % WEIGHT_RANGE
  <2>1. /\ ~At(p, "idle") /\ UNCHANGED <<closed, mode>>
        /\ wrr' = [wrr EXCEPT ![s.base][Here(p)] = w] \/ UNCHANGED wrr
    BY <1>3 DEF SetWeight, SetTimeout, PutWeight, At
  <2> HIDE DEF w
  <2>2. ASSUME NEW b \in Base, NEW c \in Channel, b # s.base \/ c # s.channel
        PROVE  Channels(b, c)' = Channels(b, c)
    <3>1. \A q \in Queue : wrr'[b][<<c, q>>] = wrr[b][<<c, q>>]
      BY <1>1, <2>1, <2>2 DEF QosInv, QosTypeOK
    <3> QED
      BY <2>1, <3>1 DEF Channels
  <2> QED
    BY <2>1, <2>2
<1>4. CASE WriteMode(p)
  <2>1. Setting(p) /\ qcall[p].pc = "wrMode" /\ ~At(p, "idle")
    BY <1>4 DEF WriteMode, At, QosInv, SoloInv
  <2>2. /\ UNCHANGED <<closed, wrr>>
        /\ mode' = [mode EXCEPT ![s.base] = [qcall[p].modes EXCEPT ![s.channel] = s.type]]
    BY <1>4 DEF WriteMode
  <2>3. qcall[p].modes = mode[s.base]
    BY <2>1 DEF Setting, SameButWeight
  <2>4. ASSUME NEW b \in Base, NEW c \in Channel, b # s.base \/ c # s.channel
        PROVE  Channels(b, c)' = Channels(b, c)
    <3>1. mode'[b][c] = mode[b][c]
      BY <1>1, <2>2, <2>3, <2>4 DEF QosInv, QosTypeOK
    <3> QED
      BY <2>2, <3>1 DEF Channels
  <2> QED
    BY <2>1, <2>4
<1>5. CASE ~(WriteClose(p) \/ SetWeight(p) \/ SetTimeout(p) \/ WriteMode(p))
  BY <1>5 DEF QosStep, CallSet, CallSetAgain, ReadShadow, RecordShadow, ReadMode,
      CallGet, GetMode, Ask, AskTimeout, Answer, Begin, qhw
<1> QED
  BY <1>2, <1>3, <1>4, <1>5

(* The copy changes at the queue a set has come to and nowhere else.       *)
LEMMA CopiesOwnChannel ==
    ASSUME QosInv, ~qoverlap, NEW r \in Caller, QosStep(r), NEW c \in Channel,
           ~At(r, "idle") => c # qcall[r].struct.channel
    PROVE  CopyOf(c)' = CopyOf(c)
<1>1. CASE RecordShadow(r)
  <2>1. At(r, "record") /\ qcall[r].read = shadow
    BY <1>1 DEF RecordShadow, At, QosInv, SoloInv, Setting
  <2>2. c # Here(r)[1] /\ shadow' = Recorded(r)
    BY <1>1, <2>1 DEF RecordShadow, At, Here
  <2>3. \A q \in Queue : <<c, q>> # Here(r)
    BY <2>2
  <2> QED
    BY <2>1, <2>2, <2>3 DEF CopyOf, Recorded
<1>2. CASE ~RecordShadow(r)
  <2>1. shadow' = shadow
    BY <1>2 DEF QosStep, CallSet, CallSetAgain, ReadShadow, WriteClose, SetWeight,
        SetTimeout, ReadMode, WriteMode, CallGet, GetMode, Ask, AskTimeout, Answer, Begin
  <2> QED
    BY <2>1 DEF CopyOf
<1> QED
  BY <1>1, <1>2

(* Until calls have met, no step of a set closes, opens or reweights a     *)
(* queue of another channel in the copy, nor of another QDMA or of another *)
(* channel whose closed queues the copy has right in the registers, and    *)
(* none changes such a channel's mode.                                     *)
THEOREM OtherChannelsKeptHolds == QosSpec => OtherChannelsKept
<1>1. QosInv /\ [QosNext]_qosVars => [KeepsOtherChannels]_qosVars
  <2> SUFFICES ASSUME QosInv, QosNext, ~qoverlap', NEW p \in Caller, NEW b \in Base, NEW c \in Channel,
                      ~At(p, "idle")
               PROVE  /\ c # qcall[p].struct.channel => CopyOf(c)' = CopyOf(c)
                      /\ b # qcall[p].struct.base
                          \/ (c # qcall[p].struct.channel /\ AsRecorded(b, c))
                         => Channels(b, c)' = Channels(b, c)
    BY DEF KeepsOtherChannels
  <2>1. PICK r \in Caller : QosStep(r)
    BY DEF QosNext
  <2>2. ~qoverlap
    BY <2>1 DEF QosStep, CallSet, CallSetAgain, ReadShadow, RecordShadow, WriteClose, SetWeight,
        SetTimeout, ReadMode, WriteMode, CallGet, GetMode, Ask, AskTimeout, Answer, Begin
  <2>3. ~At(r, "idle") => r = p
    BY <2>2 DEF QosInv, SoloInv
  <2>4. c # qcall[p].struct.channel => CopyOf(c)' = CopyOf(c)
    BY <2>1, <2>2, <2>3, CopiesOwnChannel
  <2>5. ASSUME b # qcall[p].struct.base
                   \/ (c # qcall[p].struct.channel /\ AsRecorded(b, c))
        PROVE  Channels(b, c)' = Channels(b, c)
    <3>1. CASE UNCHANGED <<closed, wrr, mode>>
      BY <3>1 DEF Channels
    <3>2. CASE ~At(r, "idle")
               /\ \A b_1 \in Base, c_1 \in Channel :
                      LET s == qcall[r].struct
                      IN  b_1 # s.base \/ (c_1 # s.channel /\ AsRecorded(b_1, c_1)) =>
                              Channels(b_1, c_1)' = Channels(b_1, c_1)
      BY <2>3, <2>5, <3>2
    <3> QED
      BY <2>1, <2>2, <3>1, <3>2, TouchesOwnChannel
  <2> QED
    BY <2>4, <2>5
<1> QED
  BY <1>1, QosInvCorrect, PTL DEF QosSpec, OtherChannelsKept

-----------------------------------------------------------------------------
(***************************************************************************)
(* The meters of the QDMAs.  The inductive invariant RateInv says of the call *)
(* in progress what the accesses before the one it is at have left in the  *)
(* meter, provided they worked, and of the access itself which register    *)
(* holds what.                                                             *)
(***************************************************************************)
(* The meters of gemport 0, the only ones that flows are ever sent to. *)
GemMeters == {GemMeter(d) : d \in Dir}

(* Which of the five accesses of a set is next: a ring's set has no first  *)
(* two, and 6 is past the last.                                            *)
Stage(call, at) == IF call.kind = "ring" THEN at + 2 ELSE at

(* What the accesses before stage n have left in meter m, if they worked:  *)
(* the enable bit, the tick that was read, the rate and the bucket.  An    *)
(* access that verifies a value other than 0 worked even if a read went    *)
(* unanswered.                                                             *)
Passed(m, call, n, ok, slow, failed) ==
    call.kind \in {"gem", "ring"} =>
        /\ call.kind = "gem" /\ n >= 2 /\ ok /\ (call.limit > 0 \/ ~failed) =>
               (Enabled(m.misc) <=> call.limit > 0)
        /\ n >= 4 /\ ~failed => (slow <=> Slow(m.misc))
        /\ n >= 5 /\ ok /\ ~failed => m.rate = Rate(call.limit, slow)
        /\ n >= 6 /\ ok => m.bucket = Bucket(call.limit)

(* Where a writer is inside an access. *)
Accessing(w) ==
    LET c == rcall[w]
        val == mtr[MeterOf(w)][Op(w).param]
        reg == dataReg[DirOf(w)]
    IN  /\ c.pc \in {"answer", "verify"} => reg = val
        /\ c.pc \in {"ask", "answer"} => c.tmp = Zero
        /\ c.pc = "command" => reg = c.want
        /\ c.pc \in {"command", "check", "verify", "done"} => c.want = Wanted(w)
        /\ c.pc \in {"data", "command", "check", "verify"} =>
               (Wanted(w) # Zero => c.tmp # Wanted(w))
        /\ c.pc = "done" /\ (c.want # Zero \/ ~rfailed) => val = c.want
        /\ c.pc \in {"data", "command", "check", "verify", "done"} /\ Op(w).op = "rmw" =>
               /\ c.want \in MiscValues
               /\ Op(w).bit = "en" => (Enabled(c.want) <=> Call(w).limit > 0)
               /\ Op(w).bit = "slow" => (Enabled(c.want) <=> Enabled(mtr[Call(w).meter].misc))

(* A call and its position belong together. *)
CallOK(w) ==
    LET c == Call(w)
    IN  ~RateAt(w, "idle") =>
            /\ c.kind \in {"gem", "ring", "get"} /\ rcall[w].at \in 1 .. Len(Ops(c))
            /\ c.kind = "gem" => c.meter \in GemMeters
            /\ c.kind = "ring" => c.meter \in RingMeter
            /\ c.kind \in {"gem", "ring"} => c.limit \in Limit
            /\ c.kind = "get" => c.meter \in RingMeter \cup GemMeters
            /\ rcall[w].pc \in {"ask", "answer"} => Op(w).op # "write"
            /\ rcall[w].pc \in {"data", "command", "check", "verify", "done"} => Op(w).op # "read"

(* The meters that took a limit police, unless the call in progress is     *)
(* about to switch one off; and a gemport is flagged while there are such. *)
Polices == \A d \in limited : Enabled(mtr[GemMeter(d)].misc)
FlaggedIf == gemEnable \subseteq {0} /\ (gemEnable = {} <=> limited = {})
SwitchesOff(call) == call.kind = "gem" /\ call.limit = 0

Busy(w) == rcall[w].pc # "idle"

RateSolo ==
    ~roverlap =>
        /\ \A m \in Meter : mtr[m].misc \in MiscValues
        /\ (\A w \in Writer : ~Busy(w)) => Polices
        /\ \A w \in Writer : Busy(w) =>
            /\ \A x \in Writer : rresult[x] = NoCall /\ (x # w => ~Busy(x))
            /\ ~SwitchesOff(Call(w)) => Polices
            /\ Accessing(w)
            /\ Passed(mtr[Call(w).meter], Call(w), Stage(Call(w), rcall[w].at),
                      rcall[w].ok, rcall[w].slow, rfailed)
        /\ ~rfailed => \A w \in Writer : \E slow \in BOOLEAN :
                           Passed(mtr[rresult[w].meter], rresult[w], 6, TRUE, slow, FALSE)

RateInv == RateTypeOK /\ FlaggedIf /\ (\A w \in Writer : CallOK(w)) /\ RateSolo

-----------------------------------------------------------------------------
(* Register values.                                                        *)
LEMMA MiscData ==
    /\ Zero \in MiscValues /\ MiscValues \subseteq Values
    /\ \A en, slow \in BOOLEAN :
            /\ Misc(en, slow) \in MiscValues
            /\ Enabled(Misc(en, slow)) <=> en
            /\ Slow(Misc(en, slow)) <=> slow
    /\ ~Enabled(Zero)
    /\ \A val \in MiscValues : AsMisc(val) = {val}
    /\ \A val : AsMisc(val) \subseteq MiscValues
<1>1. \A en, slow \in BOOLEAN : Misc(en, slow) \in MiscValues
  BY DEF MiscValues
<1>2. MiscValues \subseteq Values /\ Zero \in MiscValues
  <2>1. Misc(FALSE, FALSE) = Zero /\ Misc(FALSE, FALSE) \in MiscValues
    BY <1>1 DEF Misc
  <2>2. MiscValues \subseteq Values
    BY DEF Values
  <2> QED
    BY <2>1, <2>2
<1>3. ASSUME NEW en \in BOOLEAN, NEW slow \in BOOLEAN
      PROVE  (Enabled(Misc(en, slow)) <=> en) /\ (Slow(Misc(en, slow)) <=> slow)
  <2>1. CASE en \/ slow
    <3>1. Misc(en, slow) = <<"misc", en, slow>>
      BY <2>1 DEF Misc
    <3>2. <<"misc", en, slow>> # Zero
      BY DEF Zero
    <3> QED
      BY <1>1, <3>1, <3>2 DEF Enabled, Slow
  <2>2. CASE ~en /\ ~slow
    BY <2>2 DEF Misc, Enabled, Slow
  <2> QED
    BY <2>1, <2>2
<1> QED
  BY <1>1, <1>2, <1>3 DEF AsMisc, Enabled

LEMMA RateData ==
    /\ \A slow \in BOOLEAN : \A v \in Limit : Rate(v, slow) \in Values
    /\ \A v : Bucket(v) # Zero
    /\ \A v \in Limit : Bucket(v) \in Values
  BY DEF Bucket, Zero, Values

LEMMA ChangedData ==
    ASSUME NEW val \in MiscValues, NEW v
    PROVE  /\ Changed(val, RmwOf("en", v > 0)) \in MiscValues
           /\ Enabled(Changed(val, RmwOf("en", v > 0))) <=> v > 0
           /\ Changed(val, RmwOf("slow", FALSE)) \in MiscValues
           /\ Enabled(Changed(val, RmwOf("slow", FALSE))) <=> Enabled(val)
<1>1. /\ Changed(val, RmwOf("en", v > 0)) \in MiscValues
      /\ Enabled(Changed(val, RmwOf("en", v > 0))) <=> v > 0
  <2>1. Changed(val, RmwOf("en", v > 0)) = Misc(v > 0, Slow(val))
    BY DEF Changed, RmwOf
  <2>2. CASE v > 0
    <3>1. Misc(v > 0, Slow(val)) = Misc(TRUE, TRUE) \/ Misc(v > 0, Slow(val)) = Misc(TRUE, FALSE)
      <4>0. (v > 0) = TRUE
        BY <2>2
      <4>1. CASE Slow(val)
        <5>1. Misc(v > 0, Slow(val)) = Misc(TRUE, TRUE)
          <6>1. Slow(val) = TRUE
            BY <4>1 DEF Slow
          <6> QED
            BY <4>0, <6>1
        <5> QED
          BY <5>1
      <4>2. CASE ~Slow(val)
        <5>1. Misc(v > 0, Slow(val)) = Misc(TRUE, FALSE)
          <6>1. Slow(val) = FALSE
            BY <4>2 DEF Slow
          <6> QED
            BY <4>0, <6>1
        <5> QED
          BY <5>1
      <4> QED
        BY <4>1, <4>2
    <3>2. \A slow \in BOOLEAN : Enabled(Misc(TRUE, slow)) /\ Misc(TRUE, slow) \in MiscValues
      <4> TAKE slow \in BOOLEAN
      <4> QED
        BY MiscData
    <3>3. /\ Enabled(Changed(val, RmwOf("en", v > 0)))
          /\ Changed(val, RmwOf("en", v > 0)) \in MiscValues
      BY <2>1, <3>1, <3>2
    <3> QED
      BY <2>2, <3>3
  <2>3. CASE ~(v > 0)
    <3>1. Misc(v > 0, Slow(val)) = Misc(FALSE, TRUE) \/ Misc(v > 0, Slow(val)) = Misc(FALSE, FALSE)
      <4>0. (v > 0) = FALSE
        BY <2>3
      <4>1. CASE Slow(val)
        <5>1. Misc(v > 0, Slow(val)) = Misc(FALSE, TRUE)
          <6>1. Slow(val) = TRUE
            BY <4>1 DEF Slow
          <6> QED
            BY <4>0, <6>1
        <5> QED
          BY <5>1
      <4>2. CASE ~Slow(val)
        <5>1. Misc(v > 0, Slow(val)) = Misc(FALSE, FALSE)
          <6>1. Slow(val) = FALSE
            BY <4>2 DEF Slow
          <6> QED
            BY <4>0, <6>1
        <5> QED
          BY <5>1
      <4> QED
        BY <4>1, <4>2
    <3>2. \A slow \in BOOLEAN : ~Enabled(Misc(FALSE, slow)) /\ Misc(FALSE, slow) \in MiscValues
      <4> TAKE slow \in BOOLEAN
      <4> QED
        BY MiscData
    <3>3. /\ ~Enabled(Changed(val, RmwOf("en", v > 0)))
          /\ Changed(val, RmwOf("en", v > 0)) \in MiscValues
      BY <2>1, <3>1, <3>2
    <3> QED
      BY <2>3, <3>3
  <2> QED
    BY <2>2, <2>3
<1>2. \E en \in BOOLEAN :
          (en <=> Enabled(val)) /\ Changed(val, RmwOf("slow", FALSE)) = Misc(en, FALSE)
  <2>1. Changed(val, RmwOf("slow", FALSE)) = Misc(Enabled(val), FALSE)
    BY DEF Changed, RmwOf
  <2>2. CASE Enabled(val)
    <3>1. Misc(Enabled(val), FALSE) = Misc(TRUE, FALSE)
      BY <2>2 DEF Misc
    <3> QED
      BY <2>1, <2>2, <3>1
  <2>3. CASE ~Enabled(val)
    <3>1. Misc(Enabled(val), FALSE) = Misc(FALSE, FALSE)
      BY <2>3 DEF Misc
    <3> QED
      BY <2>1, <2>3, <3>1
  <2> QED
    BY <2>2, <2>3
<1> QED
  BY <1>1, <1>2, MiscData

(* The accesses of a call, one by one. *)
LEMMA OpTable ==
    ASSUME NEW call
    PROVE  /\ call.kind = "gem" =>
                /\ Len(Ops(call)) = 5
                /\ Ops(call)[1] = RmwOf("en", call.limit > 0) /\ Ops(call)[2] = RmwOf("slow", FALSE)
                /\ Ops(call)[3] = ReadOf("misc") /\ Ops(call)[4] = WriteOf("rate")
                /\ Ops(call)[5] = WriteOf("bucket")
           /\ call.kind = "ring" =>
                /\ Len(Ops(call)) = 3
                /\ Ops(call)[1] = ReadOf("misc") /\ Ops(call)[2] = WriteOf("rate")
                /\ Ops(call)[3] = WriteOf("bucket")
           /\ call.kind = "get" =>
                /\ Len(Ops(call)) = 2
                /\ Ops(call)[1] = ReadOf("misc") /\ Ops(call)[2] = ReadOf("rate")
<1>1. ASSUME call.kind = "gem"
      PROVE  /\ Len(Ops(call)) = 5
             /\ Ops(call)[1] = RmwOf("en", call.limit > 0) /\ Ops(call)[2] = RmwOf("slow", FALSE)
             /\ Ops(call)[3] = ReadOf("misc") /\ Ops(call)[4] = WriteOf("rate")
             /\ Ops(call)[5] = WriteOf("bucket")
  <2>1. Ops(call) = CfgOps(call.limit) \o ValueOps
    BY <1>1 DEF Ops
  <2> DEFINE S == {RmwOf("en", call.limit > 0), RmwOf("slow", FALSE), ReadOf("misc"),
                   WriteOf("rate"), WriteOf("bucket")}
             cfg == CfgOps(call.limit)
  <2>2. cfg \in Seq(S) /\ Len(cfg) = 2 /\ cfg[1] = RmwOf("en", call.limit > 0)
        /\ cfg[2] = RmwOf("slow", FALSE)
    BY DEF CfgOps
  <2>3. ValueOps \in Seq(S) /\ Len(ValueOps) = 3 /\ ValueOps[1] = ReadOf("misc")
        /\ ValueOps[2] = WriteOf("rate") /\ ValueOps[3] = WriteOf("bucket")
    BY DEF ValueOps
  <2> HIDE DEF S, cfg
  <2>4. /\ Len(cfg \o ValueOps) = 5
        /\ \A i \in 1 .. 5 : (cfg \o ValueOps)[i] = IF i <= 2 THEN cfg[i] ELSE ValueOps[i - 2]
    <3>1. /\ Len(cfg \o ValueOps) = Len(cfg) + Len(ValueOps)
          /\ \A i \in 1 .. Len(cfg) + Len(ValueOps) :
                (cfg \o ValueOps)[i] = IF i <= Len(cfg) THEN cfg[i] ELSE ValueOps[i - Len(cfg)]
      BY <2>2, <2>3, ConcatProperties, Zenon
    <3> QED
      BY <2>2, <2>3, <3>1
  <2>5. Ops(call) = cfg \o ValueOps
    BY <2>1 DEF cfg
  <2>6. /\ Ops(call)[1] = cfg[1] /\ Ops(call)[2] = cfg[2] /\ Ops(call)[3] = ValueOps[1]
        /\ Ops(call)[4] = ValueOps[2] /\ Ops(call)[5] = ValueOps[3]
    BY <2>4, <2>5
  <2>7. Len(Ops(call)) = 5
    BY <2>4, <2>5
  <2> QED
    BY <2>2, <2>3, <2>6, <2>7
<1>2. call.kind = "ring" => Ops(call) = ValueOps
  BY DEF Ops
<1>3. call.kind = "get" => Ops(call) = GetOps
  BY DEF Ops
<1>4. /\ Len(ValueOps) = 3 /\ ValueOps[1] = ReadOf("misc") /\ ValueOps[2] = WriteOf("rate")
      /\ ValueOps[3] = WriteOf("bucket")
  BY DEF ValueOps
<1>5. Len(GetOps) = 2 /\ GetOps[1] = ReadOf("misc") /\ GetOps[2] = ReadOf("rate")
  BY DEF GetOps
<1> QED
  BY <1>1, <1>2, <1>3, <1>4, <1>5
LEMMA OpFields ==
    ASSUME NEW v
    PROVE  /\ RmwOf("en", v > 0).op = "rmw" /\ RmwOf("en", v > 0).param = "misc"
           /\ RmwOf("en", v > 0).bit = "en"
           /\ RmwOf("slow", FALSE).op = "rmw" /\ RmwOf("slow", FALSE).param = "misc"
           /\ RmwOf("slow", FALSE).bit = "slow"
           /\ ReadOf("misc").op = "read" /\ ReadOf("misc").param = "misc"
           /\ ReadOf("rate").op = "read" /\ ReadOf("rate").param = "rate"
           /\ WriteOf("rate").op = "write" /\ WriteOf("rate").param = "rate"
           /\ WriteOf("bucket").op = "write" /\ WriteOf("bucket").param = "bucket"
  BY DEF RmwOf, ReadOf, WriteOf

(* ... and the stage each is. *)
LEMMA OpCases ==
    ASSUME NEW call, NEW at \in 1 .. Len(Ops(call)), call.kind \in {"gem", "ring", "get"}
    PROVE  LET op == Ops(call)[at]
               n == Stage(call, at)
               isSet == call.kind \in {"gem", "ring"}
           IN  \/ call.kind = "gem" /\ at = 1 /\ n = 1 /\ op = RmwOf("en", call.limit > 0)
               \/ call.kind = "gem" /\ at = 2 /\ n = 2 /\ op = RmwOf("slow", FALSE)
               \/ isSet /\ n = 3 /\ op = ReadOf("misc")
               \/ isSet /\ n = 4 /\ op = WriteOf("rate")
               \/ isSet /\ n = 5 /\ at = Len(Ops(call)) /\ op = WriteOf("bucket")
               \/ call.kind = "get" /\ op \in {ReadOf("misc"), ReadOf("rate")}
<1>1. CASE call.kind = "gem"
  <2>1. Len(Ops(call)) = 5
    BY <1>1, OpTable
  <2>2. at \in {1, 2, 3, 4, 5} /\ Stage(call, at) = at
    BY <1>1, <2>1 DEF Stage
  <2>3. CASE at = 1
    <3>1. Stage(call, at) = 1
      BY <2>2, <2>3
    <3> QED
      BY <1>1, <2>1, <2>3, <3>1, OpTable
  <2>4. CASE at = 2
    <3>1. Stage(call, at) = 2
      BY <2>2, <2>4
    <3> QED
      BY <1>1, <2>1, <2>4, <3>1, OpTable
  <2>5. CASE at = 3
    <3>1. Stage(call, at) = 3
      BY <2>2, <2>5
    <3> QED
      BY <1>1, <2>1, <2>5, <3>1, OpTable
  <2>6. CASE at = 4
    <3>1. Stage(call, at) = 4
      BY <2>2, <2>6
    <3> QED
      BY <1>1, <2>1, <2>6, <3>1, OpTable
  <2>7. CASE at = 5
    <3>1. Stage(call, at) = 5
      BY <2>2, <2>7
    <3> QED
      BY <1>1, <2>1, <2>7, <3>1, OpTable
  <2> QED
    BY <2>2, <2>3, <2>4, <2>5, <2>6, <2>7
<1>2. CASE call.kind = "ring"
  <2>1. Len(Ops(call)) = 3
    BY <1>2, OpTable
  <2>2. at \in {1, 2, 3} /\ Stage(call, at) = at + 2
    BY <1>2, <2>1 DEF Stage
  <2>3. CASE at = 1
    <3>1. Stage(call, at) = 3
      BY <2>2, <2>3
    <3> QED
      BY <1>2, <2>1, <2>3, <3>1, OpTable
  <2>4. CASE at = 2
    <3>1. Stage(call, at) = 4
      BY <2>2, <2>4
    <3> QED
      BY <1>2, <2>1, <2>4, <3>1, OpTable
  <2>5. CASE at = 3
    <3>1. Stage(call, at) = 5
      BY <2>2, <2>5
    <3> QED
      BY <1>2, <2>1, <2>5, <3>1, OpTable
  <2> QED
    BY <2>2, <2>3, <2>4, <2>5
<1>3. CASE call.kind = "get"
  <2>1. Len(Ops(call)) = 2
    BY <1>3, OpTable
  <2>2. at \in {1, 2}
    BY <1>3, <2>1
  <2>3. CASE at = 1
    BY <1>3, <2>1, <2>3, OpTable
  <2>4. CASE at = 2
    BY <1>3, <2>1, <2>4, OpTable
  <2> QED
    BY <2>2, <2>3, <2>4
<1> QED
  BY <1>1, <1>2, <1>3

(* What is known of a call in progress, whatever others do.                *)
LEMMA CallFacts ==
    ASSUME RateInv, NEW w \in Writer, Busy(w)
    PROVE  /\ rcall[w] \in RateRecord /\ Call(w) \in RateCall
           /\ Call(w).kind \in {"gem", "ring", "get"}
           /\ rcall[w].at \in 1 .. Len(Ops(Call(w)))
           /\ Op(w) = Ops(Call(w))[rcall[w].at]
           /\ Op(w).param \in Param /\ (Op(w).op = "rmw" => Op(w).param = "misc")
           /\ Call(w).meter \in Meter /\ MeterOf(w) \in Meter /\ DirOf(w) \in Dir
           /\ Op(w).op # "read" =>
                /\ Call(w).kind \in {"gem", "ring"} /\ MeterOf(w) = Call(w).meter
                /\ Call(w).limit \in Limit
           /\ Call(w).kind = "ring" => Call(w).meter \notin GemMeters
           /\ Call(w).kind = "gem" => Call(w).meter \in GemMeters
<1>1. /\ rcall[w] \in RateRecord /\ Call(w) \in RateCall
      /\ Call(w).kind \in {"gem", "ring", "get"}
      /\ rcall[w].at \in 1 .. Len(Ops(Call(w)))
      /\ Op(w) = Ops(Call(w))[rcall[w].at]
  BY DEF RateInv, RateTypeOK, RateRecord, CallOK, RateAt, Busy, Call, Op
<1>2. Call(w).meter \in Meter /\ DirOf(w) \in Dir
  <2>1. Call(w).meter \in Meter
    BY <1>1 DEF RateCall
  <2> QED
    BY <2>1 DEF Meter, DirOf
<1>3. /\ Op(w).param \in Param /\ (Op(w).op = "rmw" => Op(w).param = "misc")
      /\ Op(w).op # "read" => Call(w).kind \in {"gem", "ring"}
  <2> DEFINE call == Call(w)
             at == rcall[w].at
             op == Ops(call)[at]
  <2>1. call.kind \in {"gem", "ring", "get"} /\ at \in 1 .. Len(Ops(call)) /\ Op(w) = op
    BY <1>1
  <2> HIDE DEF call, at
  <2>2. \/ call.kind \in {"gem", "ring"} /\ op \in {RmwOf("en", call.limit > 0), RmwOf("slow", FALSE),
                                                 ReadOf("misc"), WriteOf("rate"), WriteOf("bucket")}
        \/ op \in {ReadOf("misc"), ReadOf("rate")}
    BY <2>1, OpCases
  <2> HIDE DEF op
  <2>3. /\ op.param \in Param /\ (op.op = "rmw" => op.param = "misc")
        /\ op.op # "read" => call.kind \in {"gem", "ring"}
    BY <2>2, OpFields DEF Param
  <2> QED
    BY <2>1, <2>3 DEF call
<1>4. /\ Call(w).kind = "gem" => Call(w).meter \in GemMeters
      /\ Call(w).kind = "ring" => Call(w).meter \in RingMeter
      /\ Call(w).kind \in {"gem", "ring"} => Call(w).limit \in Limit
      /\ Call(w).kind = "get" => Call(w).meter \in RingMeter \cup GemMeters
  BY DEF RateInv, CallOK, RateAt, Busy
<1>5. MeterOf(w) \in Meter /\ (Call(w).kind # "get" => MeterOf(w) = Call(w).meter)
  <2>1. CASE Call(w).kind = "get"
    <3>1. Call(w).meter[2] \in 0 .. AIROHA_NUM_RX_RING
      BY <1>4, <2>1, RateAssumption DEF RxRing, RingMeter, GemMeters, GemMeter
    <3> DEFINE x == Call(w).meter[2]
    <3>2. 2 * x \in 0 .. 2 * (AIROHA_NUM_RX_RING + GEMPORTS - 1)
      <4> HIDE DEF x
      <4>1. x \in 0 .. AIROHA_NUM_RX_RING
        BY <3>1 DEF x
      <4> QED
        BY <4>1, RateAssumption
    <3>3. <<DirOf(w), 2 * x>> \in Meter
      BY <1>2, <3>2 DEF Meter
    <3> QED
      BY <1>2, <2>1, <3>3 DEF MeterOf
  <2>2. CASE Call(w).kind # "get"
    BY <1>2, <2>2 DEF MeterOf
  <2> QED
    BY <2>1, <2>2
<1>6. Call(w).kind = "ring" => Call(w).meter \notin GemMeters
  BY <1>4, RateAssumption DEF RxRing, RingMeter, GemMeters, GemMeter
<1> QED
  BY <1>1, <1>2, <1>3, <1>4, <1>5, <1>6

-----------------------------------------------------------------------------
RateHw ==
    /\ mtr \in [Meter -> [Param -> Values]] /\ dataReg \in [Dir -> Values]
    /\ cfgLock \subseteq Writer
    /\ roverlap \in BOOLEAN /\ rfailed \in BOOLEAN

LEMMA OwnCall ==
    ASSUME RateInv, NEW w \in Writer, NEW rec \in RateRecord, rcall' = [rcall EXCEPT ![w] = rec]
    PROVE  /\ rcall'[w] = rec /\ \A x \in Writer : x # w => rcall'[x] = rcall[x]
           /\ rcall' \in [Writer -> RateRecord]
           /\ Call(w)' = rec.call
           /\ \A x \in Writer : x # w => CallOK(x)' /\ (Busy(x)' <=> Busy(x))
<1>1. /\ rcall'[w] = rec /\ \A x \in Writer : x # w => rcall'[x] = rcall[x]
      /\ rcall' \in [Writer -> RateRecord]
  BY DEF RateInv, RateTypeOK
<1>2. ASSUME NEW x \in Writer, x # w
      PROVE  CallOK(x)' /\ (Busy(x)' <=> Busy(x))
  <2>1. rcall'[x] = rcall[x] /\ CallOK(x)
    BY <1>1, <1>2 DEF RateInv
  <2> QED
    BY <2>1 DEF CallOK, Busy, RateAt, Call, Op
<1> QED
  BY <1>1, <1>2 DEF Call

LEMMA IdleType == RateIdle \in RateRecord /\ NoCall \in RateCall /\ Zero \in Values
<1>1. <<0, 0>> \in Meter
  BY RateAssumption DEF Meter, Dir
<1>2. NoCall \in RateCall
  BY <1>1 DEF NoCall, RateCall
<1>3. Zero \in Values
  BY MiscData
<1>4. RateIdle \in RateRecord
  BY <1>2, <1>3 DEF RateIdle, RateRecord, RatePc
<1> QED
  BY <1>2, <1>3, <1>4

(* What is left to show of a step of a call that goes on ...               *)
LEMMA RateGoesOn ==
    ASSUME RateInv, NEW w \in Writer, Busy(w), NEW rec \in RateRecord,
           rcall' = [rcall EXCEPT ![w] = rec], rec.pc # "idle", rec.call = Call(w),
           UNCHANGED <<roverlap, gemEnable, limited, rresult>>, RateHw', CallOK(w)',
           ~roverlap =>
                /\ \A m \in Meter : mtr'[m].misc \in MiscValues
                /\ ~SwitchesOff(rec.call) => Polices'
                /\ Accessing(w)'
                /\ Passed(mtr'[rec.call.meter], rec.call, Stage(rec.call, rec.at),
                          rec.ok, rec.slow, rfailed')
    PROVE  RateInv'
<1>1. /\ rcall'[w] = rec /\ \A x \in Writer : x # w => rcall'[x] = rcall[x]
      /\ rcall' \in [Writer -> RateRecord] /\ Call(w)' = rec.call
      /\ \A x \in Writer : x # w => CallOK(x)' /\ (Busy(x)' <=> Busy(x))
  BY OwnCall
<1>2. RateTypeOK'
  BY <1>1 DEF RateInv, RateTypeOK, RateHw
<1>3. RateSolo'
  <2> SUFFICES ASSUME ~roverlap
               PROVE  RateSolo'
    BY DEF RateSolo
  <2>1. \A x \in Writer : rresult'[x] = NoCall /\ (x # w => ~Busy(x)')
    BY <1>1 DEF RateInv, RateSolo
  <2>2. Busy(w)' /\ \A x \in Writer : Busy(x)' => x = w
    BY <1>1, <2>1 DEF Busy
  <2>3. \A x \in Writer : Passed(mtr'[rresult'[x].meter], rresult'[x], 6, TRUE, TRUE, FALSE)
    BY <2>1 DEF NoCall, Passed
  <2> QED
    BY <1>1, <2>1, <2>2, <2>3 DEF RateSolo
<1>4. FlaggedIf' /\ \A x \in Writer : CallOK(x)'
  BY <1>1 DEF RateInv, FlaggedIf
<1> QED
  BY <1>2, <1>3, <1>4 DEF RateInv

(* ... and of one with which a call returns. *)
LEMMA RateReturns ==
    ASSUME RateInv, NEW w \in Writer, Busy(w), NEW call \in {Call(w), NoCall},
           rcall' = [rcall EXCEPT ![w] = RateIdle], rresult' = [rresult EXCEPT ![w] = call],
           UNCHANGED <<roverlap, mtr>>, RateHw', FlaggedIf', limited' \subseteq Dir,
           ~roverlap => Polices',
           ~roverlap /\ ~rfailed' =>
               \E slow \in BOOLEAN : Passed(mtr[call.meter], call, 6, TRUE, slow, FALSE)
    PROVE  RateInv'
<1>1. RateIdle \in RateRecord /\ NoCall \in RateCall
  BY IdleType
<1>2. /\ rcall'[w] = RateIdle /\ \A x \in Writer : x # w => rcall'[x] = rcall[x]
      /\ rcall' \in [Writer -> RateRecord]
      /\ \A x \in Writer : x # w => CallOK(x)' /\ (Busy(x)' <=> Busy(x))
  BY <1>1, OwnCall
<1>3. ~Busy(w)' /\ CallOK(w)'
  BY <1>2 DEF Busy, RateIdle, CallOK, RateAt
<1>4. RateTypeOK'
  <2>1. call \in RateCall
    BY <1>1, CallFacts
  <2>2. rresult' \in [Writer -> RateCall]
    BY <2>1 DEF RateInv, RateTypeOK
  <2>3. gemEnable' \subseteq Gemport
    BY RateAssumption DEF Gemport, FlaggedIf
  <2> QED
    BY <1>2, <2>2, <2>3 DEF RateTypeOK, RateHw
<1>5. RateSolo'
  <2> SUFFICES ASSUME ~roverlap
               PROVE  RateSolo'
    BY DEF RateSolo
  <2>1. \A x \in Writer : x # w => ~Busy(x)' /\ rresult'[x] = NoCall
    BY <1>2 DEF RateInv, RateSolo
  <2>2. rresult'[w] = call
    BY DEF RateInv, RateTypeOK
  <2>3. \A m \in Meter : mtr'[m].misc \in MiscValues
    BY DEF RateInv, RateSolo
  <2>5. ~rfailed' => \A x \in Writer : \E slow \in BOOLEAN :
                        Passed(mtr'[rresult'[x].meter], rresult'[x], 6, TRUE, slow, FALSE)
    <3>1. \A m : Passed(m, NoCall, 6, TRUE, TRUE, FALSE)
      BY DEF NoCall, Passed
    <3> QED
      BY <2>1, <2>2, <3>1
  <2> QED
    BY <1>3, <2>1, <2>3, <2>5 DEF RateSolo
<1> QED
  BY <1>2, <1>3, <1>4, <1>5 DEF RateInv

(* Where a call goes after an access: a failed one ends the configuration  *)
(* of a gemport's meter, or else the call.                                 *)
LEMMA FollowingIs ==
    ASSUME RateInv, NEW w \in Writer, Busy(w), NEW ok \in BOOLEAN
    PROVE  LET call == Call(w)
               at == rcall[w].at
               n == Following(w, ok)
               len == Len(Ops(call))
           IN  /\ len \in {2, 3, 5} /\ at \in 1 .. len /\ n \in 2 .. len + 1
               /\ ok => n = at + 1
               /\ ~ok => IF call.kind = "gem" /\ at <= 2 THEN n = 3 ELSE n = len + 1
               /\ call.kind \in {"gem", "ring"} =>
                    /\ n > len => Stage(call, n) = 6
                    /\ Stage(call, n) = Stage(call, at) + (n - at)
<1> DEFINE call == Call(w)
           at == rcall[w].at
           n == Following(w, ok)
           len == Len(Ops(call))
<1>1. call.kind \in {"gem", "ring", "get"} /\ at \in 1 .. len
  BY CallFacts
<1>2. /\ ok => n = at + 1
      /\ ~ok /\ call.kind = "gem" /\ at <= 2 => n = 3
      /\ ~ok /\ ~(call.kind = "gem" /\ at <= 2) => n = len + 1
  <2>1. Len(CfgOps(0)) = 2
    BY DEF CfgOps
  <2>2. CASE ok
    BY <2>2 DEF Following
  <2>3. CASE ~ok /\ call.kind = "gem"
    <3>1. len = 5
      BY <2>3, OpTable
    <3>2. at \in Int
      BY <1>1, <3>1
    <3> DEFINE two == Len(CfgOps(0))
    <3>3. n = IF at <= two THEN two + 1 ELSE len + 1
      BY <2>3, Zenon DEF Following
    <3>4. two = 2
      BY <2>1
    <3> HIDE DEF two, n, at, len
    <3>5. (at <= 2 => n = 3) /\ (~(at <= 2) => n = len + 1)
      BY <3>2, <3>3, <3>4
    <3> QED
      BY <2>3, <3>5
  <2>4. CASE ~ok /\ call.kind # "gem"
    BY <2>4 DEF Following
  <2> QED
    BY <2>2, <2>3, <2>4
<1>3. /\ call.kind = "gem" => len = 5
      /\ call.kind = "ring" => len = 3
      /\ call.kind = "get" => len = 2
  BY OpTable
<1>4. \A x : Stage(call, x) = IF call.kind = "ring" THEN x + 2 ELSE x
  BY DEF Stage
<1> HIDE DEF call, at, n, len
<1>5. len \in {2, 3, 5} /\ n \in 2 .. len + 1
  BY <1>1, <1>2, <1>3
<1>6. /\ ok => n = at + 1
      /\ ~ok => IF call.kind = "gem" /\ at <= 2 THEN n = 3 ELSE n = len + 1
  BY <1>2
<1>7. call.kind \in {"gem", "ring"} =>
        /\ n > len => Stage(call, n) = 6
        /\ Stage(call, n) = Stage(call, at) + (n - at)
  BY <1>1, <1>3, <1>4, <1>5
<1> QED
  BY <1>1, <1>5, <1>6, <1>7 DEF call, at, n, len

(* An access is over: the call goes on to the next one, or returns. *)
LEMMA ProceedKeeps ==
    ASSUME RateInv, NEW w \in Writer, Busy(w), NEW ok \in BOOLEAN, NEW slow \in BOOLEAN,
           Proceed(w, ok, slow), UNCHANGED <<roverlap, mtr, dataReg, cfgLock>>, rfailed' \in BOOLEAN,
           ~roverlap => Passed(mtr[Call(w).meter], Call(w), Stage(Call(w), Following(w, ok)),
                               rcall[w].ok /\ ok, slow, rfailed')
    PROVE  RateInv'
<1> DEFINE call == Call(w)
           n == Following(w, ok)
           both == rcall[w].ok /\ ok
           m == mtr[call.meter]
<1>1. /\ rcall[w] \in RateRecord /\ call \in RateCall
      /\ call.kind \in {"gem", "ring", "get"} /\ rcall[w].at \in 1 .. Len(Ops(call))
      /\ call.meter \in Meter /\ (call.kind = "gem" => call.meter \in GemMeters)
      /\ (call.kind \in {"gem", "ring"} => call.limit \in Limit)
  BY CallFacts DEF RateInv, CallOK, RateAt, Busy
<1>2. RateHw'
  BY DEF RateInv, RateTypeOK, RateHw
<1>3. both \in BOOLEAN
  BY <1>1 DEF RateRecord
<1>4. Len(Ops(call)) \in {2, 3, 5} /\ n \in 2 .. Len(Ops(call)) + 1
  BY FollowingIs
<1>5. call.kind \in {"gem", "ring"} /\ n > Len(Ops(call)) => Stage(call, n) = 6
  BY FollowingIs
<1>6. ~roverlap => /\ \A x \in Meter : mtr[x].misc \in MiscValues
                   /\ ~SwitchesOff(call) => Polices
                   /\ Passed(m, call, Stage(call, n), both, slow, rfailed')
  BY DEF RateInv, RateSolo
<1>7. FlaggedIf /\ limited \subseteq Dir
  BY DEF RateInv, RateTypeOK
<1>8. CASE n > Len(Ops(call))
  <2>1. /\ rcall' = [rcall EXCEPT ![w] = RateIdle]
        /\ rresult' = [rresult EXCEPT ![w] = IF both THEN call ELSE NoCall]
        /\ gemEnable' = IF call.kind = "gem" THEN Flagged(call, both) ELSE gemEnable
        /\ limited' = IF call.kind = "gem" THEN NowLimited(call, both) ELSE limited
    BY <1>8 DEF Proceed, RateReturn
  <2>2. call.kind = "gem" => /\ call.meter[2] - AIROHA_NUM_RX_RING = 0
                             /\ call.meter[1] \in Dir /\ call.meter = GemMeter(call.meter[1])
    BY <1>1, RateAssumption DEF GemMeters, GemMeter
  <2> DEFINE ret == IF both THEN call ELSE NoCall
  <2>3. ~roverlap /\ ~rfailed' => \E s \in BOOLEAN : Passed(mtr[ret.meter], ret, 6, TRUE, s, FALSE)
    <3>1. CASE both /\ call.kind \in {"gem", "ring"}
      <4>1. both = TRUE /\ ret = call /\ Stage(call, n) = 6
        BY <1>3, <1>5, <1>8, <3>1
      <4> QED
        BY <1>6, <4>1
    <3>2. CASE both /\ call.kind = "get"
      BY <3>2 DEF Passed
    <3>3. CASE ~both
      BY <3>3 DEF Passed, NoCall
    <3> QED
      BY <1>1, <3>1, <3>2, <3>3
  <2>4. \/ gemEnable' = gemEnable /\ limited' = limited /\ ~SwitchesOff(call)
        \/ gemEnable' = {} /\ limited' = {}
        \/ /\ gemEnable' = {0} /\ limited' = limited \cup {call.meter[1]}
           /\ call.kind = "gem" /\ call.limit > 0 /\ both
    <3>1. CASE call.kind # "gem"
      BY <2>1, <3>1 DEF SwitchesOff
    <3>2. CASE call.kind = "gem"
      <4>1. /\ gemEnable' = IF call.limit > 0 THEN IF both THEN gemEnable \cup {0} ELSE gemEnable
                            ELSE gemEnable \ {0}
            /\ limited' = IF call.limit = 0 THEN {}
                          ELSE IF both THEN limited \cup {call.meter[1]} ELSE limited
        BY <2>1, <2>2, <3>2 DEF Flagged, NowLimited
      <4>2. gemEnable \subseteq {0} /\ call.limit \in Nat
        BY <1>1, <1>7, <3>2, RateAssumption DEF FlaggedIf
      <4> HIDE DEF call, both
      <4> QED
        BY <3>2, <4>1, <4>2 DEF SwitchesOff
    <3> QED
      BY <3>1, <3>2
  <2>5. /\ ~roverlap => Polices'
        /\ FlaggedIf' /\ limited' \subseteq Dir
    <3>1. CASE gemEnable' = gemEnable /\ limited' = limited /\ ~SwitchesOff(call)
      BY <1>6, <1>7, <3>1 DEF Polices, FlaggedIf
    <3>2. CASE gemEnable' = {} /\ limited' = {}
      BY <3>2 DEF Polices, FlaggedIf
    <3>3. CASE /\ gemEnable' = {0} /\ limited' = limited \cup {call.meter[1]}
               /\ call.kind = "gem" /\ call.limit > 0 /\ both
      <4> DEFINE d == call.meter[1]
      <4>1. Stage(call, n) = 6 /\ m = mtr[GemMeter(d)]
        BY <1>1, <1>5, <1>8, <2>2, <3>3
      <4> HIDE DEF m, n, both, call, d
      <4>2. ~roverlap => Passed(mtr[GemMeter(d)], call, 6, both, slow, rfailed')
        BY <1>6, <4>1
      <4>3. ~roverlap => Enabled(mtr[GemMeter(d)].misc)
        BY <3>3, <4>2 DEF Passed
      <4>4. ~SwitchesOff(call)
        BY <3>3 DEF SwitchesOff
      <4>5. ~roverlap => Polices'
        BY <1>6, <3>3, <4>3, <4>4 DEF Polices, d
      <4> QED
        BY <1>7, <2>2, <3>3, <4>5 DEF FlaggedIf
    <3> QED
      BY <2>4, <3>1, <3>2, <3>3
  <2>6. ret \in {Call(w), NoCall}
    OBVIOUS
  <2> HIDE DEF ret, both, n
  <2>7. rresult' = [rresult EXCEPT ![w] = ret]
    BY <2>1 DEF ret
  <2> QED
    BY <1>2, <2>1, <2>3, <2>5, <2>6, <2>7, RateReturns
<1>9. CASE ~(n > Len(Ops(call)))
  <2> DEFINE rec == [rcall[w] EXCEPT !.at = n, !.pc = FirstAccess(Ops(call)[n]), !.slow = slow,
                                     !.ok = both, !.want = Zero, !.tmp = Zero]
  <2>1. rcall' = [rcall EXCEPT ![w] = rec] /\ UNCHANGED <<rresult, gemEnable, limited>>
    <3>1. /\ rcall' = [rcall EXCEPT ![w].at = n, ![w].pc = FirstAccess(Ops(call)[n]),
                                   ![w].slow = slow, ![w].ok = @ /\ ok,
                                   ![w].want = Zero, ![w].tmp = Zero]
          /\ UNCHANGED <<rresult, gemEnable, limited>>
      BY <1>9 DEF Proceed
    <3> QED
      BY <3>1 DEF RateInv, RateTypeOK, RateRecord
  <2>2. n \in 1 .. Len(Ops(call)) /\ n \in 1 .. 5
    <3> DEFINE len == Len(Ops(call))
    <3>1. len \in {2, 3, 5} /\ n \in 2 .. len + 1 /\ ~(n > len)
      BY <1>4, <1>9
    <3> HIDE DEF n, len
    <3>2. n \in 1 .. len /\ n \in 1 .. 5
      BY <3>1
    <3> QED
      BY <3>2 DEF len
  <2>3. FirstAccess(Ops(call)[n]) \in {"data", "ask"}
    BY DEF FirstAccess
  <2>4. /\ rec \in RateRecord /\ rec.pc = FirstAccess(Ops(call)[n]) /\ rec.call = call
        /\ rec.at = n /\ rec.slow = slow /\ rec.ok = both /\ rec.want = Zero /\ rec.tmp = Zero
    <3> HIDE DEF n, both
    <3> QED
      BY <1>1, <1>3, <2>2, <2>3, IdleType DEF RateRecord, RatePc, Call, call
  <2> HIDE DEF rec, n, both
  <2>5. rcall'[w] = rec /\ Call(w)' = call /\ Op(w)' = Ops(call)[n]
    <3>1. rcall'[w] = rec
      BY <2>1, <2>4, OwnCall
    <3> QED
      BY <2>4, <3>1 DEF Op, Call, call
  <2>6. CallOK(w)'
    <3>1. CallOK(w) /\ rcall[w].pc # "idle"
      BY DEF RateInv, Busy
    <3>2. /\ call.kind = "gem" => call.meter \in GemMeters
          /\ call.kind = "ring" => call.meter \in RingMeter
          /\ call.kind \in {"gem", "ring"} => call.limit \in Limit
          /\ call.kind = "get" => call.meter \in RingMeter \cup GemMeters
      BY <3>1 DEF CallOK, RateAt
    <3> HIDE DEF call
    <3>3. rec.pc = "ask" => Op(w)'.op # "write"
      BY <2>4, <2>5 DEF FirstAccess
    <3>4. rec.pc = "data" => Op(w)'.op # "read"
      <4>1. \A o : FirstAccess(o) = "data" => o.op = "write"
        BY DEF FirstAccess
      <4> QED
        BY <2>4, <2>5, <4>1
    <3> QED
      BY <1>1, <2>2, <2>3, <2>4, <2>5, <3>2, <3>3, <3>4 DEF CallOK, RateAt
  <2>7. Accessing(w)'
    <3>1. rec.pc = "data" => Op(w)'.op # "rmw"
      <4>1. \A o : FirstAccess(o) = "data" => o.op = "write"
        BY DEF FirstAccess
      <4> QED
        BY <2>4, <2>5, <4>1
    <3> QED
      BY <2>3, <2>4, <2>5, <3>1 DEF Accessing, DirOf
  <2>8. rec.pc # "idle"
    BY <2>3, <2>4
  <2> HIDE DEF call
  <2>9. ~roverlap =>
            /\ \A x \in Meter : mtr'[x].misc \in MiscValues
            /\ ~SwitchesOff(rec.call) => Polices'
            /\ Passed(mtr'[rec.call.meter], rec.call, Stage(rec.call, rec.at),
                      rec.ok, rec.slow, rfailed')
    BY <1>6, <2>1, <2>4 DEF Polices, n, both
  <2> QED
    BY <1>2, <2>1, <2>4, <2>6, <2>7, <2>8, <2>9, RateGoesOn DEF call
<1> QED
  BY <1>8, <1>9

-----------------------------------------------------------------------------
(* A step inside an access: the call and its position stay. *)
LEMMA SameAccess ==
    ASSUME RateInv, NEW w \in Writer, Busy(w), NEW rec \in RateRecord,
           rcall' = [rcall EXCEPT ![w] = rec], rec.pc # "idle", rec.call = Call(w),
           rec.at = rcall[w].at, rec.slow = rcall[w].slow,
           rec.pc \in {"ask", "answer"} => Op(w).op # "write",
           rec.pc \in {"data", "command", "check", "verify", "done"} => Op(w).op # "read"
    PROVE  /\ rcall'[w] = rec /\ Call(w)' = Call(w) /\ Op(w)' = Op(w) /\ MeterOf(w)' = MeterOf(w)
           /\ Op(w).op = "rmw" => Wanted(w)' = rec.want /\ Wanted(w) = rcall[w].want
           /\ Op(w).op # "rmw" => Wanted(w)' = Wanted(w)
           /\ CallOK(w)'
<1>1. rcall'[w] = rec
  BY OwnCall
<1>2. Call(w)' = Call(w) /\ Op(w)' = Op(w)
  BY <1>1 DEF Call, Op
<1>3. MeterOf(w)' = MeterOf(w)
  BY <1>2 DEF MeterOf, DirOf
<1>4. /\ Op(w).op = "rmw" => Wanted(w)' = rec.want /\ Wanted(w) = rcall[w].want
      /\ Op(w).op # "rmw" => Wanted(w)' = Wanted(w)
  <2>1. Op(w).op = "rmw" => Op(w).param # "rate"
    BY CallFacts
  <2> QED
    BY <1>1, <1>2, <2>1 DEF Wanted
<1>5. CallOK(w)'
  <2>1. CallOK(w) /\ rcall[w].pc # "idle"
    BY DEF RateInv, Busy
  <2>2. /\ Call(w).kind \in {"gem", "ring", "get"} /\ rcall[w].at \in 1 .. Len(Ops(Call(w)))
        /\ Call(w).kind = "gem" => Call(w).meter \in GemMeters
        /\ Call(w).kind = "ring" => Call(w).meter \in RingMeter
        /\ Call(w).kind \in {"gem", "ring"} => Call(w).limit \in Limit
        /\ Call(w).kind = "get" => Call(w).meter \in RingMeter \cup GemMeters
    BY <2>1 DEF CallOK, RateAt
  <2> QED
    BY <1>1, <1>2, <2>2 DEF CallOK, RateAt
<1> QED
  BY <1>1, <1>2, <1>3, <1>4, <1>5

(* One that leaves the meters alone. *)
LEMMA AccessKeeps ==
    ASSUME RateInv, NEW w \in Writer, Busy(w), NEW rec \in RateRecord,
           rcall' = [rcall EXCEPT ![w] = rec], rec.pc # "idle", rec.call = Call(w),
           rec.at = rcall[w].at, rec.slow = rcall[w].slow, rec.ok = rcall[w].ok,
           CallOK(w)', UNCHANGED <<mtr, roverlap, gemEnable, limited, rresult>>,
           dataReg' \in [Dir -> Values], cfgLock' \subseteq Writer,
           rfailed' \in BOOLEAN, rfailed => rfailed', ~roverlap => Accessing(w)'
    PROVE  RateInv'
<1> DEFINE m == mtr[Call(w).meter]
           n == Stage(Call(w), rcall[w].at)
<1>1. RateHw'
  BY DEF RateInv, RateTypeOK, RateHw
<1>2. ~roverlap => /\ \A x \in Meter : mtr[x].misc \in MiscValues
                   /\ ~SwitchesOff(Call(w)) => Polices
                   /\ Passed(m, Call(w), n, rcall[w].ok, rcall[w].slow, rfailed)
  BY DEF RateInv, RateSolo
<1>3. Polices => Polices'
  BY DEF Polices
<1> HIDE DEF m, n
<1>4. Passed(m, Call(w), n, rcall[w].ok, rcall[w].slow, rfailed) =>
      Passed(m, Call(w), n, rcall[w].ok, rcall[w].slow, rfailed')
  BY DEF Passed
<1>5. ~roverlap => /\ \A x \in Meter : mtr'[x].misc \in MiscValues
                   /\ ~SwitchesOff(rec.call) => Polices'
                   /\ Passed(mtr'[rec.call.meter], rec.call, Stage(rec.call, rec.at),
                             rec.ok, rec.slow, rfailed')
  BY <1>2, <1>3, <1>4 DEF m, n
<1> QED
  BY <1>1, <1>5, RateGoesOn

LEMMA AskParamKeeps == ASSUME RateInv, NEW w \in Writer, AskParam(w) PROVE RateInv'
<1>1. Busy(w) /\ rcall[w].pc \in {"ask", "check"}
  BY DEF AskParam, RateAt, Busy
<1> DEFINE rec == [rcall[w] EXCEPT !.pc = IF RateAt(w, "ask") THEN "answer" ELSE "verify"]
<1>2. /\ rcall' = [rcall EXCEPT ![w] = rec] /\ dataReg' = [dataReg EXCEPT ![DirOf(w)] = mtr[MeterOf(w)][Op(w).param]]
      /\ UNCHANGED <<mtr, cfgLock, gemEnable, limited, roverlap, rfailed, rresult>>
  <2>1. rcall' = [rcall EXCEPT ![w].pc = IF RateAt(w, "ask") THEN "answer" ELSE "verify"]
    BY DEF AskParam
  <2> QED
    BY <2>1 DEF AskParam, RateInv, RateTypeOK, RateRecord
<1>3. /\ rec \in RateRecord /\ rec.call = Call(w) /\ rec.at = rcall[w].at
      /\ rec.slow = rcall[w].slow /\ rec.ok = rcall[w].ok
      /\ rec.want = rcall[w].want /\ rec.tmp = rcall[w].tmp
      /\ rcall[w].pc = "ask" => rec.pc = "answer"
      /\ rcall[w].pc = "check" => rec.pc = "verify"
  BY <1>1, CallFacts DEF RateRecord, RatePc, Call, RateAt
<1>4. /\ dataReg' \in [Dir -> Values] /\ DirOf(w) \in Dir
      /\ dataReg'[DirOf(w)] = mtr[MeterOf(w)][Op(w).param]
  BY <1>1, <1>2, CallFacts DEF RateInv, RateTypeOK
<1> HIDE DEF rec
<1>5. /\ rcall[w].pc = "ask" => Op(w).op # "write"
      /\ rcall[w].pc = "check" => Op(w).op # "read"
  BY <1>1 DEF RateInv, CallOK, RateAt
<1>6. /\ rcall'[w] = rec /\ Call(w)' = Call(w) /\ Op(w)' = Op(w) /\ MeterOf(w)' = MeterOf(w)
      /\ Op(w).op = "rmw" => Wanted(w)' = rec.want /\ Wanted(w) = rcall[w].want
      /\ Op(w).op # "rmw" => Wanted(w)' = Wanted(w)
      /\ CallOK(w)'
  <2>1. /\ rec.pc # "idle"
        /\ rec.pc \in {"ask", "answer"} => Op(w).op # "write"
        /\ rec.pc \in {"data", "command", "check", "verify", "done"} => Op(w).op # "read"
    BY <1>1, <1>3, <1>5
  <2> QED
    BY <1>1, <1>2, <1>3, <2>1, SameAccess
<1>7. ~roverlap => Accessing(w)'
  <2> SUFFICES ASSUME ~roverlap
               PROVE  Accessing(w)'
    OBVIOUS
  <2>1. Accessing(w)
    BY <1>1 DEF RateInv, RateSolo
  <2>2. Wanted(w)' = Wanted(w)
    BY <1>3, <1>6
  <2>3. CASE rcall[w].pc = "ask"
    BY <1>2, <1>3, <1>4, <1>6, <2>1, <2>3 DEF Accessing, DirOf
  <2>4. CASE rcall[w].pc = "check"
    BY <1>2, <1>3, <1>4, <1>6, <2>1, <2>2, <2>4 DEF Accessing, DirOf
  <2> QED
    BY <1>1, <2>3, <2>4
<1>8. cfgLock' \subseteq Writer /\ rfailed' \in BOOLEAN /\ (rfailed => rfailed') /\ rec.pc # "idle"
  BY <1>1, <1>2, <1>3 DEF RateInv, RateTypeOK
<1> QED
  BY <1>1, <1>2, <1>3, <1>4, <1>6, <1>7, <1>8, AccessKeeps

(* The access a call in progress has come to. *)
LEMMA OpNow ==
    ASSUME RateInv, NEW w \in Writer, Busy(w)
    PROVE  LET n == Stage(Call(w), rcall[w].at)
               kind == Call(w).kind
               isSet == Call(w).kind \in {"gem", "ring"}
               op == Op(w).op
               param == Op(w).param
           IN  \/ /\ kind = "gem" /\ n = 1 /\ rcall[w].at = 1 /\ op = "rmw" /\ param = "misc"
                  /\ Op(w).bit = "en" /\ Op(w) = RmwOf("en", Call(w).limit > 0)
               \/ /\ kind = "gem" /\ n = 2 /\ rcall[w].at = 2 /\ op = "rmw" /\ param = "misc"
                  /\ Op(w).bit = "slow" /\ Op(w) = RmwOf("slow", FALSE)
               \/ isSet /\ n = 3 /\ op = "read" /\ param = "misc"
               \/ isSet /\ n = 4 /\ op = "write" /\ param = "rate"
               \/ isSet /\ n = 5 /\ op = "write" /\ param = "bucket"
               \/ kind = "get" /\ op = "read" /\ param \in {"misc", "rate"}
<1> DEFINE call == Call(w)
           at == rcall[w].at
           op == Ops(call)[at]
           n == Stage(call, at)
           isSet == call.kind \in {"gem", "ring"}
<1>1. call.kind \in {"gem", "ring", "get"} /\ at \in 1 .. Len(Ops(call)) /\ Op(w) = op
  BY CallFacts
<1> HIDE DEF call, at
<1>2. \/ call.kind = "gem" /\ at = 1 /\ n = 1 /\ op = RmwOf("en", call.limit > 0)
      \/ call.kind = "gem" /\ at = 2 /\ n = 2 /\ op = RmwOf("slow", FALSE)
      \/ isSet /\ n = 3 /\ op = ReadOf("misc")
      \/ isSet /\ n = 4 /\ op = WriteOf("rate")
      \/ isSet /\ n = 5 /\ op = WriteOf("bucket")
      \/ call.kind = "get" /\ op \in {ReadOf("misc"), ReadOf("rate")}
  BY <1>1, OpCases
<1> HIDE DEF op, n, isSet
<1>3. \/ /\ call.kind = "gem" /\ n = 1 /\ at = 1 /\ op.op = "rmw" /\ op.param = "misc"
         /\ op.bit = "en" /\ op = RmwOf("en", call.limit > 0)
      \/ /\ call.kind = "gem" /\ n = 2 /\ at = 2 /\ op.op = "rmw" /\ op.param = "misc"
         /\ op.bit = "slow" /\ op = RmwOf("slow", FALSE)
      \/ isSet /\ n = 3 /\ op.op = "read" /\ op.param = "misc"
      \/ isSet /\ n = 4 /\ op.op = "write" /\ op.param = "rate"
      \/ isSet /\ n = 5 /\ op.op = "write" /\ op.param = "bucket"
      \/ call.kind = "get" /\ op.op = "read" /\ op.param \in {"misc", "rate"}
  BY <1>2, OpFields
<1> QED
  BY <1>1, <1>3 DEF call, at, n, isSet

(* What a write is about to write is a register value. *)
LEMMA WantedType ==
    ASSUME RateInv, NEW w \in Writer, Busy(w), Op(w).op # "read"
    PROVE  /\ Wanted(w) \in Values
           /\ Op(w).op = "rmw" => Wanted(w) = rcall[w].want
           /\ Op(w).op = "write" /\ Op(w).param = "rate" => Wanted(w) = Rate(Call(w).limit, rcall[w].slow)
           /\ Op(w).op = "write" /\ Op(w).param = "bucket" => Wanted(w) = Bucket(Call(w).limit)
<1>1. rcall[w].want \in Values /\ rcall[w].slow \in BOOLEAN /\ Call(w).limit \in Limit
  BY CallFacts DEF RateRecord
<1>2. /\ Op(w).op = "rmw" => Wanted(w) = rcall[w].want
      /\ Op(w).op = "write" /\ Op(w).param = "rate" => Wanted(w) = Rate(Call(w).limit, rcall[w].slow)
      /\ Op(w).op = "write" /\ Op(w).param = "bucket" => Wanted(w) = Bucket(Call(w).limit)
  <2>1. Op(w).op = "rmw" => Op(w).param # "rate"
    BY CallFacts
  <2> QED
    BY <2>1 DEF Wanted
<1>3. \/ Op(w).op = "rmw"
      \/ Op(w).op = "write" /\ Op(w).param \in {"rate", "bucket"}
  BY OpNow
<1> QED
  BY <1>1, <1>2, <1>3, RateData

LEMMA PutDataKeeps == ASSUME RateInv, NEW w \in Writer, PutData(w) PROVE RateInv'
<1>1. Busy(w) /\ rcall[w].pc = "data" /\ Op(w).op # "read"
  BY DEF PutData, RateAt, Busy, RateInv, CallOK
<1> DEFINE rec == [rcall[w] EXCEPT !.pc = "command", !.want = Wanted(w)]
<1>2. /\ rcall' = [rcall EXCEPT ![w] = rec] /\ cfgLock' = {w}
      /\ dataReg' = [dataReg EXCEPT ![DirOf(w)] = Wanted(w)]
      /\ UNCHANGED <<mtr, gemEnable, limited, roverlap, rfailed, rresult>>
  <2>1. rcall' = [rcall EXCEPT ![w].pc = "command", ![w].want = Wanted(w)]
    BY DEF PutData
  <2> QED
    BY <2>1 DEF PutData, RateInv, RateTypeOK, RateRecord
<1>3. Wanted(w) \in Values
  BY <1>1, WantedType
<1>8. DirOf(w) \in Dir /\ dataReg' \in [Dir -> Values] /\ dataReg'[DirOf(w)] = Wanted(w)
  BY <1>1, <1>2, <1>3, CallFacts DEF RateInv, RateTypeOK
<1>4. /\ rec \in RateRecord /\ rec.call = Call(w) /\ rec.at = rcall[w].at
      /\ rec.slow = rcall[w].slow /\ rec.ok = rcall[w].ok
      /\ rec.want = Wanted(w) /\ rec.tmp = rcall[w].tmp /\ rec.pc = "command"
  BY <1>1, <1>3, CallFacts DEF RateRecord, RatePc, Call
<1> HIDE DEF rec
<1>5. /\ rcall'[w] = rec /\ Call(w)' = Call(w) /\ Op(w)' = Op(w) /\ MeterOf(w)' = MeterOf(w)
      /\ Op(w).op = "rmw" => Wanted(w)' = rec.want /\ Wanted(w) = rcall[w].want
      /\ Op(w).op # "rmw" => Wanted(w)' = Wanted(w)
      /\ CallOK(w)'
  BY <1>1, <1>2, <1>4, SameAccess
<1>6. ~roverlap => Accessing(w)'
  <2> SUFFICES ASSUME ~roverlap
               PROVE  Accessing(w)'
    OBVIOUS
  <2>1. Accessing(w)
    BY <1>1 DEF RateInv, RateSolo
  <2>2. Wanted(w)' = Wanted(w) /\ (Op(w).op = "rmw" => rec.want = rcall[w].want)
    BY <1>4, <1>5
  <2> QED
    BY <1>1, <1>2, <1>4, <1>5, <1>8, <2>1, <2>2 DEF Accessing, DirOf
<1>7. cfgLock' \subseteq Writer /\ rfailed' \in BOOLEAN /\ (rfailed => rfailed') /\ rec.pc # "idle"
  BY <1>1, <1>2, <1>4 DEF RateInv, RateTypeOK
<1> QED
  BY <1>1, <1>2, <1>4, <1>5, <1>6, <1>7, <1>8, AccessKeeps

LEMMA VerifyKeeps == ASSUME RateInv, NEW w \in Writer, Verify(w) PROVE RateInv'
<1>1. Busy(w) /\ rcall[w].pc = "verify" /\ Op(w).op # "read"
  BY DEF Verify, RateAt, Busy, RateInv, CallOK
<1> DEFINE reg == dataReg[DirOf(w)]
<1>2. PICK tmp \in {reg, rcall[w].tmp} :
            /\ rfailed' = (rfailed \/ tmp # reg)
            /\ rcall' = [rcall EXCEPT ![w].tmp = tmp,
                                      ![w].pc = IF Accepted(w, tmp) THEN "done" ELSE "data"]
  BY DEF Verify
<1> DEFINE rec == [rcall[w] EXCEPT !.tmp = tmp, !.pc = IF Accepted(w, tmp) THEN "done" ELSE "data"]
<1>3. rcall' = [rcall EXCEPT ![w] = rec] /\ UNCHANGED <<mtr, dataReg, cfgLock, gemEnable, limited, roverlap, rresult>>
  BY <1>2 DEF Verify, RateInv, RateTypeOK, RateRecord
<1>4. /\ rec \in RateRecord /\ rec.call = Call(w) /\ rec.at = rcall[w].at
      /\ rec.slow = rcall[w].slow /\ rec.ok = rcall[w].ok
      /\ rec.want = rcall[w].want /\ rec.tmp = tmp
      /\ rec.pc = IF tmp = rcall[w].want THEN "done" ELSE "data"
  <2>1. tmp \in Values
    BY <1>1, CallFacts DEF RateInv, RateTypeOK, RateRecord
  <2> QED
    BY <1>1, <2>1, CallFacts DEF RateRecord, RatePc, Call, Accepted
<1> HIDE DEF rec
<1>5. /\ rcall'[w] = rec /\ Call(w)' = Call(w) /\ Op(w)' = Op(w) /\ MeterOf(w)' = MeterOf(w)
      /\ Op(w).op = "rmw" => Wanted(w)' = rec.want /\ Wanted(w) = rcall[w].want
      /\ Op(w).op # "rmw" => Wanted(w)' = Wanted(w)
      /\ CallOK(w)'
  <2>1. rec.pc \in {"done", "data"}
    BY <1>4
  <2> QED
    BY <1>1, <1>3, <1>4, <2>1, SameAccess
<1>6. ~roverlap => Accessing(w)'
  <2> SUFFICES ASSUME ~roverlap
               PROVE  Accessing(w)'
    OBVIOUS
  <2>1. Accessing(w)
    BY <1>1 DEF RateInv, RateSolo
  <2>2. Wanted(w)' = Wanted(w) /\ Wanted(w) = rcall[w].want
    BY <1>1, <1>4, <1>5, <2>1 DEF Accessing, DirOf
  <2>3. /\ reg = mtr[MeterOf(w)][Op(w).param]
        /\ Wanted(w) # Zero => rcall[w].tmp # Wanted(w)
        /\ Op(w).op = "rmw" =>
               /\ rcall[w].want \in MiscValues
               /\ Op(w).bit = "en" => (Enabled(rcall[w].want) <=> Call(w).limit > 0)
               /\ Op(w).bit = "slow" =>
                    (Enabled(rcall[w].want) <=> Enabled(mtr[Call(w).meter].misc))
    BY <1>1, <2>1 DEF Accessing, DirOf
  <2>4. CASE tmp = rcall[w].want
    <3>1. rec.pc = "done"
      BY <1>4, <2>4
    <3>2. rec.want # Zero \/ ~rfailed' => reg = rec.want
      <4>1. CASE tmp = reg
        BY <1>4, <2>4, <4>1
      <4>2. CASE tmp # reg
        BY <1>2, <1>4, <2>2, <2>3, <2>4, <4>2
      <4> QED
        BY <4>1, <4>2
    <3> QED
      BY <1>1, <1>3, <1>4, <1>5, <2>2, <2>3, <3>1, <3>2 DEF Accessing, DirOf
  <2>5. CASE tmp # rcall[w].want
    <3>1. rec.pc = "data"
      BY <1>4, <2>5
    <3> QED
      BY <1>1, <1>3, <1>4, <1>5, <2>2, <2>3, <2>5, <3>1 DEF Accessing, DirOf
  <2> QED
    BY <2>4, <2>5
<1>7. /\ cfgLock' \subseteq Writer /\ rfailed' \in BOOLEAN /\ (rfailed => rfailed') /\ rec.pc # "idle"
      /\ dataReg' \in [Dir -> Values]
  BY <1>1, <1>2, <1>3, <1>4 DEF RateInv, RateTypeOK
<1> QED
  BY <1>1, <1>3, <1>4, <1>5, <1>6, <1>7, AccessKeeps

LEMMA PutCommandKeeps == ASSUME RateInv, NEW w \in Writer, PutCommand(w) PROVE RateInv'
<1>1. Busy(w) /\ rcall[w].pc = "command" /\ Op(w).op # "read"
  BY DEF PutCommand, RateAt, Busy, RateInv, CallOK
<1> DEFINE rec == [rcall[w] EXCEPT !.pc = "check"]
           meter == Call(w).meter
           param == Op(w).param
           reg == dataReg[DirOf(w)]
<1>2. /\ rcall' = [rcall EXCEPT ![w] = rec] /\ cfgLock' = {}
      /\ UNCHANGED <<dataReg, gemEnable, limited, roverlap, rfailed, rresult>>
  <2>1. rcall' = [rcall EXCEPT ![w].pc = "check"]
    BY DEF PutCommand
  <2> QED
    BY <2>1 DEF PutCommand, RateInv, RateTypeOK, RateRecord
<1>3. /\ rec \in RateRecord /\ rec.call = Call(w) /\ rec.at = rcall[w].at
      /\ rec.slow = rcall[w].slow /\ rec.ok = rcall[w].ok
      /\ rec.want = rcall[w].want /\ rec.tmp = rcall[w].tmp /\ rec.pc = "check"
  BY <1>1, CallFacts DEF RateRecord, RatePc, Call
<1>4. meter \in Meter /\ MeterOf(w) = meter /\ param \in Param /\ meter \in Meter
      /\ Call(w).kind \in {"gem", "ring"} /\ Call(w).limit \in Limit
  BY <1>1, CallFacts
<1>5. mtr' = [mtr EXCEPT ![meter][param] = reg] \/ mtr' = mtr
  BY <1>4 DEF PutCommand
<1>6. mtr \in [Meter -> [Param -> Values]] /\ reg \in Values
  BY <1>1, CallFacts DEF RateInv, RateTypeOK
<1> HIDE DEF rec, meter, param, reg
<1>7. /\ \A x \in Meter : x # meter => mtr'[x] = mtr[x]
      /\ \A y \in Param : y # param => mtr'[meter][y] = mtr[meter][y]
      /\ mtr'[meter][param] \in {reg, mtr[meter][param]}
      /\ mtr' \in [Meter -> [Param -> Values]]
  BY <1>4, <1>5, <1>6
<1>8. /\ rcall'[w] = rec /\ Call(w)' = Call(w) /\ Op(w)' = Op(w) /\ MeterOf(w)' = MeterOf(w)
      /\ Op(w).op = "rmw" => Wanted(w)' = rec.want /\ Wanted(w) = rcall[w].want
      /\ Op(w).op # "rmw" => Wanted(w)' = Wanted(w)
      /\ CallOK(w)'
  BY <1>1, <1>2, <1>3, SameAccess
<1>9. RateHw'
  BY <1>2, <1>7 DEF RateInv, RateTypeOK, RateHw
<1>10. ASSUME ~roverlap
       PROVE  /\ \A m \in Meter : mtr'[m].misc \in MiscValues
              /\ ~SwitchesOff(rec.call) => Polices'
              /\ Accessing(w)'
              /\ Passed(mtr'[rec.call.meter], rec.call, Stage(rec.call, rec.at),
                        rec.ok, rec.slow, rfailed')
  <2> DEFINE old == mtr[meter]
             new == mtr'[meter]
             n == Stage(Call(w), rcall[w].at)
             v == Call(w).limit
  <2>1. Accessing(w)
    BY <1>1, <1>10 DEF RateInv, RateSolo
  <2>2. /\ \A m \in Meter : mtr[m].misc \in MiscValues
        /\ ~SwitchesOff(Call(w)) => Polices
        /\ Passed(old, Call(w), n, rcall[w].ok, rcall[w].slow, rfailed)
    BY <1>1, <1>10 DEF RateInv, RateSolo, meter
  <2>3. /\ reg = rcall[w].want /\ rcall[w].want = Wanted(w)
        /\ Wanted(w) # Zero => rcall[w].tmp # Wanted(w)
        /\ Op(w).op = "rmw" =>
               /\ rcall[w].want \in MiscValues
               /\ Op(w).bit = "en" => (Enabled(rcall[w].want) <=> v > 0)
               /\ Op(w).bit = "slow" => (Enabled(rcall[w].want) <=> Enabled(old.misc))
    BY <1>1, <2>1 DEF Accessing, meter, reg
  <2>4. v \in Nat
    BY <1>4, RateAssumption
  <2>5. \/ /\ Call(w).kind = "gem" /\ n = 1 /\ param = "misc" /\ Op(w).op = "rmw" /\ Op(w).bit = "en"
        \/ /\ Call(w).kind = "gem" /\ n = 2 /\ param = "misc" /\ Op(w).op = "rmw" /\ Op(w).bit = "slow"
        \/ n = 4 /\ param = "rate" /\ Op(w).op = "write"
        \/ n = 5 /\ param = "bucket" /\ Op(w).op = "write"
    BY <1>1, <1>4, OpNow DEF param
  <2>6. /\ param = "rate" => Wanted(w) = Rate(v, rcall[w].slow)
        /\ param = "bucket" => Wanted(w) = Bucket(v)
    BY <1>1, <2>5, WantedType DEF param
  <2> HIDE DEF old, new, n, v
  <2>7. /\ param # "misc" => new.misc = old.misc
        /\ param # "rate" => new.rate = old.rate
        /\ param # "bucket" => new.bucket = old.bucket
        /\ param = "misc" => new.misc \in {rcall[w].want, old.misc}
        /\ param = "rate" => new.rate \in {rcall[w].want, old.rate}
        /\ param = "bucket" => new.bucket \in {rcall[w].want, old.bucket}
    BY <1>6, <1>7, <2>3 DEF old, new, Param
  <2>8. old.misc \in MiscValues
    BY <1>4, <2>2 DEF old
  <2>9. new.misc \in MiscValues
    BY <2>3, <2>5, <2>7, <2>8
  <2>10. \A m \in Meter : mtr'[m].misc \in MiscValues
    BY <1>7, <2>2, <2>9 DEF new
  <2>11. ~SwitchesOff(rec.call) => Polices'
    <3> SUFFICES ASSUME ~SwitchesOff(Call(w)), NEW d \in limited
                 PROVE  Enabled(mtr'[GemMeter(d)].misc)
      BY <1>2, <1>3 DEF Polices
    <3>0. d \in Dir /\ ~SwitchesOff(Call(w)) /\ d \in limited
      BY DEF RateInv, RateTypeOK
    <3>1. Enabled(mtr[GemMeter(d)].misc) /\ GemMeter(d) \in GemMeters /\ GemMeter(d) \in Meter
      <4>1. Enabled(mtr[GemMeter(d)].misc)
        BY <2>2, <3>0 DEF Polices
      <4>2. GemMeter(d) \in GemMeters
        BY <3>0 DEF GemMeters
      <4>3. GemMeter(d) \in Meter
        BY <3>0, RateAssumption DEF GemMeter, Meter
      <4> QED
        BY <4>1, <4>2, <4>3
    <3>2. CASE meter # GemMeter(d)
      BY <1>7, <3>1, <3>2
    <3>3. CASE meter = GemMeter(d)
      <4>1. v # 0
        <5>1. Call(w).kind # "ring"
          BY <1>1, <3>1, <3>3, CallFacts DEF meter
        <5> QED
          BY <1>4, <5>1 DEF SwitchesOff, v
      <4>2. Enabled(old.misc)
        BY <3>1, <3>3 DEF old
      <4>3. Enabled(new.misc)
        BY <2>3, <2>4, <2>5, <2>7, <4>1, <4>2
      <4> QED
        BY <3>3, <4>3 DEF new
    <3> QED
      BY <3>2, <3>3
  <2>12. Accessing(w)'
    <3>1. Wanted(w)' = Wanted(w)
      BY <1>3, <1>8
    <3>2. Op(w).op = "rmw" /\ Op(w).bit = "slow" => (Enabled(rcall[w].want) <=> Enabled(new.misc))
      BY <2>3, <2>5, <2>7
    <3>3. /\ rcall'[w].pc = "check" /\ rcall'[w].want = rcall[w].want /\ rcall'[w].tmp = rcall[w].tmp
          /\ new = mtr'[Call(w).meter]
      BY <1>3, <1>8 DEF new, meter
    <3> QED
      BY <1>8, <2>3, <3>1, <3>2, <3>3 DEF Accessing, v
  <2>13. Passed(new, Call(w), n, rcall[w].ok, rcall[w].slow, rfailed)
    <3>1. CASE n = 1
      BY <3>1 DEF Passed
    <3>2. CASE n = 2
      <4>1. Enabled(new.misc) <=> Enabled(old.misc)
        BY <2>3, <2>5, <2>7, <3>2
      <4> QED
        BY <2>2, <3>2, <4>1 DEF Passed
    <3>3. CASE n = 4
      <4>1. new.misc = old.misc
        BY <2>5, <2>7, <3>3
      <4> QED
        BY <2>2, <3>3, <4>1 DEF Passed
    <3>4. CASE n = 5
      <4>1. new.misc = old.misc /\ new.rate = old.rate
        BY <2>5, <2>7, <3>4
      <4> QED
        BY <2>2, <3>4, <4>1 DEF Passed
    <3> QED
      BY <2>5, <3>1, <3>2, <3>3, <3>4
  <2> QED
    BY <1>2, <1>3, <2>10, <2>11, <2>12, <2>13 DEF new, n, meter
<1> QED
  BY <1>1, <1>2, <1>3, <1>8, <1>9, <1>10, RateGoesOn

LEMMA DoneKeeps == ASSUME RateInv, NEW w \in Writer, Done(w) PROVE RateInv'
<1>1. Busy(w) /\ rcall[w].pc = "done" /\ Op(w).op # "read"
  BY DEF Done, RateAt, Busy, RateInv, CallOK
<1>2. PICK ok \in BOOLEAN : Proceed(w, ok, rcall[w].slow)
  BY DEF Done
<1>3. UNCHANGED <<mtr, dataReg, cfgLock, roverlap, rfailed>>
  BY DEF Done
<1> DEFINE m == mtr[Call(w).meter]
           call == Call(w)
           n == Stage(Call(w), rcall[w].at)
           next == Stage(Call(w), Following(w, ok))
           okay == rcall[w].ok
           slow == rcall[w].slow
<1>4. rcall[w] \in RateRecord /\ okay \in BOOLEAN /\ slow \in BOOLEAN
      /\ call.kind \in {"gem", "ring"} /\ call.limit \in Limit /\ MeterOf(w) = call.meter
  BY <1>1, CallFacts DEF RateRecord
<1>5. call.limit \in Nat
  BY <1>4, RateAssumption
<1>6. ~roverlap => Passed(m, call, next, okay /\ ok, slow, rfailed')
  <2> SUFFICES ASSUME ~roverlap
               PROVE  Passed(m, call, next, okay /\ ok, slow, rfailed)
    BY <1>3
  <2>1. Accessing(w) /\ Passed(m, call, n, okay, slow, rfailed)
    BY <1>1 DEF RateInv, RateSolo
  <2>2. /\ rcall[w].want = Wanted(w)
        /\ Wanted(w) # Zero \/ ~rfailed => mtr[call.meter][Op(w).param] = Wanted(w)
        /\ Op(w).op = "rmw" /\ Op(w).bit = "en" => (Enabled(Wanted(w)) <=> call.limit > 0)
    BY <1>1, <1>4, <2>1 DEF Accessing
  <2>3. \/ n = 1 /\ Op(w).param = "misc" /\ Op(w).op = "rmw" /\ Op(w).bit = "en"
           /\ call.kind = "gem" /\ rcall[w].at = 1
        \/ n = 2 /\ call.kind = "gem" /\ rcall[w].at = 2
        \/ n = 4 /\ Op(w).param = "rate" /\ Op(w).op = "write"
        \/ n = 5 /\ Op(w).param = "bucket" /\ Op(w).op = "write"
    BY <1>1, <1>4, OpNow
  <2>4. /\ ok => next = n + 1
        /\ ~ok => next = 3 \/ n >= 4
    <3>1. ok => Following(w, ok) = rcall[w].at + 1
      BY <1>1, FollowingIs
    <3>2. ~ok /\ call.kind = "gem" /\ rcall[w].at <= 2 => Following(w, ok) = 3
      BY <1>1, FollowingIs
    <3>3. next = n + (Following(w, ok) - rcall[w].at) /\ rcall[w].at \in Int
      BY <1>1, <1>4, FollowingIs DEF RateRecord
    <3> DEFINE follow == Following(w, ok)
               at == rcall[w].at
    <3> HIDE DEF follow, at, n, next, call
    <3> QED
      BY <2>3, <3>1, <3>2, <3>3 DEF follow, at
  <2>5. n = 1 => (okay /\ ok /\ (call.limit > 0 \/ ~rfailed) => (Enabled(m.misc) <=> call.limit > 0))
    <3> SUFFICES ASSUME n = 1, call.limit > 0 \/ ~rfailed
                 PROVE  Enabled(m.misc) <=> call.limit > 0
      OBVIOUS
    <3>1. Enabled(Wanted(w)) <=> call.limit > 0
      BY <2>2, <2>3
    <3>2. Wanted(w) # Zero \/ ~rfailed
      BY <3>1, MiscData
    <3>3. m.misc = Wanted(w)
      BY <2>2, <2>3, <3>2
    <3> QED
      BY <3>1, <3>3
  <2>6. n = 4 /\ ~rfailed => m.rate = Rate(call.limit, slow)
    <3> SUFFICES ASSUME n = 4, ~rfailed
                 PROVE  m.rate = Rate(call.limit, slow)
      OBVIOUS
    <3>1. Wanted(w) = Rate(call.limit, slow) /\ Op(w).param = "rate"
      BY <1>1, <2>3, WantedType
    <3> QED
      BY <2>2, <3>1
  <2>7. n = 5 => m.bucket = Bucket(call.limit)
    <3> SUFFICES ASSUME n = 5
                 PROVE  m.bucket = Bucket(call.limit)
      OBVIOUS
    <3>1. Wanted(w) = Bucket(call.limit) /\ Op(w).param = "bucket"
      BY <1>1, <2>3, WantedType
    <3>2. Wanted(w) # Zero
      BY <3>1, RateData
    <3> QED
      BY <2>2, <3>1, <3>2
  <2> HIDE DEF m, call, n, next, okay, slow
  <2>8. CASE ok
    <3>1. next = n + 1
      BY <2>4, <2>8
    <3> QED
      BY <2>1, <2>3, <2>5, <2>6, <2>7, <3>1 DEF Passed
  <2>9. CASE ~ok
    <3>1. next = 3 \/ n >= 4
      BY <2>4, <2>9
    <3> QED
      BY <2>1, <2>3, <2>9, <3>1 DEF Passed
  <2> QED
    BY <2>8, <2>9
<1>7. rfailed' \in BOOLEAN /\ slow \in BOOLEAN
  BY <1>3, <1>4 DEF RateInv, RateTypeOK
<1> QED
  BY <1>1, <1>2, <1>3, <1>6, <1>7, ProceedKeeps

(* The end of a read of the mode word, with the tick it is taken to say. *)
LEMMA TickRead ==
    ASSUME RateInv, NEW w \in Writer, Busy(w), Op(w).op = "read",
           NEW slow \in BOOLEAN, NEW ok \in BOOLEAN, Proceed(w, ok, slow),
           UNCHANGED <<roverlap, mtr, dataReg, cfgLock>>, rfailed' \in BOOLEAN, rfailed => rfailed',
           ~roverlap /\ ~rfailed' /\ Op(w).param = "misc" =>
                (slow <=> Slow(mtr[MeterOf(w)].misc)) \/ Call(w).kind = "get"
    PROVE  RateInv'
<1> DEFINE m == mtr[Call(w).meter]
           call == Call(w)
           n == Stage(Call(w), rcall[w].at)
           next == Stage(Call(w), Following(w, ok))
           okay == rcall[w].ok
           old == rcall[w].slow
<1>1. rcall[w] \in RateRecord /\ okay \in BOOLEAN /\ rcall[w].at \in Int
      /\ call.kind \in {"gem", "ring", "get"}
  BY CallFacts DEF RateRecord
<1>2. ~roverlap => Passed(m, call, next, okay /\ ok, slow, rfailed')
  <2> SUFFICES ASSUME ~roverlap, call.kind \in {"gem", "ring"}
               PROVE  Passed(m, call, next, okay /\ ok, slow, rfailed')
    BY <1>1 DEF Passed
  <2>1. Passed(m, call, n, okay, old, rfailed)
    BY DEF RateInv, RateSolo
  <2>2. n = 3 /\ Op(w).param = "misc"
    BY OpNow
  <2>4. MeterOf(w) = call.meter
    BY DEF MeterOf
  <2>5. ~rfailed' => (slow <=> Slow(m.misc))
    BY <2>2, <2>4
  <2>6. (ok => next = 4) /\ (~ok => next = 6)
    <3> DEFINE follow == Following(w, ok)
               at == rcall[w].at
               len == Len(Ops(call))
    <3>1. /\ ok => follow = at + 1
          /\ next = n + (follow - at) /\ n = 3 /\ at \in Int
      BY <1>1, <2>2, FollowingIs
    <3>2. ~ok => follow = len + 1 /\ (follow > len => next = 6) /\ len \in Int
      <4>1. call.kind = "gem" => ~(at <= 2)
        BY <2>2 DEF Stage
      <4>2. len \in {2, 3, 5}
        BY FollowingIs
      <4> QED
        BY <2>2, <4>1, <4>2, FollowingIs
    <3> HIDE DEF follow, at, n, next, len
    <3> QED
      BY <3>1, <3>2
  <2> HIDE DEF m, call, n, next, okay, old
  <2>7. CASE ok
    BY <2>1, <2>2, <2>5, <2>6, <2>7 DEF Passed
  <2>8. CASE ~ok
    BY <2>5, <2>6, <2>8 DEF Passed
  <2> QED
    BY <2>7, <2>8
<1> QED
  BY <1>2, ProceedKeeps

LEMMA AnswerParamKeeps == ASSUME RateInv, NEW w \in Writer, AnswerParam(w) PROVE RateInv'
<1>1. Busy(w) /\ rcall[w].pc = "answer" /\ Op(w).op # "write"
  BY DEF AnswerParam, RateAt, Busy, RateInv, CallOK
<1>2. UNCHANGED <<mtr, dataReg, cfgLock, roverlap, rfailed>>
  BY DEF AnswerParam
<1>3. rfailed' \in BOOLEAN /\ (rfailed => rfailed') /\ dataReg' \in [Dir -> Values] /\ cfgLock' \subseteq Writer
  BY <1>2 DEF RateInv, RateTypeOK
<1> DEFINE reg == dataReg[DirOf(w)]
<1>4. ~roverlap => /\ reg = mtr[MeterOf(w)][Op(w).param] /\ rcall[w].tmp = Zero
                   /\ Op(w).param = "misc" => reg \in MiscValues
  <2> SUFFICES ASSUME ~roverlap
               PROVE  /\ reg = mtr[MeterOf(w)][Op(w).param] /\ rcall[w].tmp = Zero
                      /\ Op(w).param = "misc" => reg \in MiscValues
    OBVIOUS
  <2>1. Accessing(w) /\ \A x \in Meter : mtr[x].misc \in MiscValues
    BY <1>1 DEF RateInv, RateSolo
  <2>2. MeterOf(w) \in Meter
    BY <1>1, CallFacts
  <2> QED
    BY <1>1, <2>1, <2>2 DEF Accessing
<1>5. CASE Op(w).op = "rmw"
  <2>1. PICK val \in AsMisc(reg) :
            /\ rcall' = [rcall EXCEPT ![w].pc = "data", ![w].want = Changed(val, Op(w))]
            /\ UNCHANGED <<rresult, gemEnable, limited>>
    BY <1>5 DEF AnswerParam
  <2>2. val \in MiscValues
    BY MiscData
  <2> DEFINE new == Changed(val, Op(w))
             rec == [rcall[w] EXCEPT !.pc = "data", !.want = new]
  <2>3. rcall' = [rcall EXCEPT ![w] = rec]
    BY <2>1 DEF RateInv, RateTypeOK, RateRecord
  <2>4. /\ Op(w).param = "misc" /\ MeterOf(w) = Call(w).meter
        /\ \/ Op(w).bit = "en" /\ Op(w) = RmwOf("en", Call(w).limit > 0)
           \/ Op(w).bit = "slow" /\ Op(w) = RmwOf("slow", FALSE)
    BY <1>1, <1>5, OpNow, CallFacts
  <2>5. /\ new \in MiscValues
        /\ Op(w).bit = "en" => (Enabled(new) <=> Call(w).limit > 0)
        /\ Op(w).bit = "slow" => (Enabled(new) <=> Enabled(val))
    <3>1. CASE Op(w) = RmwOf("en", Call(w).limit > 0)
      <4>1. Op(w).bit = "en"
        BY <3>1, OpFields
      <4> QED
        BY <2>2, <3>1, <4>1, ChangedData
    <3>2. CASE Op(w) = RmwOf("slow", FALSE)
      <4>1. Op(w).bit = "slow"
        BY <3>2, OpFields
      <4> QED
        BY <2>2, <3>2, <4>1, ChangedData
    <3> QED
      BY <2>4, <3>1, <3>2
  <2> HIDE DEF new
  <2>6. /\ rec \in RateRecord /\ rec.call = Call(w) /\ rec.at = rcall[w].at
        /\ rec.slow = rcall[w].slow /\ rec.ok = rcall[w].ok
        /\ rec.want = new /\ rec.tmp = rcall[w].tmp /\ rec.pc = "data"
    BY <1>1, <2>5, CallFacts, MiscData DEF RateRecord, RatePc, Call
  <2> HIDE DEF rec
  <2>7. /\ rcall'[w] = rec /\ Call(w)' = Call(w) /\ Op(w)' = Op(w) /\ MeterOf(w)' = MeterOf(w)
        /\ Wanted(w)' = rec.want
        /\ CallOK(w)'
    BY <1>1, <1>5, <2>3, <2>6, SameAccess
  <2>8. ~roverlap => Accessing(w)'
    <3> SUFFICES ASSUME ~roverlap
                 PROVE  Accessing(w)'
      OBVIOUS
    <3>1. val = mtr[Call(w).meter].misc
      BY <1>4, <2>4, MiscData
    <3> QED
      BY <1>2, <1>4, <2>4, <2>5, <2>6, <2>7, <3>1 DEF Accessing
  <2>9. rec.pc # "idle"
    BY <2>6
  <2> QED
    BY <1>1, <1>2, <1>3, <2>1, <2>3, <2>6, <2>7, <2>8, <2>9, AccessKeeps
<1>6. CASE Op(w).op # "rmw" /\ Op(w).param = "misc"
  <2>1. Op(w).op = "read"
    BY <1>1, <1>6, OpNow
  <2>2. PICK val \in AsMisc(reg) : Ticked(w, Slow(val))
    BY <1>6 DEF AnswerParam
  <2>3. Slow(val) \in BOOLEAN
    BY DEF Slow
  <2>4. ~roverlap => (Slow(val) <=> Slow(mtr[MeterOf(w)].misc))
    BY <1>4, <1>6, MiscData
  <2>5. PICK ok \in BOOLEAN : Proceed(w, ok, Slow(val))
    BY <2>2 DEF Ticked
  <2> QED
    BY <1>1, <1>2, <1>3, <2>1, <2>3, <2>4, <2>5, TickRead
<1>7. CASE Op(w).op # "rmw" /\ Op(w).param # "misc"
  <2>1. Op(w).op = "read"
    BY <1>1, <1>7, OpNow
  <2>2. Proceed(w, TRUE, rcall[w].slow)
    BY <1>7 DEF AnswerParam
  <2>3. rcall[w].slow \in BOOLEAN
    BY <1>1, CallFacts DEF RateRecord
  <2> QED
    BY <1>1, <1>2, <1>3, <1>7, <2>1, <2>2, <2>3, TickRead
<1> QED
  BY <1>5, <1>6, <1>7

LEMMA NoParamKeeps == ASSUME RateInv, NEW w \in Writer, NoParam(w) PROVE RateInv'
<1>1. Busy(w) /\ rcall[w].pc = "answer" /\ Op(w).op # "write"
  BY DEF NoParam, RateAt, Busy, RateInv, CallOK
<1>2. UNCHANGED <<mtr, dataReg, cfgLock, roverlap>> /\ rfailed' /\ rfailed' \in BOOLEAN
  BY DEF NoParam
<1>3. rcall[w].slow \in BOOLEAN /\ rcall[w].at \in Int
  BY <1>1, CallFacts DEF RateRecord
<1>4. CASE Op(w).op = "rmw"
  <2>1. PICK ok \in BOOLEAN : ok = FALSE /\ Proceed(w, ok, rcall[w].slow)
    BY <1>4 DEF NoParam
  <2>2. Call(w).kind = "gem" /\ rcall[w].at \in {1, 2}
    BY <1>1, <1>4, OpNow
  <2> DEFINE next == Stage(Call(w), Following(w, ok))
  <2>3. next = 3
    <3>1. rcall[w].at <= 2 /\ ~ok
      BY <2>1, <2>2
    <3>2. Following(w, ok) = 3
      BY <1>1, <2>2, <3>1, FollowingIs
    <3> QED
      BY <2>2, <3>2 DEF Stage
  <2> HIDE DEF next
  <2>4. Passed(mtr[Call(w).meter], Call(w), next, rcall[w].ok /\ ok, rcall[w].slow, rfailed')
    BY <2>1, <2>3 DEF Passed
  <2> QED
    BY <1>1, <1>2, <1>3, <2>1, <2>4, ProceedKeeps DEF next
<1>5. CASE Op(w).op # "rmw"
  <2> DEFINE slow == IF Op(w).param = "misc" THEN FALSE ELSE rcall[w].slow
  <2>1. slow \in BOOLEAN /\ \E ok \in BOOLEAN : Proceed(w, ok, slow)
    BY <1>3, <1>5 DEF NoParam, Ticked
  <2>2. Op(w).op = "read"
    BY <1>1, <1>5, OpNow
  <2> HIDE DEF slow
  <2> QED
    BY <1>1, <1>2, <2>1, <2>2, TickRead
<1> QED
  BY <1>4, <1>5

-----------------------------------------------------------------------------
LEMMA RateBeginKeeps ==
    ASSUME RateInv, NEW w \in Writer, NEW call \in RateCall, RateBegin(w, call),
           call.kind \in {"gem", "ring", "get"},
           call.kind = "gem" => call.meter \in GemMeters,
           call.kind = "ring" => call.meter \in RingMeter,
           call.kind \in {"gem", "ring"} => call.limit \in Limit,
           call.kind = "get" => call.meter \in RingMeter \cup GemMeters
    PROVE  RateInv'
<1> DEFINE rec == [RateIdle EXCEPT !.call = call, !.pc = FirstAccess(Ops(call)[1])]
           op == Ops(call)[1]
<1>1. rcall' = [rcall EXCEPT ![w] = rec]
  BY DEF RateBegin
<1>2. /\ ~Busy(w) /\ rfailed' = FALSE /\ rresult' = [x \in Writer |-> NoCall]
      /\ roverlap' = (roverlap \/ \E x \in Writer \ {w} : Busy(x))
      /\ UNCHANGED <<mtr, dataReg, cfgLock, gemEnable, limited>>
  BY DEF RateBegin, RateAt, Busy
<1>3. op.op # "write" /\ 1 \in 1 .. Len(Ops(call))
      /\ (call.kind = "gem" => Stage(call, 1) = 1)
      /\ (call.kind = "ring" => Stage(call, 1) = 3)
  <2>1. CASE call.kind = "gem"
    <3>1. op = RmwOf("en", call.limit > 0) /\ Len(Ops(call)) = 5
      BY <2>1, OpTable
    <3>2. op.op = "rmw"
      BY <3>1, OpFields
    <3> HIDE DEF op
    <3> QED
      BY <2>1, <3>1, <3>2 DEF Stage
  <2>2. CASE call.kind \in {"ring", "get"}
    <3>1. op = ReadOf("misc") /\ Len(Ops(call)) \in {2, 3}
      BY <2>2, OpTable
    <3>2. op.op = "read"
      BY <3>1, OpFields
    <3> HIDE DEF op
    <3> QED
      BY <2>2, <3>1, <3>2 DEF Stage
  <2> QED
    BY <2>1, <2>2
<1>4. /\ rec \in RateRecord /\ rec.pc = "ask" /\ rec.call = call /\ rec.at = 1
      /\ rec.tmp = Zero
  <2>1. FirstAccess(op) = "ask"
    BY <1>3 DEF FirstAccess
  <2> HIDE DEF op
  <2>2. rec = [RateIdle EXCEPT !.call = call, !.pc = "ask"]
    BY <2>1 DEF op
  <2> HIDE DEF rec
  <2> QED
    BY <2>2, IdleType DEF RateIdle, RateRecord, RatePc
<1> HIDE DEF rec
<1>5. /\ rcall'[w] = rec /\ \A x \in Writer : x # w => rcall'[x] = rcall[x]
      /\ rcall' \in [Writer -> RateRecord] /\ Call(w)' = call /\ Op(w)' = op
      /\ \A x \in Writer : x # w => CallOK(x)' /\ (Busy(x)' <=> Busy(x))
  <2>1. /\ rcall'[w] = rec /\ \A x \in Writer : x # w => rcall'[x] = rcall[x]
        /\ rcall' \in [Writer -> RateRecord] /\ Call(w)' = rec.call
        /\ \A x \in Writer : x # w => CallOK(x)' /\ (Busy(x)' <=> Busy(x))
    BY <1>1, <1>4, OwnCall
  <2> QED
    BY <1>4, <2>1 DEF Op, Call
<1> HIDE DEF op
<1>6. CallOK(w)'
  BY <1>3, <1>4, <1>5 DEF CallOK, RateAt
<1>7. RateTypeOK'
  <2>1. roverlap' \in BOOLEAN /\ rresult' \in [Writer -> RateCall] /\ rfailed' \in BOOLEAN
    BY <1>2, IdleType
  <2> QED
    BY <1>2, <1>5, <2>1 DEF RateInv, RateTypeOK
<1>8. RateSolo'
  <2> SUFFICES ASSUME ~roverlap'
               PROVE  RateSolo'
    BY DEF RateSolo
  <2>1. ~roverlap /\ \A x \in Writer : ~Busy(x)
    BY <1>2
  <2>2. Busy(w)' /\ \A x \in Writer : x # w => ~Busy(x)'
    BY <1>4, <1>5, <2>1 DEF Busy
  <2>3. (\A x \in Meter : mtr[x].misc \in MiscValues) /\ Polices
    BY <2>1 DEF RateInv, RateSolo
  <2>4. Polices'
    BY <1>2, <2>3 DEF Polices
  <2>5. \A x \in Writer : rresult'[x] = NoCall
    BY <1>2
  <2>6. Accessing(w)'
    BY <1>4, <1>5 DEF Accessing
  <2>7. \A m, ok, slow : Passed(m, call, Stage(call, 1), ok, slow, FALSE)
    BY <1>3 DEF Passed
  <2>8. \A m : Passed(m, NoCall, 6, TRUE, TRUE, FALSE)
    BY DEF Passed, NoCall
  <2>9. Passed(mtr'[Call(w)'.meter], Call(w)', Stage(Call(w)', rcall'[w].at),
               rcall'[w].ok, rcall'[w].slow, rfailed')
    BY <1>2, <1>4, <1>5, <2>7
  <2>10. \A x \in Writer : Passed(mtr'[rresult'[x].meter], rresult'[x], 6, TRUE, TRUE, FALSE)
    BY <2>5, <2>8
  <2> QED
    BY <1>2, <2>2, <2>3, <2>4, <2>5, <2>6, <2>9, <2>10 DEF RateSolo
<1>9. FlaggedIf' /\ \A x \in Writer : CallOK(x)'
  BY <1>2, <1>5, <1>6 DEF RateInv, FlaggedIf
<1> QED
  BY <1>7, <1>8, <1>9 DEF RateInv

LEMMA CallsKeep ==
    ASSUME RateInv, NEW w \in Writer, SetGemport(w) \/ SetRing(w) \/ GetMeter(w)
    PROVE  RateInv'
<1>1. GemMeters \subseteq Meter /\ RingMeter \subseteq Meter
  BY RateAssumption DEF GemMeters, GemMeter, RingMeter, RxRing, Meter
<1>2. CASE SetGemport(w)
  <2>1. PICK d \in Dir : \E v \in GemLimit[d] :
            RateBegin(w, [kind |-> "gem", meter |-> GemMeter(d), limit |-> v])
    BY <1>2 DEF SetGemport
  <2>2. PICK v \in GemLimit[d] : RateBegin(w, [kind |-> "gem", meter |-> GemMeter(d), limit |-> v])
    BY <2>1
  <2>3. v \in Limit /\ GemMeter(d) \in GemMeters
    BY RateAssumption DEF GemMeters
  <2>4. PICK call : call = [kind |-> "gem", meter |-> GemMeter(d), limit |-> v]
    OBVIOUS
  <2>5. /\ call \in RateCall /\ RateBegin(w, call) /\ call.kind = "gem"
        /\ call.meter \in GemMeters /\ call.limit \in Limit
    BY <1>1, <2>2, <2>3, <2>4 DEF RateCall
  <2> QED
    BY <2>5, RateBeginKeeps
<1>3. CASE SetRing(w)
  <2>1. PICK m \in RingMeter : \E v \in RingLimit[m[1]] :
            RateBegin(w, [kind |-> "ring", meter |-> m, limit |-> v])
    BY <1>3 DEF SetRing
  <2>2. PICK v \in RingLimit[m[1]] : RateBegin(w, [kind |-> "ring", meter |-> m, limit |-> v])
    BY <2>1
  <2>3. v \in Limit
    BY RateAssumption DEF RingMeter
  <2>4. PICK call : call = [kind |-> "ring", meter |-> m, limit |-> v]
    OBVIOUS
  <2>5. /\ call \in RateCall /\ RateBegin(w, call) /\ call.kind = "ring"
        /\ call.meter \in RingMeter /\ call.limit \in Limit
    BY <1>1, <2>2, <2>3, <2>4 DEF RateCall
  <2> QED
    BY <2>5, RateBeginKeeps
<1>4. CASE GetMeter(w)
  <2>1. PICK m \in RingMeter \cup GemMeters :
            RateBegin(w, [kind |-> "get", meter |-> m, limit |-> 0])
    BY <1>4 DEF GetMeter, GemMeters
  <2>2. PICK call : call = [kind |-> "get", meter |-> m, limit |-> 0]
    OBVIOUS
  <2>3. /\ call \in RateCall /\ RateBegin(w, call) /\ call.kind = "get"
        /\ call.meter \in RingMeter \cup GemMeters
    BY <1>1, <2>1, <2>2 DEF RateCall
  <2> QED
    BY <2>3, RateBeginKeeps
<1> QED
  BY <1>2, <1>3, <1>4

LEMMA RateInvInit == RateInit => RateInv
<1> SUFFICES ASSUME RateInit
             PROVE  RateInv
  OBVIOUS
<1>1. DefaultLimit \in Limit
  BY RateAssumption
<1>2. ASSUME NEW m \in Meter
      PROVE  mtr[m] \in [Param -> Values] /\ mtr[m].misc \in MiscValues
  <2>1. CASE m[2] \in RxRing
    <3>1. \E slow \in BOOLEAN : mtr[m] = [misc |-> Misc(TRUE, slow), rate |-> Rate(DefaultLimit, slow),
                                          bucket |-> Bucket(DefaultLimit)]
      <4>1. CASE m[2] \in SlowRing
        <5>1. mtr[m] = [misc |-> Misc(TRUE, TRUE), rate |-> Rate(DefaultLimit, TRUE),
                        bucket |-> Bucket(DefaultLimit)]
          <6>1. (m[2] \in SlowRing) = TRUE
            BY <4>1
          <6>2. mtr[m] = [misc |-> Misc(TRUE, m[2] \in SlowRing), rate |-> Rate(DefaultLimit, m[2] \in SlowRing),
                          bucket |-> Bucket(DefaultLimit)]
            BY <2>1, Zenon DEF RateInit
          <6> QED
            BY <6>1, <6>2
        <5> QED
          BY <5>1
      <4>2. CASE m[2] \notin SlowRing
        <5>1. mtr[m] = [misc |-> Misc(TRUE, FALSE), rate |-> Rate(DefaultLimit, FALSE),
                        bucket |-> Bucket(DefaultLimit)]
          <6>1. (m[2] \in SlowRing) = FALSE
            BY <4>2
          <6>2. mtr[m] = [misc |-> Misc(TRUE, m[2] \in SlowRing), rate |-> Rate(DefaultLimit, m[2] \in SlowRing),
                          bucket |-> Bucket(DefaultLimit)]
            BY <2>1, Zenon DEF RateInit
          <6> QED
            BY <6>1, <6>2
        <5> QED
          BY <5>1
      <4> QED
        BY <4>1, <4>2
    <3>2. PICK slow \in BOOLEAN : mtr[m] = [misc |-> Misc(TRUE, slow), rate |-> Rate(DefaultLimit, slow),
                                            bucket |-> Bucket(DefaultLimit)]
      BY <3>1
    <3>3. Misc(TRUE, slow) \in MiscValues
      BY MiscData
    <3>4. Misc(TRUE, slow) \in Values
      BY <3>3, MiscData
    <3>5. Rate(DefaultLimit, slow) \in Values /\ Bucket(DefaultLimit) \in Values
      <4>1. \A v \in Limit : Rate(v, slow) \in Values
        BY RateData
      <4>2. \A v \in Limit : Bucket(v) \in Values
        BY RateData
      <4> QED
        BY <1>1, <4>1, <4>2
    <3>6. \A a, b, c \in Values : [misc |-> a, rate |-> b, bucket |-> c] \in [Param -> Values]
      BY DEF Param
    <3> DEFINE mi == Misc(TRUE, slow)
               ra == Rate(DefaultLimit, slow)
               bu == Bucket(DefaultLimit)
    <3>7. /\ mtr[m] = [misc |-> mi, rate |-> ra, bucket |-> bu] /\ mi \in MiscValues
          /\ mi \in Values /\ ra \in Values /\ bu \in Values
      BY <3>2, <3>3, <3>4, <3>5
    <3> HIDE DEF mi, ra, bu
    <3> QED
      BY <3>6, <3>7
  <2>2. CASE m[2] \notin RxRing
    <3>1. mtr[m] = [p \in Param |-> Zero]
      BY <2>2 DEF RateInit
    <3> QED
      BY <3>1, MiscData DEF Param
  <2> QED
    BY <2>1, <2>2
<1>3. mtr \in [Meter -> [Param -> Values]]
  <2>1. mtr = [m \in Meter |-> mtr[m]]
    BY DEF RateInit
  <2> QED
    BY <1>2, <2>1
<1>4. /\ rcall = [w \in Writer |-> RateIdle] /\ rresult = [w \in Writer |-> NoCall]
      /\ dataReg = [d \in Dir |-> Zero] /\ cfgLock = {} /\ gemEnable = {} /\ limited = {}
      /\ roverlap = FALSE /\ rfailed = FALSE
  BY DEF RateInit
<1>5. RateTypeOK
  BY <1>3, <1>4, IdleType DEF RateTypeOK
<1>6. \A w \in Writer : ~Busy(w) /\ CallOK(w)
  BY <1>4 DEF Busy, CallOK, RateAt, RateIdle
<1>7. RateSolo
  <2>1. \A m : Passed(m, NoCall, 6, TRUE, TRUE, FALSE)
    BY DEF Passed, NoCall
  <2>2. \A w \in Writer : Passed(mtr[rresult[w].meter], rresult[w], 6, TRUE, TRUE, FALSE)
    BY <1>4, <2>1
  <2> QED
    BY <1>2, <1>4, <1>6, <2>2 DEF RateSolo, Polices
<1> QED
  BY <1>4, <1>5, <1>6, <1>7 DEF RateInv, FlaggedIf

LEMMA RateInvStep == RateInv /\ [RateNext]_rateVars => RateInv'
<1> SUFFICES ASSUME RateInv, [RateNext]_rateVars
             PROVE  RateInv'
  OBVIOUS
<1>1. ASSUME NEW w \in Writer, RateStep(w)
      PROVE  RateInv'
  BY <1>1, CallsKeep, AskParamKeeps, AnswerParamKeeps, NoParamKeeps, PutDataKeeps, PutCommandKeeps,
     VerifyKeeps, DoneKeeps DEF RateStep
<1>2. CASE UNCHANGED rateVars
  <2>1. UNCHANGED <<mtr, dataReg, cfgLock, gemEnable, rcall, limited, roverlap, rfailed, rresult>>
    BY <1>2 DEF rateVars
  <2>2. \A w : /\ Call(w)' = Call(w) /\ Op(w)' = Op(w) /\ MeterOf(w)' = MeterOf(w)
               /\ Wanted(w)' = Wanted(w) /\ (Busy(w)' <=> Busy(w))
    BY <2>1 DEF Call, Op, MeterOf, DirOf, Wanted, Busy
  <2>3. \A w : CallOK(w) => CallOK(w)'
    BY <2>1, <2>2 DEF CallOK, RateAt
  <2>4. \A w : Accessing(w) => Accessing(w)'
    BY <2>1, <2>2 DEF Accessing, DirOf
  <2>5. Polices => Polices'
    BY <2>1 DEF Polices
  <2>6. RateSolo'
    BY <2>1, <2>2, <2>4, <2>5 DEF RateInv, RateSolo
  <2>7. RateTypeOK'
    BY <2>1 DEF RateInv, RateTypeOK
  <2> QED
    BY <2>1, <2>3, <2>6, <2>7 DEF RateInv, FlaggedIf
<1> QED
  BY <1>1, <1>2 DEF RateNext

LEMMA RateInvCorrect == RateSpec => []RateInv
  BY RateInvInit, RateInvStep, PTL DEF RateSpec

-----------------------------------------------------------------------------
(* A set of a gemport's or a ring's limit that met no other call, whose    *)
(* reads were answered and that returned 0 has left in the meter the       *)
(* limit, counted in the tick the meter has, whatever the calls before it  *)
(* left there.                                                             *)
THEOREM LimitTakesHoldHolds == RateSpec => []LimitTakesHold
<1>1. RateInv => LimitTakesHold
  <2> SUFFICES ASSUME RateInv, NEW w \in Writer, Alone, ~rfailed, NEW c, c = rresult[w],
                      c.kind \in {"gem", "ring"}
               PROVE  /\ mtr[c.meter].rate = Rate(c.limit, Slow(mtr[c.meter].misc))
                      /\ mtr[c.meter].bucket = Bucket(c.limit)
                      /\ c.kind = "gem" => (Enabled(mtr[c.meter].misc) <=> c.limit > 0)
    BY DEF LimitTakesHold
  <2>1. PICK slow \in BOOLEAN : Passed(mtr[c.meter], c, 6, TRUE, slow, FALSE)
    BY DEF RateInv, RateSolo, Alone
  <2>2. slow = Slow(mtr[c.meter].misc)
    <3>1. slow <=> Slow(mtr[c.meter].misc)
      BY <2>1 DEF Passed
    <3>2. Slow(mtr[c.meter].misc) \in BOOLEAN
      BY DEF Slow
    <3> QED
      BY <3>1, <3>2
  <2>3. /\ mtr[c.meter].rate = Rate(c.limit, slow) /\ mtr[c.meter].bucket = Bucket(c.limit)
        /\ c.kind = "gem" => (Enabled(mtr[c.meter].misc) <=> c.limit > 0)
    BY <2>1 DEF Passed
  <2> QED
    BY <2>2, <2>3
<1> QED
  BY <1>1, RateInvCorrect, PTL

(* Until calls have met, a gemport is flagged only while some QDMA has its *)
(* limit, and in each that took one since the last 0 the meter its flows   *)
(* are sent to is enabled, though any setting may have failed half way.    *)
(* The other QDMA's may be off, and a small limit has no token at all: a   *)
(* flow's limit is not claimed to be what its meter counts with.           *)
THEOREM PolicedWhenEnabledHolds == RateSpec => []PolicedWhenEnabled
<1>1. RateInv => PolicedWhenEnabled
  <2> SUFFICES ASSUME RateInv, Alone, NEW g \in gemEnable
               PROVE  limited # {} /\ \A d \in limited : Enabled(mtr[<<d, MeterIdx(g)>>].misc)
    BY DEF PolicedWhenEnabled
  <2>1. g = 0 /\ limited # {}
    BY DEF RateInv, FlaggedIf
  <2>2. \A d : <<d, MeterIdx(g)>> = GemMeter(d)
    BY <2>1, RateAssumption DEF MeterIdx, GemMeter
  <2>3. Polices
    BY <2>1 DEF RateInv, RateSolo, Alone, Busy, RateAt
  <2> QED
    BY <2>1, <2>2, <2>3 DEF Polices
<1> QED
  BY <1>1, RateInvCorrect, PTL
-----------------------------------------------------------------------------
(* The values of the weights' registers, copies and calls. *)
THEOREM QosTypeCorrect == QosSpec => []QosTypeOK
<1>1. QosInv => QosTypeOK
  BY DEF QosInv
<1> QED
  BY <1>1, QosInvCorrect, PTL

(* The values of the meters, their registers and the calls that set them. *)
THEOREM RateTypeCorrect == RateSpec => []RateTypeOK
<1>1. RateInv => RateTypeOK
  BY DEF RateInv
<1> QED
  BY <1>1, RateInvCorrect, PTL

(***************************************************************************)
(* The arithmetic of the limits.  A search knows of its two bounds that    *)
(* the upper one is large enough, or the last there is, and the lower one  *)
(* is not, or is 0; every call keeps that of the bounds it goes on with.   *)
(***************************************************************************)
Shifts == 0 .. QDMA_MAX_SHIFT
Units == QDMA_UNITS \cup {1}

LEMMA PowersGrow ==
    \A s, t \in Shifts : PowersOf2[s + 1] \in Nat \ {0} /\ (s < t => PowersOf2[s + 1] < PowersOf2[t + 1])
BY DEF Shifts, QDMA_MAX_SHIFT, PowersOf2

LEMMA ShlGrows ==
    ASSUME NEW unit \in Units, NEW s \in Shifts, NEW t \in Shifts
    PROVE  /\ Shl(unit, s) \in Nat
           /\ s < t => Shl(unit, s) < Shl(unit, t)
<1>1. unit \in Nat \ {0}
  BY DEF Units, QDMA_UNITS
<1> DEFINE a == PowersOf2[s + 1]
           b == PowersOf2[t + 1]
<1>2. a \in Nat /\ b \in Nat /\ (s < t => a < b)
  BY PowersGrow
<1>3. Shl(unit, s) = unit * a /\ Shl(unit, t) = unit * b
  BY DEF Shl
<1> HIDE DEF a, b
<1>4. unit * a \in Nat /\ (a < b => unit * a < unit * b)
  BY <1>1, <1>2
<1> QED
  BY <1>2, <1>3, <1>4

(* The shifts the search may still return, and what is known of the others *)
LastOf(fn) == IF fn = "bucket" THEN QDMA_MAX_SHIFT ELSE HSGMII_MAX_SHIFT
ReachedBy(c, s) == Shl(c.unit, s) >= c.value

Bracketed(c) ==
    /\ c.lo + 2 <= c.hi /\ c.hi <= LastOf(c.fn)
    /\ ReachedBy(c, c.hi) \/ c.hi = LastOf(c.fn)
    /\ c.fn = "bucket" /\ c.value > 0 => c.lo = 0 \/ ~ReachedBy(c, c.lo)

(* What a search has come to. *)
Answered(c) ==
    /\ c.shift <= LastOf(c.fn) /\ (ReachedBy(c, c.shift) \/ c.shift = LastOf(c.fn))
    /\ c.fn = "bucket" /\ c.value > 0 => \A s \in 0 .. c.shift - 1 : ~ReachedBy(c, s)

(* The bucket of an HSGMII is asked for as large as the rate, while it fits *)
(* 32 bits, or as large as there is.                                       *)
AskedFor(c) ==
    c.fn = "hsgmii" =>
        /\ c.unit = 1 /\ c.rate \in Kbps
        /\ c.rate < CARRY => c.value >= c.rate \/ c.value >= HSGMII_MAX_BUCKET

SearchOK(c) ==
    /\ AskedFor(c)
    /\ c.shift = NO_SHIFT => Bracketed(c)
    /\ c.shift # NO_SHIFT => Answered(c)

(* One call of the search.                                                 *)
Halfway(lo, hi) == (lo + hi) \div 2

LEMMA HalfwayIs ==
    ASSUME NEW lo \in Shifts, NEW hi \in Shifts, lo + 2 <= hi
    PROVE  Halfway(lo, hi) \in Shifts /\ lo < Halfway(lo, hi) /\ Halfway(lo, hi) < hi
BY DEF Halfway, Shifts, QDMA_MAX_SHIFT

(* A call that finds shift s, or goes on between lo and hi.                *)
After(c, r) == [c EXCEPT !.lo = r.lo, !.hi = r.hi, !.shift = r.shift]

LEMMA FoundIs ==
    ASSUME NEW c \in SearchCall, AskedFor(c), NEW s \in Shifts, s <= LastOf(c.fn),
           ReachedBy(c, s) \/ s = LastOf(c.fn),
           c.fn = "bucket" /\ c.value > 0 => \A t \in 0 .. s - 1 : ~ReachedBy(c, t)
    PROVE  After(c, Found(s)) \in SearchCall /\ SearchOK(After(c, Found(s)))
<1> DEFINE d == After(c, Found(s))
<1>1. d \in SearchCall /\ d.shift = s /\ d.fn = c.fn /\ d.rate = c.rate /\ d.value = c.value
      /\ d.unit = c.unit
  BY DEF After, Found, SearchCall, Shifts
<1> HIDE DEF d
<1>2. s # NO_SHIFT
  BY DEF NO_SHIFT, Shifts
<1>3. Answered(d) /\ AskedFor(d)
  BY <1>1 DEF Answered, AskedFor, ReachedBy
<1>4. SearchOK(d)
  BY <1>1, <1>2, <1>3 DEF SearchOK
<1> QED
  BY <1>1, <1>4 DEF d

LEMMA AgainIs ==
    ASSUME NEW c \in SearchCall, AskedFor(c), NEW lo \in Shifts, NEW hi \in Shifts, lo + 2 <= hi,
           hi <= LastOf(c.fn), ReachedBy(c, hi) \/ hi = LastOf(c.fn),
           c.fn = "bucket" /\ c.value > 0 => lo = 0 \/ ~ReachedBy(c, lo)
    PROVE  After(c, Again(lo, hi)) \in SearchCall /\ SearchOK(After(c, Again(lo, hi)))
<1> DEFINE d == After(c, Again(lo, hi))
<1>1. d \in SearchCall /\ d.shift = NO_SHIFT /\ d.lo = lo /\ d.hi = hi /\ d.fn = c.fn
      /\ d.rate = c.rate /\ d.value = c.value /\ d.unit = c.unit
  BY DEF After, Again, SearchCall, Shifts
<1> HIDE DEF d
<1>2. Bracketed(d) /\ AskedFor(d)
  BY <1>1 DEF Bracketed, AskedFor, ReachedBy
<1>3. SearchOK(d)
  BY <1>1, <1>2 DEF SearchOK
<1> QED
  BY <1>1, <1>3 DEF d

(* No shift below one that is not reached is.                              *)
LEMMA BelowIsLess ==
    ASSUME NEW c \in SearchCall, NEW s \in Shifts, Shl(c.unit, s) <= c.value
    PROVE  \A t \in 0 .. s - 1 : ~ReachedBy(c, t)
<1> SUFFICES ASSUME NEW t \in 0 .. s - 1 PROVE Shl(c.unit, t) < c.value
  BY ShlGrows DEF ReachedBy, SearchCall, Units, Shifts, QDMA_MAX_SHIFT
<1>1. t \in Shifts /\ t < s /\ c.unit \in Units /\ c.value \in Nat
  BY DEF SearchCall, Units, Shifts, QDMA_MAX_SHIFT
<1>2. Shl(c.unit, t) < Shl(c.unit, s) /\ Shl(c.unit, t) \in Nat /\ Shl(c.unit, s) \in Nat
  BY <1>1, ShlGrows
<1> QED
  BY <1>1, <1>2

LEMMA BiSearchStep ==
    ASSUME NEW c \in SearchCall, c.fn = "bucket", SearchOK(c), c.shift = NO_SHIFT
    PROVE  LET d == After(c, BiSearch(c.value, c.lo, c.hi, c.unit))
           IN  d \in SearchCall /\ SearchOK(d)
<1> DEFINE mid == Halfway(c.lo, c.hi)
           size(s) == Shl(c.unit, s)
           exact == {s \in {mid, c.lo, c.hi} : size(s) = c.value}
           r == BiSearch(c.value, c.lo, c.hi, c.unit)
<1>1. /\ c.lo \in Shifts /\ c.hi \in Shifts /\ c.unit \in Units /\ c.value \in Nat
      /\ c.lo + 2 <= c.hi /\ c.hi <= QDMA_MAX_SHIFT /\ LastOf(c.fn) = QDMA_MAX_SHIFT
      /\ ReachedBy(c, c.hi) \/ c.hi = QDMA_MAX_SHIFT
      /\ c.value > 0 => c.lo = 0 \/ ~ReachedBy(c, c.lo)
      /\ AskedFor(c)
  BY DEF SearchCall, Shifts, Units, SearchOK, Bracketed, LastOf
<1>2. mid \in Shifts /\ c.lo < mid /\ mid < c.hi
  BY <1>1, HalfwayIs
<1>3. \A s, t \in Shifts : size(s) \in Nat /\ (s < t => size(s) < size(t))
  BY <1>1, ShlGrows
<1>4. \A s \in Shifts : ReachedBy(c, s) <=> size(s) >= c.value
  BY DEF ReachedBy
<1>5. r = IF c.value > 0 /\ c.value < c.unit THEN Found(0)
          ELSE IF exact # {} THEN Found(CHOOSE s \in exact : TRUE)
          ELSE IF size(mid) > c.value
               THEN IF mid - c.lo <= 1 THEN Found(mid) ELSE Again(c.lo, mid)
               ELSE IF c.hi - mid <= 1 THEN Found(c.hi) ELSE Again(mid, c.hi)
  BY DEF BiSearch, Halfway
<1>6. size(0) = c.unit /\ 0 \in Shifts /\ QDMA_MAX_SHIFT \in Shifts
  BY <1>1 DEF Shl, PowersOf2, Shifts, QDMA_MAX_SHIFT, Units, QDMA_UNITS
<1> HIDE DEF mid, size, r
<1>7. CASE c.value > 0 /\ c.value < c.unit
  <2>1. r = Found(0)
    BY <1>5, <1>7
  <2>2. ReachedBy(c, 0)
    BY <1>1, <1>3, <1>4, <1>6, <1>7
  <2>3. \A t \in 0 .. 0 - 1 : ~ReachedBy(c, t)
    OBVIOUS
  <2>4. 0 <= LastOf(c.fn)
    BY <1>1 DEF QDMA_MAX_SHIFT
  <2> QED
    BY <1>1, <1>6, <2>1, <2>2, <2>3, <2>4, FoundIs DEF r
<1>8. ASSUME ~(c.value > 0 /\ c.value < c.unit),
             NEW s \in {mid, c.lo, c.hi}, size(s) = c.value
      PROVE  After(c, r) \in SearchCall /\ SearchOK(After(c, r))
  <2>1. s \in Shifts /\ \A t \in Shifts : size(t) = c.value => t = s
    BY <1>1, <1>2, <1>3, <1>8 DEF Shifts
  <2>2. exact = {s}
    BY <1>1, <1>2, <1>8, <2>1
  <2>3. r = Found(s)
    <3>1. (CHOOSE t \in exact : TRUE) = s
      BY <2>2
    <3> QED
      BY <1>5, <1>8, <2>2, <3>1
  <2>4. ReachedBy(c, s) /\ \A t \in 0 .. s - 1 : ~ReachedBy(c, t)
    BY <1>1, <1>3, <1>4, <1>8, <2>1, BelowIsLess DEF size
  <2>5. s <= LastOf(c.fn)
    BY <1>1, <2>1 DEF Shifts
  <2> QED
    BY <1>1, <2>1, <2>3, <2>4, <2>5, FoundIs
<1>9. ASSUME ~(c.value > 0 /\ c.value < c.unit),
             size(mid) # c.value, size(c.lo) # c.value, size(c.hi) # c.value, exact = {}
      PROVE  After(c, r) \in SearchCall /\ SearchOK(After(c, r))
  <2>1. c.value > 0 => size(c.lo) < c.value
    BY <1>1, <1>3, <1>4, <1>6, <1>9 DEF Units, QDMA_UNITS
  <2>2. CASE size(mid) > c.value
    <3>1. r = IF mid - c.lo <= 1 THEN Found(mid) ELSE Again(c.lo, mid)
      BY <1>5, <1>9, <2>2
    <3>2. ReachedBy(c, mid)
      BY <1>1, <1>2, <1>3, <1>4, <2>2
    <3>3. CASE mid - c.lo <= 1
      <4>1. mid = c.lo + 1
        BY <1>1, <1>2, <3>3 DEF Shifts
      <4>2. c.value > 0 => \A t \in 0 .. mid - 1 : ~ReachedBy(c, t)
        <5>1. c.value > 0 => \A t \in 0 .. c.lo - 1 : ~ReachedBy(c, t)
          BY <1>1, <1>3, <2>1, BelowIsLess DEF size
        <5>2. c.value > 0 => ~ReachedBy(c, c.lo)
          BY <1>1, <1>3, <1>4, <2>1
        <5> QED
          BY <1>1, <4>1, <5>1, <5>2 DEF Shifts
      <4>3. mid <= LastOf(c.fn)
        BY <1>1, <1>2 DEF Shifts
      <4> QED
        BY <1>1, <1>2, <3>1, <3>2, <3>3, <4>2, <4>3, FoundIs
    <3>4. CASE ~(mid - c.lo <= 1)
      <4>1. c.lo + 2 <= mid /\ mid <= QDMA_MAX_SHIFT
        BY <1>1, <1>2, <3>4 DEF Shifts
      <4> QED
        BY <1>1, <1>2, <3>1, <3>2, <3>4, <4>1, AgainIs
    <3> QED
      BY <3>3, <3>4
  <2>3. CASE size(mid) < c.value
    <3>1. r = IF c.hi - mid <= 1 THEN Found(c.hi) ELSE Again(mid, c.hi)
      BY <1>1, <1>2, <1>3, <1>5, <1>9, <2>3
    <3>2. ~ReachedBy(c, mid)
      BY <1>1, <1>2, <1>3, <1>4, <2>3
    <3>3. CASE c.hi - mid <= 1
      <4>1. c.hi = mid + 1
        BY <1>1, <1>2, <3>3 DEF Shifts
      <4>2. \A t \in 0 .. c.hi - 1 : ~ReachedBy(c, t)
        <5>1. \A t \in 0 .. mid - 1 : ~ReachedBy(c, t)
          BY <1>1, <1>2, <1>3, <2>3, BelowIsLess DEF size
        <5> QED
          BY <1>2, <3>2, <4>1, <5>1 DEF Shifts
      <4> QED
        BY <1>1, <3>1, <3>3, <4>2, FoundIs
    <3>4. CASE ~(c.hi - mid <= 1)
      <4>1. mid + 2 <= c.hi
        BY <1>1, <1>2, <3>4 DEF Shifts
      <4> QED
        BY <1>1, <1>2, <3>1, <3>2, <3>4, <4>1, AgainIs
    <3> QED
      BY <3>3, <3>4
  <2> QED
    BY <1>1, <1>2, <1>3, <1>9, <2>2, <2>3
<1>10. exact = {} \/ \E s \in {mid, c.lo, c.hi} : size(s) = c.value
  OBVIOUS
<1>11. exact = {} => size(mid) # c.value /\ size(c.lo) # c.value /\ size(c.hi) # c.value
  OBVIOUS
<1> QED
  BY <1>7, <1>8, <1>9, <1>10, <1>11 DEF r

LEMMA HsgmiiSearchStep ==
    ASSUME NEW c \in SearchCall, c.fn = "hsgmii", SearchOK(c), c.shift = NO_SHIFT
    PROVE  LET d == After(c, HsgmiiSearch(c.value, c.lo, c.hi, c.unit))
           IN  d \in SearchCall /\ SearchOK(d)
<1> DEFINE mid == Halfway(c.lo, c.hi)
           size(s) == Shl(c.unit, s)
           r == HsgmiiSearch(c.value, c.lo, c.hi, c.unit)
<1>1. /\ c.lo \in Shifts /\ c.hi \in Shifts /\ c.unit \in Units /\ c.value \in Nat
      /\ c.lo + 2 <= c.hi /\ c.hi <= LastOf(c.fn) /\ LastOf(c.fn) = HSGMII_MAX_SHIFT
      /\ ReachedBy(c, c.hi) \/ c.hi = LastOf(c.fn)
      /\ AskedFor(c)
  BY DEF SearchCall, Shifts, Units, SearchOK, Bracketed, LastOf
<1>2. mid \in Shifts /\ c.lo < mid /\ mid < c.hi
  BY <1>1, HalfwayIs
<1>3. \A s \in Shifts : size(s) \in Nat
  BY <1>1, ShlGrows
<1>4. \A s \in Shifts : ReachedBy(c, s) <=> size(s) >= c.value
  BY DEF ReachedBy
<1>5. r = IF c.value > 0 /\ c.value < c.unit THEN Found(0)
          ELSE IF size(mid) = c.value THEN Found(mid)
          ELSE IF size(mid) > c.value
               THEN IF mid - c.lo <= 1 THEN Found(mid) ELSE Again(c.lo, mid)
               ELSE IF c.hi - mid <= 1 THEN Found(c.hi) ELSE Again(mid, c.hi)
  BY DEF HsgmiiSearch, Halfway
<1>6. size(0) = c.unit /\ 0 \in Shifts /\ c.unit \in Nat /\ HSGMII_MAX_SHIFT \in Nat
  BY <1>1 DEF Shl, PowersOf2, Shifts, QDMA_MAX_SHIFT, HSGMII_MAX_SHIFT, Units, QDMA_UNITS
<1> HIDE DEF mid, size, r
<1>7. CASE r = Found(0) /\ c.value < c.unit
  <2>1. ReachedBy(c, 0) /\ 0 <= LastOf(c.fn)
    BY <1>1, <1>3, <1>4, <1>6, <1>7 DEF HSGMII_MAX_SHIFT
  <2> QED
    BY <1>6, <1>1, <1>7, <2>1, FoundIs DEF r
<1>8. CASE r = Found(mid) /\ size(mid) >= c.value
  <2>1. ReachedBy(c, mid) /\ mid <= LastOf(c.fn)
    BY <1>1, <1>2, <1>4, <1>6, <1>8 DEF Shifts, QDMA_MAX_SHIFT
  <2> QED
    BY <1>1, <1>2, <1>8, <2>1, FoundIs DEF r
<1>9. CASE r = Found(c.hi)
  BY <1>1, <1>9, FoundIs DEF r
<1>10. CASE r = Again(c.lo, mid) /\ size(mid) >= c.value /\ ~(mid - c.lo <= 1)
  <2>1. ReachedBy(c, mid) /\ mid <= LastOf(c.fn) /\ c.lo + 2 <= mid
    BY <1>1, <1>2, <1>4, <1>6, <1>10 DEF Shifts, QDMA_MAX_SHIFT
  <2> QED
    BY <1>1, <1>2, <1>10, <2>1, AgainIs DEF r
<1>11. CASE r = Again(mid, c.hi) /\ ~(c.hi - mid <= 1)
  <2>1. mid + 2 <= c.hi
    BY <1>1, <1>2, <1>11 DEF Shifts, QDMA_MAX_SHIFT
  <2> QED
    BY <1>1, <1>2, <1>11, <2>1, AgainIs DEF r
<1> QED
  BY <1>1, <1>2, <1>3, <1>5, <1>7, <1>8, <1>9, <1>10, <1>11

-----------------------------------------------------------------------------
(* The token rates.                                                        *)
LEMMA DivisionIs ==
    ASSUME NEW a \in Nat, NEW b \in Nat \ {0}
    PROVE  /\ a \div b \in Nat /\ a % b \in Nat /\ a % b \in 0 .. b - 1
           /\ a = b * (a \div b) + (a % b)
OBVIOUS

LEMMA UnitIs ==
    ASSUME NEW tick \in Nat \ {0}, NEW pkt \in BOOLEAN, pkt => tick >= 16
    PROVE  FullUnit(tick, pkt) \in Nat /\ Unit(tick, pkt) = FullUnit(tick, pkt)
<1> DEFINE n == IF pkt THEN 1000000 ELSE 8000
           u == n \div tick
<1>1. n \in Nat /\ u \in Nat /\ n % tick \in Nat /\ n = tick * u + (n % tick)
  BY DivisionIs
<1>2. u < USHORT
  <2>1. CASE pkt
    <3>1. tick * u <= 1000000 /\ 16 * u <= tick * u
      <4> HIDE DEF u
      <4> QED
        BY <1>1, <2>1
    <3> QED
      BY <1>1, <2>1, <3>1 DEF USHORT
  <2>2. CASE ~pkt
    <3>1. tick * u <= 8000 /\ u <= tick * u
      <4> HIDE DEF u
      <4> QED
        BY <1>1, <2>2
    <3> QED
      BY <1>1, <2>2, <3>1 DEF USHORT
  <2> QED
    BY <2>1, <2>2
<1>3. FullUnit(tick, pkt) = u
  BY DEF FullUnit
<1>4. u % USHORT = u
  BY <1>1, <1>2 DEF USHORT
<1> QED
  BY <1>1, <1>3, <1>4 DEF Unit

LEMMA TokenRateType ==
    ASSUME NEW rate \in Nat, NEW unit \in Nat
    PROVE  TokenRate(rate, unit) \in {EINVAL} \cup [integer : Nat, fraction : Nat]
<1>1. CASE unit = 0
  BY <1>1 DEF TokenRate
<1>2. CASE unit # 0
  <2> DEFINE rest == rate % unit
  <2>1. rate \div unit \in Nat /\ rest \in Nat
    BY <1>2, DivisionIs
  <2>2. TokenRate(rate, unit) \in {EINVAL, [integer |-> rate \div unit,
                                           fraction |-> (rest * 64) \div unit]}
    BY <1>2 DEF TokenRate
  <2> HIDE DEF rest
  <2>3. rest * 64 \in Nat
    BY <2>1
  <2>4. (rest * 64) \div unit \in Nat
    BY <1>2, <2>3, DivisionIs
  <2> QED
    BY <2>1, <2>2, <2>4
<1> QED
  BY <1>1, <1>2

LEMMA TokenRateIs ==
    ASSUME NEW rate \in Nat, NEW unit \in Nat, TokenRate(rate, unit) # EINVAL
    PROVE  LET token == TokenRate(rate, unit)
               part == token.fraction * unit
               low == token.integer * unit + (part \div 64)
           IN  /\ low <= rate
               /\ (rate - token.integer * unit) * 64 < part + unit
<1> DEFINE q == rate \div unit
           rest == rate % unit
           f == (rest * 64) \div unit
           over == (rest * 64) % unit
<1>1. unit \in Nat \ {0} /\ TokenRate(rate, unit) = [integer |-> q, fraction |-> f]
  BY DEF TokenRate
<1>2. q \in Nat /\ rest \in 0 .. unit - 1 /\ rate = unit * q + rest
  BY <1>1, DivisionIs
<1>3. rest * 64 \in Nat
  BY <1>2
<1>4. f \in Nat /\ over \in 0 .. unit - 1 /\ rest * 64 = unit * f + over
  BY <1>1, <1>3, DivisionIs
<1> HIDE DEF q, rest, f, over
<1>5. unit * f \in Nat /\ unit * q \in Nat /\ f * unit = unit * f /\ q * unit = unit * q
  BY <1>1, <1>2, <1>4
<1> DEFINE part == unit * f
           whole == unit * q
<1>6. part \in Nat /\ whole \in Nat /\ rate = whole + rest /\ rest * 64 = part + over
  BY <1>2, <1>4, <1>5
<1> HIDE DEF part, whole
<1>7. whole + (part \div 64) <= rate /\ (rate - whole) * 64 < part + unit
  BY <1>1, <1>2, <1>4, <1>6
<1> QED
  BY <1>1, <1>5, <1>7 DEF part, whole

(* The calculations and the steps of a search.                             *)
SearchesOK == calc.fn \in {"bucket", "hsgmii"} => SearchOK(calc)
RatesInv == CalcTypeOK /\ SearchesOK /\ TokenRateExact

(* The type of a call follows from its function.                           *)
LEMMA CallOf ==
    ASSUME CalcTypeOK
    PROVE  /\ calc.fn \in {"bucket", "hsgmii"} => calc \in SearchCall
           /\ calc.fn = "token" => calc \in TokenCall
           /\ calc.fn \in {"none", "bucket", "hsgmii", "token"}
BY DEF CalcTypeOK, NoCalc, SearchCall, TokenCall

LEMMA BucketSizeByRateIs ==
    ASSUME NEW rate \in Nat
    PROVE  BucketSizeByRate(rate) \in Nat
BY SMT DEF BucketSizeByRate

LEMMA HsgmiiBucketIs ==
    ASSUME NEW rate \in Nat
    PROVE  /\ HsgmiiBucket(rate) \in Nat
           /\ rate < CARRY => HsgmiiBucket(rate) >= rate \/ HsgmiiBucket(rate) >= HSGMII_MAX_BUCKET
<1> DEFINE size == rate % CARRY
<1>1. size \in Nat /\ (rate < CARRY => size = rate)
  BY SMT DEF CARRY
<1>2. HsgmiiBucket(rate) = IF size \in HSGMII_MAX_BUCKET .. SIGN - 1 THEN HSGMII_MAX_BUCKET ELSE size
  BY DEF HsgmiiBucket
<1> HIDE DEF size
<1>3. HSGMII_MAX_BUCKET \in Nat /\ SIGN \in Nat /\ CARRY \in Nat
  BY SMT DEF HSGMII_MAX_BUCKET, SIGN, CARRY
<1>4. CASE size \in HSGMII_MAX_BUCKET .. SIGN - 1
  BY <1>2, <1>3, <1>4, SMT
<1>5. CASE size \notin HSGMII_MAX_BUCKET .. SIGN - 1
  BY <1>1, <1>2, <1>3, <1>5, SMT
<1> QED
  BY <1>4, <1>5

(* A search that starts is over all the shifts of its function.            *)
LEMMA StartIs ==
    ASSUME NEW fn \in {"bucket", "hsgmii"}, NEW rate \in Kbps \cup {NO_RATE}, NEW value \in Nat,
           NEW unit \in QDMA_UNITS \cup {1}, StartSearch(fn, rate, value, unit, LastOf(fn)),
           fn = "hsgmii" => /\ unit = 1 /\ rate \in Kbps
                            /\ rate < CARRY => value >= rate \/ value >= HSGMII_MAX_BUCKET
    PROVE  RatesInv'
<1>1. /\ calc' = [fn |-> fn, rate |-> rate, value |-> value, unit |-> unit, lo |-> 0,
                  hi |-> LastOf(fn), shift |-> NO_SHIFT]
      /\ LastOf(fn) \in 0 .. QDMA_MAX_SHIFT /\ LastOf(fn) >= 2 /\ 0 \in 0 .. QDMA_MAX_SHIFT
  BY DEF StartSearch, LastOf, QDMA_MAX_SHIFT, HSGMII_MAX_SHIFT
<1>2. calc' \in SearchCall
  BY <1>1 DEF SearchCall
<1>3. SearchOK(calc')
  BY <1>1 DEF SearchOK, AskedFor, Bracketed, LastOf
<1>4. calc'.fn # "token"
  BY <1>1
<1> QED
  BY <1>2, <1>3, <1>4 DEF RatesInv, CalcTypeOK, SearchesOK, TokenRateExact

LEMMA RatesInit == CalcInit => RatesInv
BY DEF CalcInit, NoCalc, RatesInv, CalcTypeOK, SearchesOK, TokenRateExact

LEMMA RatesNext == RatesInv /\ [CalcNext]_calc => RatesInv'
<1> SUFFICES ASSUME RatesInv, [CalcNext]_calc PROVE RatesInv'
  OBVIOUS
<1> USE CalcAssumption
<1>1. CASE BucketSize
  <2>1. PICK value \in Size, unit \in QDMA_UNITS :
            StartSearch("bucket", NO_RATE, value, unit, LastOf("bucket"))
    BY <1>1 DEF BucketSize, LastOf
  <2> QED
    BY <2>1, StartIs DEF NO_RATE
<1>2. CASE BucketByRate
  <2>1. PICK rate \in Kbps :
            StartSearch("bucket", rate, BucketSizeByRate(rate), 1024, LastOf("bucket"))
    BY <1>2 DEF BucketByRate, LastOf
  <2>2. BucketSizeByRate(rate) \in Nat /\ 1024 \in QDMA_UNITS \cup {1}
    BY BucketSizeByRateIs DEF QDMA_UNITS
  <2> QED
    BY <2>1, <2>2, StartIs DEF NO_RATE
<1>3. CASE SetHsgmii
  <2>1. PICK rate \in Kbps : StartSearch("hsgmii", rate, HsgmiiBucket(rate), 1, LastOf("hsgmii"))
    BY <1>3 DEF SetHsgmii, LastOf
  <2> QED
    BY <2>1, HsgmiiBucketIs, StartIs DEF NO_RATE
<1>4. CASE SetTokenRate
  <2>1. PICK rate \in Kbps, tick \in Tick, pkt \in BOOLEAN :
            calc' = [fn |-> "token", rate |-> rate, tick |-> tick, pkt |-> pkt,
                     token |-> IF tick = 0 THEN EINVAL ELSE TokenRate(rate, Unit(tick, pkt))]
    BY <1>4 DEF SetTokenRate
  <2> DEFINE unit == Unit(tick, pkt)
  <2>2. tick # 0 => unit \in Nat
    <3>1. tick # 0 => FullUnit(tick, pkt) \in Nat
      BY <2>1 DEF FullUnit
    <3> QED
      BY <3>1 DEF Unit, USHORT
  <2> HIDE DEF unit
  <2>3. calc'.token \in {EINVAL} \cup [integer : Nat, fraction : Nat]
    <3>1. CASE tick = 0
      BY <2>1, <3>1
    <3>2. CASE tick # 0
      BY <2>1, <2>2, <3>2, CalcAssumption, TokenRateType DEF unit
    <3> QED
      BY <3>1, <3>2
  <2>4. calc' \in TokenCall
    BY <2>1, <2>3 DEF TokenCall
  <2>5. TokenRateExact'
    <3> SUFFICES ASSUME calc'.token # EINVAL, pkt => tick >= 16
                 PROVE  LET part == calc'.token.fraction * FullUnit(tick, pkt)
                            low == calc'.token.integer * FullUnit(tick, pkt) + (part \div 64)
                        IN  /\ low <= rate
                            /\ (rate - calc'.token.integer * FullUnit(tick, pkt)) * 64
                                 < part + FullUnit(tick, pkt)
                            /\ Reported(calc'.token, unit) = low
      BY <2>1 DEF TokenRateExact, unit
    <3>1. tick \in Nat \ {0} /\ calc'.token = TokenRate(rate, unit)
      BY <2>1 DEF unit
    <3>2. unit \in Nat /\ unit = FullUnit(tick, pkt)
      BY <3>1, UnitIs DEF unit
    <3> QED
      BY <3>1, <3>2, TokenRateIs DEF Reported
  <2> QED
    BY <2>1, <2>4, <2>5 DEF RatesInv, CalcTypeOK, SearchesOK
<1>5. CASE Search
  <2>1. calc \in SearchCall /\ SearchOK(calc) /\ calc.shift = NO_SHIFT
        /\ calc.fn \in {"bucket", "hsgmii"}
    BY <1>5, CallOf DEF RatesInv, SearchesOK, Search, Searching
  <2>2. calc' = After(calc, IF calc.fn = "bucket"
                              THEN BiSearch(calc.value, calc.lo, calc.hi, calc.unit)
                              ELSE HsgmiiSearch(calc.value, calc.lo, calc.hi, calc.unit))
    BY <1>5 DEF Search, After
  <2>3. calc' \in SearchCall /\ SearchOK(calc')
    BY <2>1, <2>2, BiSearchStep, HsgmiiSearchStep
  <2>4. calc'.fn # "token"
    BY <2>3 DEF SearchCall
  <2> QED
    BY <2>3, <2>4 DEF RatesInv, CalcTypeOK, SearchesOK, TokenRateExact
<1>6. CASE UNCHANGED calc
  BY <1>6 DEF RatesInv, CalcTypeOK, SearchesOK, SearchOK, AskedFor, Bracketed, Answered, ReachedBy,
              TokenRateExact
<1> QED
  BY <1>1, <1>2, <1>3, <1>4, <1>5, <1>6 DEF CalcNext, Calculate

LEMMA RatesInvHolds == CalcSpec => []RatesInv
BY RatesInit, RatesNext, PTL DEF CalcSpec

(* Every token rate is within a 64th of a unit of the rate asked for, and  *)
(* reads back as that, whatever the rate and the tick.                     *)
THEOREM TokenRateExactHolds == CalcSpec => []TokenRateExact
<1>1. RatesInv => TokenRateExact
  BY DEF RatesInv
<1> QED
  BY <1>1, RatesInvHolds, PTL

(* A search that returned has the least bucket that is large enough, or    *)
(* the last one, whatever size was asked for.                              *)
THEOREM BucketIsLeastHolds == CalcSpec => []BucketIsLeast
<1>1. RatesInv => BucketIsLeast
  <2> SUFFICES ASSUME RatesInv, calc.fn = "bucket", calc.value > 0, ~Searching
               PROVE  /\ \A s \in 0 .. calc.shift - 1 : Shl(calc.unit, s) < calc.value
                      /\ Shl(calc.unit, calc.shift) >= calc.value \/ calc.shift = QDMA_MAX_SHIFT
    BY DEF BucketIsLeast
  <2>1. calc \in SearchCall /\ Answered(calc)
    BY CallOf DEF RatesInv, SearchesOK, SearchOK, Searching
  <2>2. \A s \in 0 .. calc.shift - 1 : Shl(calc.unit, s) \in Nat
    BY <2>1, ShlGrows DEF SearchCall, Shifts, Units, NO_SHIFT, QDMA_MAX_SHIFT
  <2> QED
    BY <2>1, <2>2 DEF Answered, ReachedBy, LastOf, SearchCall
<1> QED
  BY <1>1, RatesInvHolds, PTL

(* The bucket of an HSGMII limit below 4 Gbit/s holds the rate's 8 s, or   *)
(* is the largest there is.                                                *)
THEOREM HsgmiiBucketCoversHolds == CalcSpec => []HsgmiiBucketCovers
<1>1. RatesInv => HsgmiiBucketCovers
  <2> SUFFICES ASSUME RatesInv, calc.fn = "hsgmii", calc.rate < CARRY, ~Searching,
                      calc.shift # HSGMII_MAX_SHIFT
               PROVE  Shl(1, calc.shift) >= calc.rate
    BY DEF HsgmiiBucketCovers
  <2>1. calc \in SearchCall /\ Answered(calc) /\ AskedFor(calc)
    BY CallOf DEF RatesInv, SearchesOK, SearchOK, Searching
  <2>2. /\ calc.shift \in Shifts /\ calc.shift < HSGMII_MAX_SHIFT
        /\ ReachedBy(calc, calc.shift) /\ calc.unit = 1 /\ calc.rate \in Nat /\ calc.value \in Nat
        /\ calc.value >= calc.rate \/ calc.value >= HSGMII_MAX_BUCKET
    <3>1. calc.shift \in Shifts /\ calc.value \in Nat /\ calc.fn # "bucket"
      BY <2>1 DEF Searching, SearchCall, Shifts
    <3>2. calc.unit = 1 /\ calc.rate \in Nat
          /\ (calc.value >= calc.rate \/ calc.value >= HSGMII_MAX_BUCKET)
      BY <2>1, CalcAssumption DEF AskedFor
    <3>3. /\ calc.shift <= HSGMII_MAX_SHIFT
          /\ ReachedBy(calc, calc.shift) \/ calc.shift = HSGMII_MAX_SHIFT
      BY <2>1, <3>1 DEF Answered, LastOf
    <3> QED
      BY <3>1, <3>2, <3>3 DEF Shifts, QDMA_MAX_SHIFT, HSGMII_MAX_SHIFT
  <2>3. Shl(1, calc.shift) \in Nat /\ Shl(1, calc.shift) < HSGMII_MAX_BUCKET
    <3>1. 1 \in Units /\ HSGMII_MAX_SHIFT \in Shifts
      BY DEF Units, Shifts, HSGMII_MAX_SHIFT, QDMA_MAX_SHIFT
    <3>2. Shl(1, HSGMII_MAX_SHIFT) = HSGMII_MAX_BUCKET
      BY DEF Shl, HSGMII_MAX_SHIFT, HSGMII_MAX_BUCKET, PowersOf2
    <3> QED
      BY <2>2, <3>1, <3>2, ShlGrows
  <2> QED
    BY <2>2, <2>3 DEF ReachedBy, HSGMII_MAX_BUCKET
<1> QED
  BY <1>1, RatesInvHolds, PTL
=============================================================================
