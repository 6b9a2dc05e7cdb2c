------------------------------ MODULE SystemLed -----------------------------
(***************************************************************************)
(* The system LED driver (leds-smartrg-system.c): a micro-controller on an *)
(* I2C bus with a command and a brightness register for each LED.  The     *)
(* driver keeps the commands in control[] and writes all of them after     *)
(* each change, which repairs those an earlier failure left out.  A call   *)
(* holds the mutex; the writes of probe and remove do not.                 *)
(*                                                                         *)
(* A step is one I2C write, which may fail, with or without effect.  The   *)
(* LED class calls in as soon as an LED is registered, and turns an LED    *)
(* off when it unregisters it, last registered first.                      *)
(***************************************************************************)
EXTENDS Integers

CONSTANTS
    LEDS,   \* LEDs, 4 in the driver
    LEVEL   \* brightness levels, 0 among them

Led == 1 .. LEDS
OFF == 0
ON == 1
FLASH == 2
PULSE == 3

VARIABLES
    control,  \* control[], the commands as the driver wants them
    cmdReg,   \* registers 1 .. LEDS
    levelReg, \* registers LEDS + 1 .. 2 * LEDS
    ledcall,  \* the call that holds the mutex
    life,     \* where probe and remove have got to
    asked,    \* history: what the last call whose brightness was taken asked for
    torn,     \* history: LEDs whose last write of the brightness failed
    ledret,   \* history: how the last call ended
    gentle    \* history: the last call has not met the writes of probe or remove
ledVars == <<control, cmdReg, levelReg, ledcall, life, asked, torn, ledret, gentle>>

Idle == [at |-> "idle", led |-> 1, cmd |-> OFF, level |-> 0, n |-> 1]

LedTypeOK ==
    /\ control \in [Led -> OFF .. PULSE] /\ cmdReg \in [Led -> OFF .. PULSE]
    /\ levelReg \in [Led -> LEVEL]
    /\ ledcall \in [at : {"idle", "level", "sync"}, led : Led, cmd : OFF .. PULSE, level : LEVEL, n : Led]
    /\ life \in [at : {"register", "read", "write", "live", "disable", "unregister", "gone"},
                 n : 0 .. 2 * LEDS, value : OFF .. PULSE]
    /\ asked \in [Led -> [cmd : OFF .. PULSE, level : LEVEL]]
    /\ torn \subseteq Led /\ ledret \in {"none", "ok", "error"} /\ gentle \in BOOLEAN

(* The micro-controller comes up with what it was left with. *)
LedInit ==
    /\ control = [l \in Led |-> OFF]
    /\ cmdReg \in [Led -> {OFF, ON}] /\ levelReg \in [Led -> LEVEL]
    /\ ledcall = Idle
    /\ life = [at |-> "register", n |-> 1, value |-> OFF]
    /\ asked = [l \in Led |-> [cmd |-> OFF, level |-> 0]]
    /\ torn = {} /\ ledret = "none" /\ gentle = TRUE

-----------------------------------------------------------------------------
Registered ==
    CASE life.at = "register" -> {l \in Led : l < life.n}
      [] life.at = "unregister" -> {l \in Led : l <= life.n}
      [] life.at = "gone" -> {}
      [] OTHER -> Led

(* Probe and remove are at writes that the mutex does not guard. *)
Unguarded(at) == at \in {"read", "write", "disable"}

(* An I2C write succeeds, or fails with or without effect. *)
Outcome == {"taken", "unacknowledged", "lost"}
Write(reg, n, value, o) == IF o # "lost" THEN [reg EXCEPT ![n] = value] ELSE reg

(* srg_led_set_brightness: !!value. *)
(* Bug: a brightness 0 leaves the LED on. *)
Command_On(level) == ON

Command(level) == IF level = 0 THEN OFF ELSE ON

(* The first half of srg_led_set_pulse, by what it makes of the delays:    *)
(* with others than it knows the LED goes off, and the LED class blinks.   *)
Pulse == {<<PULSE, l>> : l \in LEVEL \ {0}} \cup {<<FLASH, l>> : l \in LEVEL \ {0}} \cup {<<OFF, 0>>}

Lock(led, cmd, level) ==
    /\ ledcall = Idle
    /\ ledcall' = [Idle EXCEPT !.at = "level", !.led = led, !.cmd = cmd, !.level = level]
    /\ gentle' = ~Unguarded(life.at)
    /\ ledret' = "none"
    /\ UNCHANGED <<control, cmdReg, levelReg, asked, torn>>

SetBrightness(led, level) ==
    /\ led \in Registered
    /\ Lock(led, Command(level), level)
    /\ UNCHANGED life

SetPulse(led) ==
    /\ led \in Registered
    /\ \E p \in Pulse : Lock(led, p[1], p[2])
    /\ UNCHANGED life

Return(ret) == ledcall' = Idle /\ ledret' = ret

(* The sync starts with the first LED, whichever is set. *)
(* Bug: it starts with the LED that is set. *)
SyncFirst_Own(led) == led

SyncFirst(led) == 1

(* The brightness goes out first, and the command is only recorded when it *)
(* was taken.                                                              *)
WriteLevel ==
    LET l == ledcall.led
    IN  /\ ledcall.at = "level"
        /\ \E o \in Outcome :
            /\ levelReg' = Write(levelReg, l, ledcall.level, o)
            /\ IF o = "taken"
               THEN /\ control' = [control EXCEPT ![l] = ledcall.cmd]
                    /\ asked' = [asked EXCEPT ![l] = [cmd |-> ledcall.cmd, level |-> ledcall.level]]
                    /\ torn' = torn \ {l}
                    /\ ledcall' = [ledcall EXCEPT !.at = "sync", !.n = SyncFirst(l)]
                    /\ UNCHANGED ledret
               ELSE /\ torn' = torn \cup {l}
                    /\ Return("error")
                    /\ UNCHANGED <<control, asked>>
        /\ UNCHANGED <<cmdReg, life, gentle>>

(* srg_led_control_sync, up to the first write that fails. *)
Sync ==
    LET n == ledcall.n
    IN  /\ ledcall.at = "sync"
        /\ \E o \in Outcome :
            /\ cmdReg' = Write(cmdReg, n, control[n], o)
            /\ IF o # "taken" THEN Return("error")
               ELSE IF n = LEDS THEN Return("ok")
               ELSE /\ ledcall' = [ledcall EXCEPT !.n = n + 1]
                    /\ UNCHANGED ledret
        /\ UNCHANGED <<control, levelReg, life, asked, torn, gentle>>

-----------------------------------------------------------------------------
(* srg_led_init_led: the brightness is cleared, whether that works or not, *)
(* and the LED is registered.                                              *)
Register ==
    /\ life.at = "register"
    /\ \E o \in Outcome :
        /\ levelReg' = Write(levelReg, life.n, 0, o)
        /\ torn' = IF o = "taken" THEN torn ELSE torn \cup {life.n}
    /\ IF life.n < LEDS
       THEN life' = [life EXCEPT !.n = life.n + 1] /\ UNCHANGED gentle
       ELSE /\ life' = [life EXCEPT !.at = "read", !.n = 1]
            /\ gentle' = (gentle /\ ledcall = Idle)
    /\ UNCHANGED <<control, cmdReg, ledcall, asked, ledret>>

(* The sync at the end of srg_led_probe, without the mutex: a command that *)
(* was read may be old when it is written.  When it fails, so does probe.  *)
ProbeRead ==
    /\ life.at = "read"
    /\ life' = [life EXCEPT !.at = "write", !.value = control[life.n]]
    /\ UNCHANGED <<control, cmdReg, levelReg, ledcall, asked, torn, ledret, gentle>>

ProbeWrite ==
    /\ life.at = "write"
    /\ \E o \in Outcome :
        /\ cmdReg' = Write(cmdReg, life.n, life.value, o)
        /\ life' = IF o # "taken" THEN [at |-> "unregister", n |-> LEDS, value |-> OFF]
                   ELSE IF life.n < LEDS THEN [at |-> "read", n |-> life.n + 1, value |-> OFF]
                   ELSE [at |-> "live", n |-> 0, value |-> OFF]
    /\ UNCHANGED <<control, levelReg, ledcall, asked, torn, ledret, gentle>>

(* srg_led_disable, without the mutex and with the LEDs still registered.  *)
Remove ==
    /\ life.at = "live"
    /\ life' = [life EXCEPT !.at = "disable", !.n = 1]
    /\ gentle' = (gentle /\ ledcall = Idle)
    /\ UNCHANGED <<control, cmdReg, levelReg, ledcall, asked, torn, ledret>>

Disable ==
    /\ life.at = "disable"
    /\ \E o \in Outcome :
        IF life.n <= LEDS
        THEN cmdReg' = Write(cmdReg, life.n, OFF, o) /\ UNCHANGED levelReg
        ELSE levelReg' = Write(levelReg, life.n - LEDS, 0, o) /\ UNCHANGED cmdReg
    /\ life' = IF life.n < 2 * LEDS THEN [life EXCEPT !.n = life.n + 1]
               ELSE [at |-> "unregister", n |-> LEDS, value |-> OFF]
    /\ UNCHANGED <<control, ledcall, asked, torn, ledret, gentle>>

(* The LED class turns the LED off and forgets it. *)
Unregister ==
    /\ life.at = "unregister"
    /\ IF life.n = 0
       THEN /\ ledcall = Idle
            /\ life' = [life EXCEPT !.at = "gone"]
            /\ UNCHANGED <<control, cmdReg, levelReg, ledcall, asked, torn, ledret, gentle>>
       ELSE /\ Lock(life.n, Command(0), 0)
            /\ life' = [life EXCEPT !.n = life.n - 1]

LedNext ==
    \/ \E led \in Led : SetPulse(led) \/ \E level \in LEVEL : SetBrightness(led, level)
    \/ WriteLevel
    \/ Sync
    \/ Register
    \/ ProbeRead
    \/ ProbeWrite
    \/ Remove
    \/ Disable
    \/ Unregister

LedSpec == LedInit /\ [][LedNext]_ledVars

-----------------------------------------------------------------------------
(* When a call has succeeded every LED does what was last asked of it, the *)
(* ones included whose own call failed after their brightness was taken;   *)
(* unless the call met the writes of probe or remove.                      *)
LedsShowWhatWasAsked ==
    ledret = "ok" /\ gentle /\ life.at \notin {"disable", "unregister", "gone"} =>
        \A l \in Registered :
            /\ cmdReg[l] = asked[l].cmd
            /\ l \notin torn => levelReg[l] = asked[l].level

(* After the driver is gone the LEDs are off, whatever calls came between  *)
(* the writes of remove, if the last call succeeded: it writes the command *)
(* of all.  An LED whose brightness could not be written keeps its state.  *)
OffWhenGone ==
    life.at = "gone" /\ ledret = "ok" =>
        \A l \in Led \ torn : cmdReg[l] = OFF /\ levelReg[l] = 0
=============================================================================
