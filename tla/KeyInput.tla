------------------------------ MODULE KeyInput ------------------------------
(***************************************************************************)
(* The button driver key_input.c and the pins of GPIO port F it shares     *)
(* with hw_control.c: the buttons, their interrupts, the timer that        *)
(* debounces them, and the module's init and exit.  There is one core: an  *)
(* interrupt is served before anything else goes on, and the timer         *)
(* function is through before a process goes on.  The 10 ms of the timer   *)
(* are any stretch of time, since mod_timer counts them from the last      *)
(* interrupt.                                                              *)
(***************************************************************************)
EXTENDS Integers, FiniteSets

CONSTANTS KeyPins,      \* the pins of key_infos
          OutPins,      \* the pins hw_control_open makes outputs
          InPins,       \* the pins hw_control_close makes inputs
          KeyMoves      \* bound on how often buttons are pressed or released

Pins == KeyPins \cup OutPins \cup InPins

ASSUME KeyAssumption ==
  /\ IsFiniteSet(Pins) /\ Pins \subseteq Nat
  /\ KeyMoves \in Nat

VARIABLES pinFn,        \* what each pin is configured as
          latch,        \* the level an output drives
          pressed,      \* buttons held down
          keyMoves,
          keyAt,        \* how far init and exit have come
          keyDone,      \* pins that the loop of init is through with, and exit's is not
          keyIrqs,      \* pins whose interrupt is requested
          keyListed,    \* is my_key registered
          keyPending,   \* pins whose interrupt is pending
          irq_info,     \* the button last interrupted by, or NoKey
          keyTimer,     \* is my_timer pending
          keyFunc,      \* what the running timer function has read, or Idle
          keysReported, \* buttons reported since they were last pressed
          alone,        \* the last press, while nothing has interfered
          stray,        \* an interrupt came before or after the driver was up
          keyFault      \* what went wrong

pinVars  == <<pinFn, latch>>
btnVars  == <<pressed, keyMoves, keyPending>>
dbncVars == <<irq_info, keyTimer, keyFunc>>
repVars  == <<keysReported, keyFault>>
gotVars  == <<keyDone, keyIrqs, keyListed>>
keyVars  == <<pinVars, btnVars, dbncVars, repVars, keyAt, gotVars, alone, stray>>

NoKey == -1
Idle  == [key |-> NoKey, low |-> FALSE]

\* s3c2410_gpio_getpin: an output reads as driven, a button pulls its pin low.
PinLow(p) == IF pinFn[p] = "output" THEN latch[p] = 0 ELSE p \in pressed

KeyRuns == keyAt # "crashed"
NoKeyIrq == keyPending \cap keyIrqs = {}

-----------------------------------------------------------------------------
(* The buttons.  A press pulls the pin low and interrupts; whether a       *)
(* release does as well is up to the trigger that the board has set, since *)
(* request_irq is called without one.                                      *)

Press(p) ==
  /\ KeyRuns /\ keyMoves < KeyMoves /\ p \notin pressed
  /\ pressed' = pressed \cup {p}
  /\ keyMoves' = keyMoves + 1
  /\ keyPending' = IF pinFn[p] = "eint" THEN keyPending \cup {p} ELSE keyPending
  /\ keysReported' = keysReported \ {p}
  /\ alone' = IF /\ keyAt = "loaded" /\ keyListed /\ p \in keyIrqs /\ pinFn[p] = "eint"
                 /\ keyPending = {} /\ keyFunc = Idle
              THEN p ELSE NoKey
  /\ UNCHANGED <<pinVars, dbncVars, keyFault, keyAt, gotVars, stray>>

Release(p) ==
  /\ KeyRuns /\ keyMoves < KeyMoves /\ p \in pressed
  /\ pressed' = pressed \ {p}
  /\ keyMoves' = keyMoves + 1
  /\ \/ keyPending' = keyPending
     \/ pinFn[p] = "eint" /\ keyPending' = keyPending \cup {p}
  /\ alone' = NoKey
  /\ UNCHANGED <<pinVars, dbncVars, repVars, keyAt, gotVars, stray>>

-----------------------------------------------------------------------------
(* The interrupt handler and the timer function.                           *)

\* Mutation of Remember: the first of two buttons is kept.
RememberFirst(p) == irq_info' = IF irq_info = NoKey THEN p ELSE irq_info

Remember(p) == irq_info' = p

key_input_handleirq(p) ==
  /\ KeyRuns /\ p \in keyPending \cap keyIrqs
  /\ keyPending' = keyPending \ {p}
  /\ Remember(p)
  /\ keyTimer' = TRUE
  /\ stray' = (stray \/ keyAt # "loaded")
  /\ UNCHANGED <<pinVars, pressed, keyMoves, keyFunc, repVars, keyAt, gotVars,
                 alone>>

\* my_timer_func up to the read of the pin: nothing to do, or code that is gone
KeyTimerRead ==
  /\ KeyRuns /\ NoKeyIrq /\ keyTimer /\ keyFunc = Idle
  /\ keyTimer' = FALSE
  /\ IF keyAt = "gone"
     THEN keyAt' = "crashed" /\ keyFault' = keyFault \cup {"code gone"}
          /\ UNCHANGED keyFunc
     ELSE /\ keyFunc' = IF irq_info = NoKey THEN Idle
                        ELSE [key |-> irq_info, low |-> PinLow(irq_info)]
          /\ UNCHANGED <<keyAt, keyFault>>
  /\ UNCHANGED <<pinVars, btnVars, irq_info, keysReported, gotVars, alone,
                 stray>>

\* my_key is NULL before it is allocated and dangling after it is freed.
DeviceFault == CASE keyAt = "irqs" -> {"no device"}
                 [] keyAt = "freed" -> {"device freed"}
                 [] OTHER -> {}

\* The rest of my_timer_func: a release is not reported, its call is
\* commented out, and nobody hears a device that is not registered.
KeyTimerReport ==
  /\ KeyRuns /\ NoKeyIrq /\ keyFunc # Idle
  /\ keyFunc' = Idle
  /\ irq_info' = NoKey
  /\ IF keyFunc.low
     THEN /\ keysReported' = IF keyListed THEN keysReported \cup {keyFunc.key}
                             ELSE keysReported
          /\ keyFault' = keyFault \cup DeviceFault
          /\ keyAt' = IF DeviceFault = {} THEN keyAt ELSE "crashed"
     ELSE UNCHANGED <<repVars, keyAt>>
  /\ UNCHANGED <<pinVars, btnVars, keyTimer, gotVars, alone, stray>>

-----------------------------------------------------------------------------
(* Module init and exit.                                                   *)

\* A process runs when no interrupt and no timer function does.
InProcess == KeyRuns /\ NoKeyIrq /\ keyFunc = Idle

KeyProcess(from, to) == InProcess /\ keyAt = from /\ keyAt' = to

LowestOf(S) == CHOOSE p \in S : \A q \in S : p <= q

\* One round of the loop of key_input_init: cfgpin, and request_irq, whose
\* failure is not noticed
KeyInitPin ==
  /\ keyDone # KeyPins
  /\ KeyProcess("irqs", "irqs")
  /\ LET p == LowestOf(KeyPins \ keyDone)
     IN  /\ pinFn' = [pinFn EXCEPT ![p] = "eint"]
         /\ keyDone' = keyDone \cup {p}
         /\ keyIrqs' \in {keyIrqs, keyIrqs \cup {p}}
  /\ UNCHANGED <<keyListed, latch, btnVars, dbncVars, repVars, alone, stray>>

\* input_allocate_device up to input_register_device, which may fail unnoticed
KeyInitDevice ==
  /\ keyDone = KeyPins
  /\ KeyProcess("irqs", "device")
  /\ keyListed' \in BOOLEAN
  /\ UNCHANGED <<keyDone, keyIrqs, pinVars, btnVars, dbncVars, repVars, alone, stray>>

\* So may input_allocate_device, and then set_bit writes through NULL.
KeyInitNoDevice ==
  /\ keyDone = KeyPins
  /\ KeyProcess("irqs", "crashed")
  /\ keyFault' = keyFault \cup {"not allocated"}
  /\ UNCHANGED <<gotVars, pinVars, btnVars, dbncVars, keysReported, alone, stray>>

\* add_timer is for a timer that is not pending.
KeyAddTimer ==
  /\ InProcess /\ keyAt = "device"
  /\ keyTimer' = TRUE
  /\ IF keyTimer
     THEN keyAt' = "crashed" /\ keyFault' = keyFault \cup {"timer pending"}
     ELSE keyAt' = "loaded" /\ UNCHANGED keyFault
  /\ UNCHANGED <<pinVars, btnVars, irq_info, keyFunc, keysReported, gotVars,
                 alone, stray>>

\* key_input_exit: del_timer, then the device is unregistered and freed, then
\* the interrupts are freed one by one.
KeyExitTimer ==
  /\ KeyProcess("loaded", "stopped")
  /\ keyTimer' = FALSE
  /\ alone' = NoKey
  /\ UNCHANGED <<pinVars, btnVars, irq_info, keyFunc, repVars, gotVars, stray>>

\* input_unregister_device puts the device, which is then gone, and
\* input_free_device puts it once more, at every unload.  That may go unseen, and
\* the exit is followed further; unregistering what is not registered is the end.
KeyExitDevice ==
  /\ KeyProcess("stopped", IF keyListed THEN "freed" ELSE "crashed")
  /\ keyListed' = FALSE
  /\ keyFault' = keyFault \cup {IF keyListed THEN "put twice" ELSE "not registered"}
  /\ UNCHANGED <<keyDone, keyIrqs, pinVars, btnVars, dbncVars, keysReported, alone, stray>>

\* One round of the loop of key_input_exit; to free an interrupt that was not
\* requested is an error that free_irq reports and nothing more.
KeyExitIrq ==
  /\ keyDone # {}
  /\ KeyProcess("freed", "freed")
  /\ LET p == LowestOf(keyDone)
     IN  keyDone' = keyDone \ {p} /\ keyIrqs' = keyIrqs \ {p}
  /\ UNCHANGED <<keyListed, pinVars, btnVars, dbncVars, repVars, alone, stray>>

KeyExitDone ==
  /\ keyDone = {}
  /\ KeyProcess("freed", "gone")
  /\ UNCHANGED <<pinVars, btnVars, dbncVars, repVars, gotVars, alone, stray>>

-----------------------------------------------------------------------------
KeyInit ==
  /\ pinFn = [p \in Pins |-> "input"] /\ latch = [p \in Pins |-> 0]
  /\ pressed = {} /\ keyMoves = 0 /\ keyPending = {}
  /\ keyAt = "irqs" /\ keyDone = {} /\ keyIrqs = {} /\ keyListed = FALSE
  /\ irq_info = NoKey /\ keyTimer = FALSE /\ keyFunc = Idle
  /\ keysReported = {} /\ keyFault = {}
  /\ alone = NoKey /\ stray = FALSE

KeyServe == \/ \E p \in KeyPins : key_input_handleirq(p)
            \/ KeyTimerRead \/ KeyTimerReport

KeyNext ==
  \/ \E p \in KeyPins : Press(p) \/ Release(p) \/ key_input_handleirq(p)
  \/ KeyTimerRead \/ KeyTimerReport
  \/ KeyInitPin \/ KeyInitDevice \/ KeyInitNoDevice \/ KeyAddTimer
  \/ KeyExitTimer \/ KeyExitDevice \/ KeyExitIrq \/ KeyExitDone

-----------------------------------------------------------------------------
KeyTypeOK ==
  /\ pinFn \in [Pins -> {"input", "output", "eint"}]
  /\ latch \in [Pins -> {0, 1}]
  /\ pressed \subseteq KeyPins /\ keyMoves \in 0..KeyMoves
  /\ keyPending \subseteq KeyPins
  /\ keyDone \subseteq KeyPins /\ keyIrqs \subseteq KeyPins /\ keyListed \in BOOLEAN
  /\ keyAt \in {"irqs", "device", "loaded", "stopped", "freed", "gone", "crashed"}
  /\ irq_info \in KeyPins \cup {NoKey}
  /\ keyTimer \in BOOLEAN
  /\ keyFunc \in [key : KeyPins, low : BOOLEAN] \cup {Idle}
  /\ keysReported \subseteq KeyPins
  /\ alone \in KeyPins \cup {NoKey} /\ stray \in BOOLEAN
  /\ keyFault \subseteq {"no device", "device freed", "code gone", "timer pending",
                         "put twice", "not allocated", "not registered"}

\* The driver touches its input device and its timer only while they exist,
\* unless a button interrupted while the driver was coming up or going away
\* (the interrupts are requested first and freed last).  Two faults need no
\* interrupt: every unload puts the input device twice (key_input.c:96, 97), and
\* a device that could not be had is used all the same (:78, :96).
KeyFaultsExplained ==
  \A f \in keyFault :
    \/ stray
    \/ f = "put twice" /\ keyAt \in {"freed", "gone"}
    \/ f \in {"not allocated", "not registered"} /\ keyAt = "crashed"

\* The last press of a button whose interrupt and device init could get is
\* reported however many others are on their way to be, although one variable
\* and one timer serve all buttons, unless it came while the timer function was
\* at work on an earlier one, or somebody else reconfigured the pins.
LonePressReported ==
  \A p \in KeyPins : alone = p ~> (p \in keysReported \/ alone # p)
=============================================================================
