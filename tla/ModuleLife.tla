----------------------------- MODULE ModuleLife -----------------------------
(***************************************************************************)
(* How seven small driver modules are loaded and unloaded: what module_init *)
(* takes, which failures it notices, and what module_exit gives back in    *)
(* which order.  Init and exit of a module are lists of steps; any call    *)
(* that takes something may fail.                                          *)
(***************************************************************************)
EXTENDS Naturals, Sequences

CONSTANTS LifeLoads,    \* bound on how often a module is loaded
          LifeFailures  \* bound on how many calls fail

ASSUME LifeAssumption == LifeLoads \in Nat /\ LifeFailures \in Nat

Programs == {"am2305", "hw_control", "ds18b20", "lcd", "nandflash", "norflash", "usb_simp"}

-----------------------------------------------------------------------------
(* Steps.                                                                  *)

\* Something is taken: a failure is returned, ignored, makes the module undo
\* what it did, or retry another way to get the same.
take(r, onfail) == [op |-> "take", r |-> r, onfail |-> onfail, needs |-> {}]
\* Something is looked for, and init fails without it.
check(r) == [op |-> "check", r |-> r, onfail |-> "return", needs |-> {}]
\* It fails quietly without what it needs.
takeOf(r, n) == [op |-> "take", r |-> r, onfail |-> "ignore", needs |-> {n}]
\* It is dereferenced, so that it has to be there.
deref(r) == [op |-> "deref", r |-> r, onfail |-> "ignore", needs |-> {}]
\* It is given back; giving back nothing does nothing.
give(r) == [op |-> "give", r |-> r, onfail |-> "ignore", needs |-> {}]

\* What am2305_init, ds18b20_init and hw_control_init have in common.
nodeInit == <<take("major", "return"), take("class", "ignore"), takeOf("device", "class")>>
\* device_destroy looks into the class.
nodeExit == <<deref("class"), give("device"), give("class"), give("major")>>

mylcd_init ==
  <<take("info", "ignore"), deref("info"),
    take("gpio", "ignore"), deref("gpio"),
    take("regs", "ignore"), deref("regs"),
    takeOf("frame", "info"), take("scanning", "never"), takeOf("fb", "info")>>

my_nand_init ==
  <<take("clock", "ignore"), takeOf("enabled_clock", "clock"),
    take("nand", "ignore"), take("mtd", "ignore"), take("regs", "ignore"),
    deref("nand"), deref("mtd"), deref("regs"),
    takeOf("tables", "nand"), takeOf("partitions", "mtd")>>

\* cfi_probe, then jedec_probe, which is skipped if the first has succeeded.
my_nor_init ==
  <<take("map", "ignore"), deref("map"), take("virt", "ignore"), deref("virt"),
    take("mtd", "retry"), take("mtd", "undo"), takeOf("partitions", "mtd")>>
norUndo == <<give("virt"), give("map")>>

\* ds18b20_init looks for the chip first.
ds18b20_init == <<check("chip")>> \o nodeInit

InitOf(m) ==
  CASE m \in {"am2305", "hw_control"} -> nodeInit
    [] m = "ds18b20" -> ds18b20_init
    [] m = "lcd" -> mylcd_init
    [] m = "nandflash" -> my_nand_init
    [] m = "norflash" -> my_nor_init
    [] m = "usb_simp" -> <<take("driver", "ignore")>>

\* mylcd_exit switches the controller off before the frame goes, which it gives
\* back under a wrong address.
mylcd_exit ==
  <<give("fb"), deref("regs"), give("scanning"), deref("info"),
    give("regs"), give("gpio"), give("info")>>

my_nand_exit == <<give("partitions"), give("regs"), give("nand"), give("mtd")>>

my_nor_exit == <<give("partitions"), deref("map"), give("virt"), give("map")>>

\* usb_deregister looks into the driver that usb_register was given.
my_usb_simp_exit == <<deref("driver"), give("driver")>>

\* Mutation of ExitOf: registers are unmapped first.
ExitUnmapsFirst(m) ==
  CASE m \in {"am2305", "hw_control", "ds18b20"} -> nodeExit
    [] m = "lcd" -> <<give("regs")>> \o mylcd_exit
    [] m = "nandflash" -> my_nand_exit
    [] m = "norflash" -> my_nor_exit
    [] m = "usb_simp" -> my_usb_simp_exit

ExitOf(m) ==
  CASE m \in {"am2305", "hw_control", "ds18b20"} -> nodeExit
    [] m = "lcd" -> mylcd_exit
    [] m = "nandflash" -> my_nand_exit
    [] m = "norflash" -> my_nor_exit
    [] m = "usb_simp" -> my_usb_simp_exit

-----------------------------------------------------------------------------
VARIABLES subject,      \* the module
          phase,        \* "out", "init", "undo", "in" or "exit"
          lifeStep,     \* its next step
          lifeHeld,     \* what the module has
          leaked,       \* what it had when it went
          missed,       \* what it failed to get in this life without noticing
          returned,     \* what insmod has returned
          crashedOn,    \* what was not there when it was dereferenced
          lifeLoads, lifeFailures

lifeVars == <<subject, phase, lifeStep, lifeHeld, leaked, missed, returned,
              crashedOn, lifeLoads, lifeFailures>>

Steps == CASE phase = "init" -> InitOf(subject)
           [] phase = "exit" -> ExitOf(subject)
           [] phase = "undo" -> norUndo
           [] OTHER -> <<>>
InSteps == crashedOn = "none" /\ phase \in {"init", "exit", "undo"} /\ lifeStep <= Len(Steps)
Now == Steps[lifeStep]
Advance == lifeStep' = lifeStep + 1 /\ UNCHANGED phase

Insmod(m) ==
  /\ phase = "out" /\ subject \in {"none", m} /\ lifeLoads < LifeLoads
  /\ lifeLoads' = lifeLoads + 1
  /\ subject' = m /\ phase' = "init" /\ lifeStep' = 1
  /\ missed' = {} /\ returned' = "nothing"
  /\ UNCHANGED <<lifeHeld, leaked, crashedOn, lifeFailures>>

Rmmod ==
  /\ phase = "in"
  /\ phase' = "exit" /\ lifeStep' = 1
  /\ UNCHANGED <<subject, lifeHeld, leaked, missed, returned, crashedOn, lifeLoads,
                 lifeFailures>>

TakeIt ==
  /\ InSteps /\ Now.op \in {"take", "check"}
  /\ Now.needs \subseteq lifeHeld
  /\ lifeHeld' = IF Now.op = "take" THEN lifeHeld \cup {Now.r} ELSE lifeHeld
  /\ missed' = missed \ {Now.r}
  /\ Advance
  /\ UNCHANGED <<subject, leaked, returned, crashedOn, lifeLoads, lifeFailures>>

\* A call that takes something fails: by itself, or without what it needs.
TakeFails ==
  /\ InSteps /\ Now.op \in {"take", "check"} /\ Now.onfail # "never" /\ Now.r \notin lifeHeld
  /\ IF Now.needs \subseteq lifeHeld
     THEN lifeFailures < LifeFailures /\ lifeFailures' = lifeFailures + 1
     ELSE UNCHANGED lifeFailures
  /\ CASE Now.onfail = "return" ->
            /\ phase' = "out" /\ lifeStep' = 1 /\ returned' = "error"
            /\ lifeHeld' = {} /\ leaked' = leaked \cup lifeHeld
            /\ UNCHANGED missed
       [] Now.onfail = "undo" ->
            /\ phase' = "undo" /\ lifeStep' = 1
            /\ UNCHANGED <<lifeHeld, leaked, missed, returned>>
       [] OTHER ->
            /\ missed' = missed \cup {Now.r} /\ Advance
            /\ UNCHANGED <<lifeHeld, leaked, returned>>
  /\ UNCHANGED <<subject, crashedOn, lifeLoads>>

Deref ==
  /\ InSteps /\ Now.op = "deref"
  /\ IF Now.r \in lifeHeld THEN Advance /\ UNCHANGED crashedOn
     ELSE crashedOn' = Now.r /\ UNCHANGED <<phase, lifeStep>>
  /\ UNCHANGED <<subject, lifeHeld, leaked, missed, returned, lifeLoads, lifeFailures>>

Give ==
  /\ InSteps /\ Now.op = "give"
  /\ lifeHeld' = lifeHeld \ {Now.r} /\ Advance
  /\ UNCHANGED <<subject, leaked, missed, returned, crashedOn, lifeLoads, lifeFailures>>

\* The end of init, of what it undoes, or of exit.
Ends ==
  /\ phase \in {"init", "exit", "undo"} /\ lifeStep > Len(Steps)
  /\ lifeStep' = 1
  /\ IF phase = "init"
     THEN phase' = "in" /\ returned' = "ok" /\ UNCHANGED <<lifeHeld, leaked>>
     ELSE /\ phase' = "out" /\ lifeHeld' = {} /\ leaked' = leaked \cup lifeHeld
          /\ returned' = IF phase = "undo" THEN "error" ELSE returned
  /\ UNCHANGED <<subject, missed, crashedOn, lifeLoads, lifeFailures>>

-----------------------------------------------------------------------------
LifeInit ==
  /\ subject = "none" /\ phase = "out" /\ lifeStep = 1
  /\ lifeHeld = {} /\ leaked = {} /\ missed = {} /\ returned = "nothing"
  /\ crashedOn = "none" /\ lifeLoads = 0 /\ lifeFailures = 0

LifeNext == \/ \E m \in Programs : Insmod(m)
            \/ Rmmod \/ TakeIt \/ TakeFails \/ Deref \/ Give \/ Ends

-----------------------------------------------------------------------------
LifeTypeOK ==
  /\ subject \in Programs \cup {"none"}
  /\ phase \in {"out", "init", "undo", "in", "exit"}
  /\ lifeStep \in 1..11 /\ missed \cap lifeHeld = {}
  /\ lifeLoads \in 0..LifeLoads /\ lifeFailures \in 0..LifeFailures

\* What each module forgets to give back: the frame of the screen, the clock
\* and the tables of nand_scan, and what the probe of the flash has made.
Forgotten(m) == CASE m = "lcd" -> {"frame"}
                  [] m = "nandflash" -> {"clock", "enabled_clock", "tables"}
                  [] m = "norflash" -> {"mtd"}
                  [] OTHER -> {}

\* A module crashes only for something that it did not get and did not check,
\* never for something it has given back too early.
CrashesUnchecked == crashedOn # "none" => crashedOn \in missed

\* A module that is not loaded has left nothing but what it forgets, whichever
\* of its calls has failed.
LeavesForgotten ==
  subject # "none" => leaked \subseteq Forgotten(subject)

\* The controller never scans a frame that is given back.
ScansFrame == "scanning" \in lifeHeld => "frame" \in lifeHeld \cup missed

\* The modules are loaded and unloaded in order, whatever fails, except where
\* a failure is not looked at or something is forgotten.
LifeOrderly == CrashesUnchecked /\ LeavesForgotten /\ ScansFrame
=============================================================================
