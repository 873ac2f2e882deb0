----------------------------- MODULE HwControl -----------------------------
(***************************************************************************)
(* hw_control.c, which lets a process drive pins of GPIO port F, together  *)
(* with the button driver, which uses the same pins: neither reserves      *)
(* them, and each configures them as it likes.                             *)
(***************************************************************************)
EXTENDS KeyInput

CONSTANT HwFiles        \* bound on how many files are open at a time

ASSUME HwAssumption == HwFiles \in Nat

VARIABLES hwOpen,       \* files open
          hwLevels,     \* what the last open or write was to drive
          hwDisturbed   \* a pin was configured by another since the last open

hwVars   == <<hwOpen, hwLevels, hwDisturbed>>
portVars == <<keyVars, hwVars>>

keyOnly == <<btnVars, dbncVars, repVars, keyAt, gotVars, stray>>

hw_control_open ==
  /\ InProcess /\ hwOpen < HwFiles
  /\ hwOpen' = hwOpen + 1
  /\ pinFn' = [p \in Pins |-> IF p \in OutPins THEN "output" ELSE pinFn[p]]
  /\ latch' = [p \in Pins |-> IF p \in OutPins THEN 0 ELSE latch[p]]
  /\ hwLevels' = [p \in OutPins |-> 0]
  /\ hwDisturbed' = FALSE
  /\ alone' = NoKey
  /\ UNCHANGED keyOnly

\* The four bytes are the caller's, or what the stack held if copying fails.
hw_control_write ==
  /\ InProcess /\ hwOpen > 0
  /\ \E data \in [OutPins -> {0, 1}] :
        /\ latch' = [p \in Pins |-> IF p \in OutPins THEN data[p] ELSE latch[p]]
        /\ hwLevels' = data
  /\ alone' = NoKey
  /\ UNCHANGED <<pinFn, hwOpen, hwDisturbed, keyOnly>>

hw_control_close ==
  /\ InProcess /\ hwOpen > 0
  /\ hwOpen' = hwOpen - 1
  /\ pinFn' = [p \in Pins |-> IF p \in InPins THEN "input" ELSE pinFn[p]]
  /\ hwDisturbed' = TRUE
  /\ alone' = NoKey
  /\ UNCHANGED <<latch, hwLevels, keyOnly>>

-----------------------------------------------------------------------------
PortInit ==
  /\ KeyInit
  /\ hwOpen = 0 /\ hwLevels = [p \in OutPins |-> 0] /\ hwDisturbed = FALSE

PortNext ==
  \/ /\ KeyNext
     /\ hwDisturbed' = (hwDisturbed \/ pinFn' # pinFn)
     /\ UNCHANGED <<hwOpen, hwLevels>>
  \/ hw_control_open \/ hw_control_write \/ hw_control_close

PortFairness == WF_portVars(KeyServe /\ UNCHANGED hwVars)

-----------------------------------------------------------------------------
HwTypeOK == /\ hwOpen \in 0..HwFiles
            /\ hwLevels \in [OutPins -> {0, 1}]
            /\ hwDisturbed \in BOOLEAN

\* While a process has hw_control open and no other process closes it and the
\* button driver is not loaded meanwhile, the pins are at the levels written.
LevelsDriven ==
  hwOpen > 0 /\ ~hwDisturbed =>
    \A p \in OutPins : pinFn[p] = "output" /\ latch[p] = hwLevels[p]

\* The two drivers of port F: presses are reported, faults have one of the
\* causes named, and pins are driven as written.
KeysFollowButtons ==
  /\ [](KeyFaultsExplained /\ LevelsDriven)
  /\ LonePressReported
=============================================================================
