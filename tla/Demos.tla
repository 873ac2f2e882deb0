------------------------------- MODULE Demos -------------------------------
(***************************************************************************)
(* The demonstrations of the repository that stand alone: drivers and      *)
(* programs which share nothing with each other but the machine (the two   *)
(* drivers of GPIO port F, which share its pins, are one demonstration).   *)
(* Whoever tries the repository loads or starts one of them: an execution  *)
(* is one demonstration after its choice, and the others rest.             *)
(***************************************************************************)
EXTENDS TouchScreen, HwControl, UsbMouse, TheDma, RamDisk, NetifOp, I2cDevices,
        ModuleLife, Ds18b20, Am2305

CONSTANT Studied        \* the demonstrations that may be chosen

VARIABLE demo           \* the one that is

demoVars == <<demo, tsVars, portVars, mouseVars, dmaVars, diskVars, opVars, i2cVars,
              lifeVars, dsVars, amVars>>

AllDemos == {"touch", "port", "mouse", "dma", "disk", "netif_op", "i2c", "life",
             "ds18b20", "am2305"}

ASSUME DemosAssumption == Studied \subseteq AllDemos

Rest(d) == demo = d /\ UNCHANGED demo

Init == /\ demo \in Studied
        /\ TsInit /\ PortInit /\ MouseInit /\ DmaInit /\ DiskInit /\ OpInit /\ I2cInit
        /\ LifeInit /\ DsInit /\ AmInit

Touch == /\ Rest("touch") /\ TsNext
         /\ UNCHANGED <<portVars, mouseVars, dmaVars, diskVars, opVars, i2cVars, lifeVars,
                        dsVars, amVars>>
Port == /\ Rest("port") /\ PortNext
        /\ UNCHANGED <<tsVars, mouseVars, dmaVars, diskVars, opVars, i2cVars, lifeVars,
                       dsVars, amVars>>
Mouse == /\ Rest("mouse") /\ MouseNext
         /\ UNCHANGED <<tsVars, portVars, dmaVars, diskVars, opVars, i2cVars, lifeVars,
                        dsVars, amVars>>
Dma == /\ Rest("dma") /\ DmaNext
       /\ UNCHANGED <<tsVars, portVars, mouseVars, diskVars, opVars, i2cVars, lifeVars,
                      dsVars, amVars>>
Disk == /\ Rest("disk") /\ DiskNext
        /\ UNCHANGED <<tsVars, portVars, mouseVars, dmaVars, opVars, i2cVars, lifeVars,
                       dsVars, amVars>>
Op == /\ Rest("netif_op") /\ OpNext
      /\ UNCHANGED <<tsVars, portVars, mouseVars, dmaVars, diskVars, i2cVars, lifeVars,
                     dsVars, amVars>>
I2c == /\ Rest("i2c") /\ I2cNext
       /\ UNCHANGED <<tsVars, portVars, mouseVars, dmaVars, diskVars, opVars, lifeVars,
                      dsVars, amVars>>
Life == /\ Rest("life") /\ LifeNext
        /\ UNCHANGED <<tsVars, portVars, mouseVars, dmaVars, diskVars, opVars, i2cVars,
                       dsVars, amVars>>
Ds == /\ Rest("ds18b20") /\ DsNext
      /\ UNCHANGED <<tsVars, portVars, mouseVars, dmaVars, diskVars, opVars, i2cVars,
                     lifeVars, amVars>>
Am == /\ Rest("am2305") /\ AmNext
      /\ UNCHANGED <<tsVars, portVars, mouseVars, dmaVars, diskVars, opVars, i2cVars,
                     lifeVars, dsVars>>

Next == Touch \/ Port \/ Mouse \/ Dma \/ Disk \/ Op \/ I2c \/ Life \/ Ds \/ Am

Spec == Init /\ [][Next]_demoVars

\* The processors, the clock and the hardware that has begun something go on;
\* nobody has to load, open or call anything.
FairSpec == Spec /\ TsFairness /\ PortFairness /\ DmaFairness /\ DsFairness /\ AmFairness

-----------------------------------------------------------------------------
DemosTypeOK ==
  /\ demo \in Studied
  /\ TsTypeOK /\ KeyTypeOK /\ HwTypeOK /\ MouseTypeOK /\ DmaTypeOK /\ DiskTypeOK
  /\ OpTypeOK /\ I2cTypeOK /\ LifeTypeOK /\ DsTypeOK /\ AmTypeOK

\* The touch screen: averages are of four samples, what outlives the module is
\* one timer, and the pen is followed (my_ts.c).
TouchWorks == []TouchSafe /\ TouchFollowsPen

\* Modules of the drivers on the I2C bus, and the other small modules, come and
\* go in any order, some of their calls failing.
ModulesComeAndGo == DriversShareBus /\ LifeOrderly

\* The two sensors on one wire: what a read left alone returns is what was
\* measured, and reads end.
SensorsRead == [](ShowsMeasured /\ OneMeasurement) /\ ReadsEnd /\ LeavesLoops
=============================================================================
