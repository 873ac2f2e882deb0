---------------------------- MODULE I2cDevices ----------------------------
(***************************************************************************)
(* Three pairs of kernel modules for chips on the I2C bus: one module of a *)
(* pair puts the chip on the bus (i2c_dev.c, ov9650_dev.c, bh1750_dev.c),  *)
(* the other is its driver (i2c_driver.c, ov9650_drv.c, bh1750_drv.c).     *)
(* They are loaded and unloaded in any order.  The drivers of the first    *)
(* two create a class of the same name, and the third has no remove.  The  *)
(* I2C core, the class and the character device tables are external.       *)
(***************************************************************************)
EXTENDS Naturals, FiniteSets

CONSTANTS I2cLoads,     \* bound on how many modules are loaded
          ChipLosses    \* bound on how often a chip falls silent

ASSUME I2cAssumption == I2cLoads \in Nat /\ ChipLosses \in Nat

Kinds == {"i2c", "ov9650", "bh1750"}
ClassName == [k \in Kinds |-> IF k = "bh1750" THEN "bh1750s" ELSE "junzi_class"]

VARIABLES devLoaded,    \* kinds whose device module is loaded
          drvLoaded,    \* kinds whose driver is loaded
          everLoaded,   \* kinds whose driver has been loaded
          client,       \* kinds whose chip is on the bus
          chip,         \* kinds whose chip answers
          i2cBound,     \* kinds whose chip the driver has
          chrdev,       \* the major number's operations, by kind
          class,        \* who has created the class of a name
          myClass,      \* what my_class holds, by kind
          node,         \* kinds with a node in /dev
          i2cOpen,      \* kinds with an open file
          answer,       \* what the last read or write returned
          i2cFault,     \* the use of something that is not there
          i2cLoads, chipLosses

i2cVars == <<devLoaded, drvLoaded, everLoaded, client, chip, i2cBound, chrdev,
             class, myClass, node, i2cOpen, answer, i2cFault, i2cLoads, chipLosses>>
files   == <<i2cOpen, answer>>
devices == <<chrdev, class, myClass, node>>

Up == i2cFault = "none"
NoAnswer == [kind |-> "none", result |-> "none", silent |-> FALSE]

-----------------------------------------------------------------------------
(* Probe and remove.                                                       *)

\* Only the driver of the camera talks to its chip before it accepts it.
Accepts(k) == k = "ov9650" => k \in chip

\* my_i2c_probe, ov9650_probe and BH1750_probe.  No result is checked:
\* register_chrdev fails if the major number is taken, class_create if the name
\* is, and device_create without a class.
Probe(k) ==
  LET free == class[ClassName[k]] = "none"
  IN  /\ i2cBound' = i2cBound \cup {k}
      /\ chrdev' = [chrdev EXCEPT ![k] = IF @ = "none" THEN "live" ELSE @]
      /\ class' = IF free THEN [class EXCEPT ![ClassName[k]] = k] ELSE class
      /\ myClass' = [myClass EXCEPT ![k] = IF free THEN "class" ELSE "error"]
      /\ node' = IF free THEN node \cup {k} ELSE node
      /\ UNCHANGED i2cFault

\* Mutation of RemoveDevice: the class is forgotten.
RemoveDeviceKeepsClass(k) ==
  /\ i2cBound' = i2cBound \ {k}
  /\ IF myClass[k] = "class"
     THEN /\ node' = node \ {k}
          /\ chrdev' = [chrdev EXCEPT ![k] = "none"]
          /\ UNCHANGED <<class, i2cFault>>
     ELSE i2cFault' = "destroyed an error" /\ UNCHANGED <<node, class, chrdev>>
  /\ UNCHANGED myClass

\* my_i2c_remove and ov9650_remove: device_destroy looks into the class, even
\* if my_class is an error code.
RemoveDevice(k) ==
  /\ i2cBound' = i2cBound \ {k}
  /\ IF myClass[k] = "class"
     THEN /\ node' = node \ {k}
          /\ class' = [class EXCEPT ![ClassName[k]] = "none"]
          /\ chrdev' = [chrdev EXCEPT ![k] = "none"]
          /\ UNCHANGED i2cFault
     ELSE i2cFault' = "destroyed an error" /\ UNCHANGED <<node, class, chrdev>>
  /\ UNCHANGED myClass

-----------------------------------------------------------------------------
(* The modules are loaded and unloaded.                                    *)

Load == Up /\ i2cLoads < I2cLoads /\ i2cLoads' = i2cLoads + 1

\* my_i2cdev_init, ov9650_device_init: -ENODEV if the chip does not answer or
\* its address is taken.
DeviceInit(k) ==
  /\ Load /\ k \notin devLoaded
  /\ IF k \in chip \ client
     THEN /\ devLoaded' = devLoaded \cup {k} /\ client' = client \cup {k}
          /\ IF k \in drvLoaded /\ Accepts(k) THEN Probe(k)
             ELSE UNCHANGED <<i2cBound, devices, i2cFault>>
     ELSE UNCHANGED <<devLoaded, client, i2cBound, devices, i2cFault>>
  /\ UNCHANGED <<drvLoaded, everLoaded, chip, files, chipLosses>>

\* my_i2cdev_exit, ov9650_device_exit: i2c_release_client drops a reference,
\* and the chip stays on the bus.
DeviceExit(k) ==
  /\ Up /\ k \in devLoaded
  /\ devLoaded' = devLoaded \ {k}
  /\ UNCHANGED <<drvLoaded, everLoaded, client, chip, i2cBound, devices, files,
                 i2cFault, i2cLoads, chipLosses>>

\* my_i2cdrv_init, ov9650_drv_init, BH1750_drv_init
DriverInit(k) ==
  /\ Load /\ k \notin drvLoaded
  /\ drvLoaded' = drvLoaded \cup {k} /\ everLoaded' = everLoaded \cup {k}
  /\ IF k \in client /\ Accepts(k) THEN Probe(k)
     ELSE UNCHANGED <<i2cBound, devices, i2cFault>>
  /\ UNCHANGED <<devLoaded, client, chip, files, chipLosses>>

\* my_i2cdrv_exit, ov9650_drv_exit, BH1750_drv_exit; an open file holds the
\* module.  The driver of the light sensor has no remove: its major number
\* stays, with operations that are gone.
DriverExit(k) ==
  /\ Up /\ k \in drvLoaded \ i2cOpen
  /\ drvLoaded' = drvLoaded \ {k}
  /\ CASE k \notin i2cBound -> UNCHANGED <<i2cBound, devices, i2cFault>>
       [] k \in i2cBound /\ k # "bh1750" -> RemoveDevice(k)
       [] OTHER -> /\ i2cBound' = i2cBound \ {k}
                   /\ chrdev' = [chrdev EXCEPT ![k] = "gone"]
                   /\ UNCHANGED <<class, myClass, node, i2cFault>>
  /\ UNCHANGED <<devLoaded, everLoaded, client, chip, files, i2cLoads, chipLosses>>

-----------------------------------------------------------------------------
(* Processes.                                                              *)

OpenNode(k) ==
  /\ Up /\ k \in node \ i2cOpen
  /\ CASE chrdev[k] = "live" -> i2cOpen' = i2cOpen \cup {k} /\ UNCHANGED i2cFault
       [] chrdev[k] = "gone" -> i2cFault' = "called what is gone" /\ UNCHANGED i2cOpen
       [] OTHER -> UNCHANGED <<i2cOpen, i2cFault>>
  /\ UNCHANGED <<devLoaded, drvLoaded, everLoaded, client, chip, i2cBound, devices,
                 answer, i2cLoads, chipLosses>>

Returns(k, result) ==
  /\ Up /\ k \in i2cOpen
  /\ answer' = [kind |-> k, result |-> result, silent |-> k \notin chip]
  /\ UNCHANGED <<devLoaded, drvLoaded, everLoaded, client, chip, i2cBound, devices,
                 i2cOpen, i2cFault, i2cLoads, chipLosses>>

\* my_read puts the error code into an unsigned char, where it is a byte like
\* any other; BH1750_read hands out both its results; ov9650_read reads nothing.
ReadNode(k) == Returns(k, IF k = "ov9650" THEN "nothing" ELSE "bytes")

\* my_write; ov9650_write writes nothing, and the light sensor has no write.
WriteNode(k) ==
  /\ k # "bh1750"
  /\ Returns(k, CASE k = "ov9650" -> "nothing"
                  [] k = "i2c" /\ k \in chip -> "written"
                  [] OTHER -> "error")

CloseNode(k) ==
  /\ Up /\ k \in i2cOpen /\ i2cOpen' = i2cOpen \ {k}
  /\ answer' = NoAnswer
  /\ UNCHANGED <<devLoaded, drvLoaded, everLoaded, client, chip, i2cBound, devices,
                 i2cFault, i2cLoads, chipLosses>>

ChipLost(k) ==
  /\ Up /\ k \in chip /\ chipLosses < ChipLosses /\ chipLosses' = chipLosses + 1
  /\ chip' = chip \ {k}
  /\ UNCHANGED <<devLoaded, drvLoaded, everLoaded, client, i2cBound, devices, files,
                 i2cFault, i2cLoads>>

-----------------------------------------------------------------------------
I2cInit ==
  /\ devLoaded = {} /\ drvLoaded = {} /\ everLoaded = {} /\ client = {}
  /\ chip = Kinds /\ i2cBound = {}
  /\ chrdev = [k \in Kinds |-> "none"]
  /\ class = [c \in {"junzi_class", "bh1750s"} |-> "none"]
  /\ myClass = [k \in Kinds |-> "none"]
  /\ node = {} /\ i2cOpen = {} /\ answer = NoAnswer
  /\ i2cFault = "none" /\ i2cLoads = 0 /\ chipLosses = 0

I2cNext ==
  \E k \in Kinds :
    \/ DeviceInit(k) \/ DeviceExit(k) \/ DriverInit(k) \/ DriverExit(k)
    \/ OpenNode(k) \/ ReadNode(k) \/ WriteNode(k) \/ CloseNode(k) \/ ChipLost(k)

-----------------------------------------------------------------------------
I2cTypeOK ==
  /\ devLoaded \subseteq Kinds /\ drvLoaded \subseteq Kinds /\ everLoaded \subseteq Kinds
  /\ client \subseteq Kinds /\ chip \subseteq Kinds /\ i2cBound \subseteq Kinds
  /\ chrdev \in [Kinds -> {"none", "live", "gone"}]
  /\ class \in [{"junzi_class", "bh1750s"} -> Kinds \cup {"none"}]
  /\ myClass \in [Kinds -> {"none", "class", "error"}]
  /\ node \subseteq Kinds /\ i2cOpen \subseteq Kinds
  /\ i2cLoads \in 0..I2cLoads /\ chipLosses \in 0..ChipLosses

Rivals(k) == {j \in Kinds \ {k} : ClassName[j] = ClassName[k]}

\* A driver finds its chip whichever of the two modules was loaded first, and
\* the processes can open it, unless another driver of the same class was loaded
\* or the driver itself has been loaded before.
BoundInEitherOrder ==
  \A k \in (drvLoaded \cap client) \ {"ov9650"} :
    /\ k \in i2cBound
    /\ Rivals(k) \cap everLoaded = {} /\ chrdev[k] = "live" => k \in node

\* When no driver of a class is loaded nothing of what they have made is left,
\* but for the driver without a remove.
NoDriverNothingLeft ==
  Up /\ {"i2c", "ov9650"} \cap drvLoaded = {} =>
    /\ class["junzi_class"] = "none"
    /\ {"i2c", "ov9650"} \cap node = {}
    /\ \A k \in {"i2c", "ov9650"} : chrdev[k] = "none"

\* A fault needs two drivers that create one class, or a driver without remove.
I2cFaultsExplained ==
  /\ i2cFault = "destroyed an error" => {"i2c", "ov9650"} \subseteq everLoaded
  /\ i2cFault = "called what is gone" => "bh1750" \in everLoaded \ i2cBound
                                          \/ myClass["bh1750"] = "error"

\* A write that has not reached the chip is reported as an error, which cannot
\* be said of a read.
WritesReported == answer.silent => answer.result # "written"

DriversShareBus ==
  BoundInEitherOrder /\ NoDriverNothingLeft /\ I2cFaultsExplained /\ WritesReported
=============================================================================
