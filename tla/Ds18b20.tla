------------------------------ MODULE Ds18b20 ------------------------------
(***************************************************************************)
(* The driver ds18b20.c of a thermometer on one wire.  A read is a series  *)
(* of pulses and bytes on the wire, which nothing keeps apart from those   *)
(* of another process; the two bytes of the temperature are then converted *)
(* to sign, integer and tenths.  The chip is external.                     *)
(***************************************************************************)
EXTENDS Integers

CONSTANTS Readers,      \* processes
          Temperatures, \* what the chip may measure, in sixteenths of a degree
          DsReads,      \* bound on how many reads are started
          DsEvents      \* bound on how often the temperature changes or the chip goes

\* The chip measures -55 to 125 degrees.
ASSUME Ds18b20Assumption == /\ Temperatures \subseteq -880..2000
                            /\ DsReads \in Nat /\ DsEvents \in Nat

VARIABLES dsOpen,       \* processes that have the device open
          reader,       \* what each process does next of ds18b20_read
          wire,         \* what the chip expects or sends
          dsMeasuring,  \* the process whose conversion is on, if any
          scratch,      \* the two bytes the chip hands out, as one number
          temperature,  \* what it would measure
          dsAttached,   \* is the chip there
          tl,           \* the low byte, while a process waits for the high one
          dsShown,      \* what its last read has shown
          disturbed,    \* processes with which another one or an event interfered
          dsReads, dsEvents

dsProcs == <<dsOpen, reader, tl, dsShown>>
dsChip  == <<wire, dsMeasuring, scratch, temperature, dsAttached>>
dsVars  == <<dsProcs, dsChip, disturbed, dsReads, dsEvents>>

Nobody == "nobody"
NoChip == 4096
NotYet == [text |-> [sign |-> "none", whole |-> 0, tenths |-> 0], of |-> 0]
Word(raw) == raw % 65536
Reading == {p \in Readers : reader[p] # "idle"}

-----------------------------------------------------------------------------
(* The conversion at the end of ds18b20_read.                              *)

\* Mutation of Shown: nothing is added to the complement.
ShownWithoutOne(high, low) ==
  IF high \div 8 = 0
  THEN [sign |-> "+", whole |-> high * 16 + low \div 16, tenths |-> ((low % 16) * 10) \div 16]
  ELSE [sign |-> "-", whole |-> (255 - high) * 16 + (255 - low) \div 16,
        tenths |-> (((255 - low) % 16) * 10) \div 16]

\* tltemp, an unsigned char, is never more than 255: nothing is carried.
Shown(high, low) ==
  IF high \div 8 = 0
  THEN [sign |-> "+", whole |-> high * 16 + low \div 16, tenths |-> ((low % 16) * 10) \div 16]
  ELSE LET tltemp == ((255 - low) + 1) % 256
           high1 == IF tltemp > 255 THEN (255 - high + 1) % 256 ELSE 255 - high
       IN  [sign |-> "-", whole |-> high1 * 16 + tltemp \div 16,
            tenths |-> ((tltemp % 16) * 10) \div 16]

\* The temperature as the comments beside the code define it.
Actual(raw) ==
  LET abs == IF raw < 0 THEN -raw ELSE raw
  IN  [sign |-> IF raw < 0 THEN "-" ELSE "+", whole |-> abs \div 16,
       tenths |-> ((abs % 16) * 10) \div 16]

-----------------------------------------------------------------------------
(* The chip.                                                               *)

WireIdle == [state |-> "idle", sent |-> 0]

\* ds18b20_reset, ds18b20_find_success
Pulse == wire' = IF dsAttached THEN [state |-> "rom", sent |-> 0] ELSE WireIdle

\* ds18b20_write_data: what the chip makes of a byte depends on what it has got
\* before.  While it sends, a byte to it is one more byte sent.
Hears(cmd) ==
  CASE wire.state = "rom" /\ cmd = "jump_rom" -> [state |-> "function", sent |-> 0]
    [] wire.state = "function" /\ cmd = "read_ram" -> [state |-> "sending", sent |-> 0]
    [] wire.state = "sending" -> [wire EXCEPT !.sent = IF @ < 2 THEN @ + 1 ELSE @]
    [] OTHER -> WireIdle

\* ds18b20_readbyte, eight times ds18b20_readbit: a wire that nobody pulls reads
\* as ones.  After the temperature come the bytes of its alarms.
Byte ==
  CASE wire.state = "sending" /\ wire.sent = 0 -> Word(scratch) % 256
    [] wire.state = "sending" /\ wire.sent = 1 -> Word(scratch) \div 256
    [] wire.state = "sending" /\ wire.sent = 2 -> 75
    [] OTHER -> 255

\* p does something on the wire while others are reading.
Disturbs(p) == disturbed' = disturbed \cup (Reading \ {p})

-----------------------------------------------------------------------------
(* The driver.                                                             *)

\* ds18b20_open looks for the chip with a pulse.
ds18b20_open(p) ==
  /\ p \notin dsOpen
  /\ dsOpen' = IF dsAttached THEN dsOpen \cup {p} ELSE dsOpen
  /\ Pulse /\ Disturbs(p)
  /\ UNCHANGED <<reader, tl, dsShown, dsMeasuring, scratch, temperature, dsAttached,
                 dsReads, dsEvents>>

ds18b20_close(p) ==
  /\ p \in dsOpen /\ reader[p] = "idle"
  /\ dsOpen' = dsOpen \ {p}
  /\ UNCHANGED <<reader, tl, dsShown, dsChip, disturbed, dsReads, dsEvents>>

\* ds18b20_read begins with the first ds18b20_work_init.
ds18b20_read(p) ==
  /\ p \in dsOpen /\ reader[p] = "idle" /\ dsReads < DsReads
  /\ dsReads' = dsReads + 1
  /\ reader' = [reader EXCEPT ![p] = "jump_to_convert"]
  /\ dsShown' = [dsShown EXCEPT ![p] = NotYet]
  /\ Pulse
  /\ disturbed' = (disturbed \ {p}) \cup (Reading \ {p})
  /\ UNCHANGED <<dsOpen, tl, dsMeasuring, scratch, temperature, dsAttached, dsEvents>>

Goes(p, from, to) == reader[p] = from /\ reader' = [reader EXCEPT ![p] = to]

WriteJump(p) ==
  /\ Goes(p, "jump_to_convert", "convert") \/ Goes(p, "jump_to_read", "read_ram")
  /\ wire' = Hears("jump_rom") /\ Disturbs(p)
  /\ UNCHANGED <<dsOpen, tl, dsShown, dsMeasuring, scratch, temperature, dsAttached,
                 dsReads, dsEvents>>

\* ds18b20_convert; a chip that is measuring goes on.
WriteConvert(p) ==
  /\ Goes(p, "convert", "wait")
  /\ wire' = Hears("convert") /\ Disturbs(p)
  /\ dsMeasuring' = IF wire.state = "function" /\ dsMeasuring = Nobody THEN p ELSE dsMeasuring
  /\ UNCHANGED <<dsOpen, tl, dsShown, scratch, temperature, dsAttached, dsReads, dsEvents>>

\* The second it waits is longer than any conversion.
WorkInit(p) ==
  /\ dsMeasuring # p
  /\ Goes(p, "wait", "jump_to_read")
  /\ Pulse /\ Disturbs(p)
  /\ UNCHANGED <<dsOpen, tl, dsShown, dsMeasuring, scratch, temperature, dsAttached,
                 dsReads, dsEvents>>

WriteReadRam(p) ==
  /\ Goes(p, "read_ram", "tl")
  /\ wire' = Hears("read_ram") /\ Disturbs(p)
  /\ UNCHANGED <<dsOpen, tl, dsShown, dsMeasuring, scratch, temperature, dsAttached,
                 dsReads, dsEvents>>

ReadLow(p) ==
  /\ Goes(p, "tl", "th")
  /\ tl' = [tl EXCEPT ![p] = Byte] /\ wire' = Hears("nothing") /\ Disturbs(p)
  /\ UNCHANGED <<dsOpen, dsShown, dsMeasuring, scratch, temperature, dsAttached,
                 dsReads, dsEvents>>

\* The second byte, the conversion and copy_to_user.
ReadHigh(p) ==
  /\ Goes(p, "th", "idle")
  /\ tl' = [tl EXCEPT ![p] = 0] /\ wire' = Hears("nothing") /\ Disturbs(p)
  /\ dsShown' = [dsShown EXCEPT ![p] =
        [text |-> Shown(Byte, tl[p]), of |-> IF dsAttached THEN scratch ELSE NoChip]]
  /\ UNCHANGED <<dsOpen, dsMeasuring, scratch, temperature, dsAttached, dsReads, dsEvents>>

DsStep(p) == \/ WriteJump(p) \/ WriteConvert(p) \/ WorkInit(p)
             \/ WriteReadRam(p) \/ ReadLow(p) \/ ReadHigh(p)

\* The end of a conversion that one process has started may come between the two
\* bytes that another one reads.
ChipMeasured ==
  /\ dsMeasuring # Nobody /\ dsMeasuring' = Nobody
  /\ scratch' = IF dsAttached THEN temperature ELSE scratch
  /\ Disturbs(dsMeasuring)
  /\ UNCHANGED <<dsProcs, wire, temperature, dsAttached, dsReads, dsEvents>>

WeatherChanges ==
  /\ dsEvents < DsEvents /\ dsEvents' = dsEvents + 1
  /\ temperature' \in Temperatures \ {temperature}
  /\ UNCHANGED <<dsProcs, wire, dsMeasuring, scratch, dsAttached, disturbed, dsReads>>

\* The chip is taken off the wire, or put back: it then holds 85 degrees.
ChipPlugged ==
  /\ dsEvents < DsEvents /\ dsEvents' = dsEvents + 1
  /\ dsAttached' = ~dsAttached /\ wire' = WireIdle /\ scratch' = 1360
  /\ disturbed' = disturbed \cup Reading
  /\ UNCHANGED <<dsProcs, dsMeasuring, temperature, dsReads>>

-----------------------------------------------------------------------------
DsInit ==
  /\ dsOpen = {} /\ reader = [p \in Readers |-> "idle"]
  /\ wire = WireIdle /\ dsMeasuring = Nobody /\ scratch = 1360
  /\ temperature = 400 /\ dsAttached = TRUE
  /\ tl = [p \in Readers |-> 0]
  /\ dsShown = [p \in Readers |-> NotYet]
  /\ disturbed = {} /\ dsReads = 0 /\ dsEvents = 0

DsNext ==
  \/ \E p \in Readers : ds18b20_open(p) \/ ds18b20_close(p) \/ ds18b20_read(p) \/ DsStep(p)
  \/ ChipMeasured \/ WeatherChanges \/ ChipPlugged

\* The processes run, and the chip measures what it has begun to measure.
DsFairness == /\ \A p \in Readers : WF_dsVars(DsStep(p))
              /\ WF_dsVars(ChipMeasured)

DsSpec == DsInit /\ [][DsNext]_dsVars /\ DsFairness

-----------------------------------------------------------------------------
DsTypeOK ==
  /\ dsOpen \subseteq Readers
  /\ reader \in [Readers -> {"idle", "jump_to_convert", "convert", "wait",
                             "jump_to_read", "read_ram", "tl", "th"}]
  /\ wire \in [state : {"idle", "rom", "function", "sending"}, sent : 0..2]
  /\ dsMeasuring \in Readers \cup {Nobody} /\ dsAttached \in BOOLEAN
  /\ tl \in [Readers -> 0..255]
  /\ disturbed \subseteq Readers
  /\ dsReads \in 0..DsReads /\ dsEvents \in 0..DsEvents

Finished(p) == reader[p] = "idle" /\ dsShown[p] # NotYet /\ p \notin disturbed

\* A read that was left alone shows what the chip has measured; only below zero,
\* with a low byte of zero, 16 degrees are missing.  Without a chip it shows -0.0.
ShowsMeasured ==
  \A p \in Readers : Finished(p) =>
    LET raw == dsShown[p].of
        lost == IF raw < 0 /\ Word(raw) % 256 = 0 THEN 16 ELSE 0
    IN  dsShown[p].text = IF raw = NoChip
                          THEN [sign |-> "-", whole |-> 0, tenths |-> 0]
                          ELSE [Actual(raw) EXCEPT !.whole = @ - lost]

\* What the comments at the conversion say: one is carried into the high byte,
\* and the integer part is that of (TH*256+TL)/16.
CarriesAsCommented ==
  \A p \in Readers : Finished(p) /\ dsShown[p].of # NoChip =>
    dsShown[p].text = Actual(dsShown[p].of)

\* Every read ends, whatever the others and the chip do.
ReadsEnd == \A p \in Readers : reader[p] # "idle" ~> reader[p] = "idle"
=============================================================================
