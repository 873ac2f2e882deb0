------------------------------- MODULE Am2305 -------------------------------
(***************************************************************************)
(* The driver am2305.c of a humidity and temperature sensor on one wire,   *)
(* and the pacing of its test program.  Whoever reads the sensor follows   *)
(* its pulses in loops without a bound.  The sensor is external: it takes  *)
(* a new measurement when it is asked and answers with the last one.       *)
(***************************************************************************)
EXTENDS Naturals, FiniteSets

CONSTANTS AmUsers,      \* processes
          AmCalls,      \* bound on calls of open and read
          AmTroubles    \* bound on interrupts that delay, and on sensor failures

ASSUME Am2305Assumption == AmCalls \in Nat /\ AmTroubles \in Nat

Bytes == 5
Silent == 0

VARIABLES amOpen,       \* processes that have the device open
          amReader,     \* the byte each process reads next; 0 if it is not reading
          given,        \* the byte the sensor gives next; 0 if it is silent
          amValue,      \* the measurement it gives
          measured,     \* the measurement it has taken
          clock,        \* the value it would measure, a number that goes up
          rested,       \* two seconds have passed since it was last asked
          alive,        \* it has not failed
          got,          \* the measurement each byte read is of; 0 if unknown
          slipped,      \* processes delayed while reading, or disturbed by another
          amResult,     \* what the last call of each process returned
          amCalls, amTroubles

amProcs  == <<amOpen, amReader, got, amResult>>
amSensor == <<given, amValue, measured, clock, rested, alive>>
amVars   == <<amProcs, amSensor, slipped, amCalls, amTroubles>>

AmReading == {p \in AmUsers : amReader[p] # 0}
Unknown == 0

\* am2305_find_success: the wire is pulled, and the sensor, if it has rested,
\* begins to give its last measurement and takes a new one.
Ask == IF alive /\ rested
       THEN /\ given' = 1 /\ amValue' = measured /\ measured' = clock
            /\ rested' = FALSE
            /\ UNCHANGED <<clock, alive>>
       ELSE /\ given' = Silent /\ rested' = FALSE
            /\ UNCHANGED <<amValue, measured, clock, alive>>
Answers == alive /\ rested

am2305_open(p) ==
  /\ p \notin amOpen /\ amCalls < AmCalls /\ amCalls' = amCalls + 1
  /\ Ask
  /\ amOpen' = IF Answers THEN amOpen \cup {p} ELSE amOpen
  /\ amResult' = [amResult EXCEPT ![p] = IF Answers THEN "opened" ELSE "error"]
  /\ slipped' = slipped \cup AmReading
  /\ UNCHANGED <<amReader, got, amTroubles>>

am2305_close(p) ==
  /\ p \in amOpen /\ amReader[p] = 0
  /\ amOpen' = amOpen \ {p}
  /\ amResult' = [amResult EXCEPT ![p] = "none"]
  /\ got' = [got EXCEPT ![p] = [i \in 1..Bytes |-> Unknown]]
  /\ UNCHANGED <<amReader, amSensor, slipped, amCalls, amTroubles>>

\* am2305_read up to the loop over the bytes.
am2305_read(p) ==
  /\ p \in amOpen /\ amReader[p] = 0
  /\ amCalls < AmCalls /\ amCalls' = amCalls + 1
  /\ Ask
  /\ IF Answers
     THEN /\ amReader' = [amReader EXCEPT ![p] = 1]
          /\ amResult' = [amResult EXCEPT ![p] = "none"]
     ELSE /\ amResult' = [amResult EXCEPT ![p] = "error"]
          /\ UNCHANGED amReader
  /\ got' = [got EXCEPT ![p] = [i \in 1..Bytes |-> Unknown]]
  /\ slipped' = (slipped \ {p}) \cup AmReading
  /\ UNCHANGED <<amOpen, amTroubles>>

\* Mutation of read_SensorData: the edge that ends a byte is not awaited.
EdgeMissed(p) ==
  /\ amReader[p] \in 1..Bytes /\ alive /\ given # Silent
  /\ got' = [got EXCEPT ![p][amReader[p]] = IF amReader[p] = given THEN amValue ELSE Unknown]
  /\ given' = IF given = Bytes THEN Silent ELSE given
  /\ amReader' = [amReader EXCEPT ![p] = IF @ = Bytes THEN 0 ELSE @ + 1]
  /\ amResult' = [amResult EXCEPT ![p] = IF amReader[p] = Bytes THEN "data" ELSE @]
  /\ slipped' = slipped \cup (AmReading \ {p})
  /\ UNCHANGED <<amOpen, amValue, measured, clock, rested, alive, amCalls, amTroubles>>

\* One byte, and after the last one copy_to_user.  The loops wait for the
\* sensor's edges: without one they turn for ever, and there is no such step.
read_SensorData(p) ==
  /\ amReader[p] \in 1..Bytes /\ alive /\ given # Silent
  /\ got' = [got EXCEPT ![p][amReader[p]] =
               IF amReader[p] = given /\ p \notin slipped THEN amValue ELSE Unknown]
  /\ given' = IF given = Bytes THEN Silent ELSE given + 1
  /\ amReader' = [amReader EXCEPT ![p] = IF @ = Bytes THEN 0 ELSE @ + 1]
  /\ amResult' = [amResult EXCEPT ![p] = IF amReader[p] = Bytes THEN "data" ELSE @]
  /\ slipped' = slipped \cup (AmReading \ {p})
  /\ UNCHANGED <<amOpen, amValue, measured, clock, rested, alive, amCalls, amTroubles>>

-----------------------------------------------------------------------------
(* The sensor and the rest of the system.                                  *)

\* The sensor gives its bytes whether anybody reads them or not.
GivesUnread ==
  /\ given # Silent /\ AmReading = {}
  /\ given' = Silent
  /\ UNCHANGED <<amProcs, amValue, measured, clock, rested, alive, slipped, amCalls, amTroubles>>

\* An interrupt, or another process, takes the CPU from whoever is reading: the
\* sensor goes on, and a byte of it is lost to all of them.
Delayed ==
  /\ AmReading # {} /\ given # Silent
  /\ amTroubles < AmTroubles /\ amTroubles' = amTroubles + 1
  /\ slipped' = slipped \cup AmReading
  /\ given' = IF given = Bytes THEN Silent ELSE given + 1
  /\ UNCHANGED <<amProcs, amValue, measured, clock, rested, alive, amCalls>>

SensorFails ==
  /\ alive /\ amTroubles < AmTroubles /\ amTroubles' = amTroubles + 1
  /\ alive' = FALSE /\ given' = Silent
  /\ UNCHANGED <<amProcs, amValue, measured, clock, rested, slipped, amCalls>>

\* Long enough that the next answer is a new measurement and nobody asks.  The test
\* program sleeps two seconds before its first read and, between reads, one second
\* and as long as its user takes; nothing in the driver makes anybody wait, so the
\* step may as well not come.
Rests ==
  /\ ~rested /\ given = Silent /\ alive
  /\ rested' = TRUE /\ clock' = clock + 1
  /\ UNCHANGED <<amProcs, given, amValue, measured, alive, slipped, amCalls, amTroubles>>

-----------------------------------------------------------------------------
AmInit ==
  /\ amOpen = {} /\ amReader = [p \in AmUsers |-> 0]
  /\ given = Silent /\ amValue = 1 /\ measured = 1 /\ clock = 2
  /\ rested = TRUE /\ alive = TRUE
  /\ got = [p \in AmUsers |-> [i \in 1..Bytes |-> Unknown]]
  /\ slipped = {} /\ amResult = [p \in AmUsers |-> "none"]
  /\ amCalls = 0 /\ amTroubles = 0

AmNext ==
  \/ \E p \in AmUsers : \/ am2305_open(p) \/ am2305_close(p) \/ am2305_read(p)
                        \/ read_SensorData(p)
  \/ GivesUnread \/ Delayed \/ SensorFails \/ Rests

\* The sensor goes on with what it has begun, and a reader follows it.
AmFairness == \A p \in AmUsers : WF_amVars(read_SensorData(p))

-----------------------------------------------------------------------------
AmTypeOK ==
  /\ amOpen \subseteq AmUsers /\ amReader \in [AmUsers -> 0..Bytes]
  /\ given \in 0..Bytes /\ measured <= clock /\ amValue <= measured
  /\ rested \in BOOLEAN /\ alive \in BOOLEAN
  /\ slipped \subseteq AmUsers
  /\ amResult \in [AmUsers -> {"none", "opened", "error", "data"}]
  /\ amCalls \in 0..AmCalls /\ amTroubles \in 0..AmTroubles

\* A read that nothing delayed and no other process disturbed returns five bytes
\* of one measurement; nothing checks their sum, and the one after a delay may
\* return anything.
OneMeasurement ==
  \A p \in AmUsers : amResult[p] = "data" /\ p \notin slipped =>
    \E v \in 1..clock : \A i \in 1..Bytes : got[p][i] = v

\* Nobody is left in the loops for ever without a delay, another process on
\* the wire or a sensor that stopped.
LeavesLoops ==
  \A p \in AmUsers : amReader[p] # 0 ~> amReader[p] = 0 \/ p \in slipped \/ ~alive
=============================================================================
