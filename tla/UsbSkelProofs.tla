--------------------------- MODULE UsbSkelProofs ----------------------------
(***************************************************************************)
(* For any number of processes, slots and faults and any size of the       *)
(* buffer: the safety properties of the USB skeleton driver.               *)
(*                                                                         *)
(* Five facts carry the others: io_mutex is held exactly by who is between *)
(* its lock and its unlock (Mutex), the slots of limit_sem and the         *)
(* references to the device are counted (Slots, References), a reader past *)
(* its wait finds no read in flight (ReadIdle), and each fault is known    *)
(* before a locked call returns it (ReportsKnown).  Noticed adds what can   *)
(* be in dev->errors when a call is about to clear it.                     *)
(***************************************************************************)
EXTENDS UsbSkel, FiniteSetTheorems, TLAPS

Pcs == IdlePc \cup WritePc \cup ReadPc \cup ClosePc
Reported == [error : Error, call : {"read", "write", "flush"}, nth : Nat]

FileTypes == pc \in [Procs -> Pcs] /\ rv \in [Procs -> Error]
             /\ count \in [Procs -> 0..BulkSize]
LockTypes == /\ limit_sem \in Nat /\ io_mutex \in Procs \cup {Core, Nobody}
             /\ err_lock \in Procs \cup {Nobody}
ReadTypes == /\ bulk_in_filled \in 0..BulkSize /\ bulk_in_copied \in 0..BulkSize
             /\ reading \in 0..BulkSize
CountTypes == kref \in Nat /\ writes \in Nat /\ faults \in 0..MaxFaults
FlagTypes == /\ ongoing_read \in BOOLEAN /\ disconnected \in BOOLEAN /\ freed \in BOOLEAN
             /\ intfdata \in BOOLEAN /\ unlinkWrites \in BOOLEAN /\ unlinkRead \in BOOLEAN
             /\ gone \in BOOLEAN /\ unlinkReported \in BOOLEAN
ReportTypes == reports \subseteq Reported /\ IsFiniteSet(reports)

Types == /\ FileTypes /\ cpc \in CorePc /\ LockTypes /\ errors \in Error /\ ReadTypes
         /\ CountTypes /\ FlagTypes /\ ReportTypes

\* Between mutex_lock(&dev->io_mutex) and its unlock.
Inside == {"w_check", "w_submit", "r_check", "r_retry", "r_wait", "r_errors", "r_clear",
           "r_data", "r_unlock", "f_writes", "f_read", "f_errors"}
CoreInside == {"p_writes", "p_read", "post_reset", "d_unlock"}

Mutex == /\ \A p \in Procs : pc[p] \in Inside <=> io_mutex = p
         /\ cpc \in CoreInside <=> io_mutex = Core

ErrLock == \A p \in Procs : pc[p] = "w_clear" <=> err_lock = p

\* Disconnecting finds nobody past the check, and later nobody passes it.
PastCheck == {"w_submit", "r_retry", "r_wait", "r_errors", "r_clear", "r_data"}
NoneSubmits == disconnected => \A p \in Procs : pc[p] \notin PastCheck

PastWait == {"r_errors", "r_clear", "r_data"}
ReadIdle == /\ ~ongoing_read => reading = 0
            /\ \A p \in Procs : pc[p] \in PastWait => ~ongoing_read

Resetting == {"p_lock", "p_writes", "p_read", "post_reset"}
Quiet == /\ cpc \in {"p_read", "post_reset"} => writes = 0
         /\ cpc = "post_reset" => reading = 0
         /\ cpc \in Resetting => faults > 0

Unplugged == {"d_shutdown", "d_deregister", "d_lock", "d_unlock", "d_kill", "d_put",
              "unbound"}
Withdrawn == Unplugged \ {"d_shutdown"}
Deregistered == Withdrawn \ {"d_deregister"}
Killed == {"d_put", "unbound"}
Unplugging ==
  /\ cpc \in Unplugged => gone
  /\ cpc \in Withdrawn => ~intfdata
  /\ cpc \in Deregistered => \A p \in Procs : pc[p] # "opening"
  /\ cpc \in Killed => writes = 0 /\ reading = 0

Holders == {p \in Procs : HoldsSlot(p)}
Slots == limit_sem + writes + Cardinality(Holders) = WRITES_IN_FLIGHT

\* Who has a reference to the device.
Files == {p \in Procs : pc[p] \notin {"closed", "opening"}}
CoreRef == IF cpc = "unbound" THEN 0 ELSE 1
References == kref = CoreRef + Cardinality(Files) /\ (freed => kref = 0)

\* An error that occurred by now: fault e.id has happened, and a reset has
\* written it when the one under way is a later one.
KnownAt(e, c, n) == /\ e.kind = "fault" => e.id <= n
                    /\ e.kind = "reset" => e.id <= n /\ (c \in Resetting => e.id < n)
Known(e) == KnownAt(e, cpc, faults)

\* What the calls returned that read dev->errors under err_lock.
Locked == {r \in reports : r.call # "read"}

\* No such call returned this error.
Fresh(e) == Known(e) /\ \A r \in Locked : r.error # e

ReportsKnown ==
  /\ Fresh(NoError) /\ Fresh(Unlinked) /\ Fresh(errors)
  /\ \A p \in Procs : pc[p] = "w_clear" => Fresh(rv[p])
  /\ \A r \in Locked : Known(r.error)
  /\ \A r, s \in Locked : r.error = s.error => r = s

IInv == /\ Types /\ Mutex /\ ErrLock /\ NoneSubmits /\ ReadIdle /\ Quiet /\ Unplugging
        /\ Slots /\ References /\ ReportsKnown

-----------------------------------------------------------------------------
(* Facts about the parts of the invariant.                                 *)

\* Counted sets of processes are finite, and a member makes them count.
LEMMA ProcsCounted ==
  ASSUME NEW S \in SUBSET Procs
  PROVE  /\ IsFiniteSet(S) /\ Cardinality(S) \in Nat
         /\ \A p \in S : Cardinality(S) > 0 /\ Cardinality(S \ {p}) = Cardinality(S) - 1
         /\ \A p \in Procs \ S : Cardinality(S \cup {p}) = Cardinality(S) + 1
<1>1. IsFiniteSet(S)
  BY UsbAssumption, FS_Subset
<1>2. Cardinality(S) \in Nat
  BY <1>1, FS_CardinalityType
<1>3. ASSUME NEW p \in S
      PROVE  Cardinality(S) > 0 /\ Cardinality(S \ {p}) = Cardinality(S) - 1
  <2>1. Cardinality(S \ {p}) = Cardinality(S) - 1
    BY <1>1, FS_RemoveElement
  <2>2. Cardinality(S) # 0
    BY <1>1, FS_EmptySet
  <2> QED
    BY <1>2, <2>1, <2>2
<1>4. ASSUME NEW p \in Procs \ S
      PROVE  Cardinality(S \cup {p}) = Cardinality(S) + 1
  BY <1>1, FS_AddElement
<1> QED
  BY <1>1, <1>2, <1>3, <1>4

\* An open file is a reference.
LEMMA FileRefers ==
  ASSUME Types, References, NEW p \in Procs, pc[p] \notin {"closed", "opening"}
  PROVE  kref > 0 /\ ~freed
<1>1. p \in Files
  BY DEF Files
<1>2. Files \in SUBSET Procs
  BY DEF Files
<1>3. Cardinality(Files) \in Nat /\ Cardinality(Files) > 0
  BY <1>1, <1>2, ProcsCounted
<1> QED
  BY <1>3 DEF Types, CountTypes, References, CoreRef

\* What a call reports has the type of a report.
LEMMA ReportTyped ==
  ASSUME ReportTypes, NEW call \in {"read", "write", "flush"}, NEW e \in Error, Report(call, e)
  PROVE  ReportTypes' /\ (unlinkReported \in BOOLEAN => unlinkReported' \in BOOLEAN)
<1>1. CASE e = Unlinked
  BY <1>1 DEF ReportTypes, Report
<1>2. CASE e # Unlinked
  <2> DEFINE before == {r \in reports : r.error = e /\ r.call = call}
             report == [error |-> e, call |-> call, nth |-> Cardinality(before) + 1]
  <2>1. reports' = reports \cup {report} /\ unlinkReported' = unlinkReported
    BY <1>2 DEF Report
  <2>2. IsFiniteSet(before)
    BY FS_Subset DEF ReportTypes
  <2>3. Cardinality(before) \in Nat
    BY <2>2, FS_CardinalityType
  <2> HIDE DEF before
  <2>4. report \in Reported
    BY <2>3 DEF Reported
  <2> HIDE DEF report
  <2>5. IsFiniteSet(reports \cup {report})
    BY FS_AddElement DEF ReportTypes
  <2> QED
    BY <2>1, <2>4, <2>5 DEF ReportTypes
<1> QED
  BY <1>1, <1>2

LEMMA ErrorsTyped ==
  /\ NoError \in Error /\ Unlinked \in Error
  /\ \A n \in 1..MaxFaults : /\ [kind |-> "fault", id |-> n] \in Error
                             /\ [kind |-> "reset", id |-> n] \in Error
BY DEF Error

-----------------------------------------------------------------------------
(* Types.                                                                  *)

LEMMA TypesInitially == Init => Types
<1> SUFFICES ASSUME Init PROVE Types
  OBVIOUS
<1> USE UsbAssumption, ErrorsTyped DEF Init
<1>1. FileTypes /\ cpc \in CorePc
  BY DEF FileTypes, Pcs, IdlePc, CorePc
<1>2. LockTypes /\ errors \in Error
  BY DEF LockTypes
<1>3. ReadTypes /\ CountTypes
  BY DEF ReadTypes, CountTypes
<1>4. FlagTypes
  BY DEF FlagTypes
<1>5. ReportTypes
  BY FS_EmptySet DEF ReportTypes
<1> QED
  BY <1>1, <1>2, <1>3, <1>4, <1>5 DEF Types

LEMMA ProcessKeepsTypes ==
  ASSUME Types, References, NEW p \in Procs, Choose(p) \/ Proceed(p)
  PROVE  Types'
<1> USE UsbAssumption, ErrorsTyped DEF Types, At, Go, fileVars, lockVars, readVars, lifeVars,
    urbVars, histVars
<1>1. CASE Choose(p)
  <2>1. FileTypes'
    BY <1>1 DEF FileTypes, Pcs, IdlePc, WritePc, ReadPc, ClosePc, Choose, Open,
       OpenFails, StartWrite, WriteGivesUp, StartRead, ReadGivesUp, ReadInterrupted,
       StartClose
  <2> QED
    BY <1>1, <2>1 DEF LockTypes, ReadTypes, CountTypes, FlagTypes, ReportTypes, Choose,
       Open, OpenFails, StartWrite, WriteGivesUp, StartRead, ReadGivesUp,
       ReadInterrupted, StartClose
<1>2. CASE OpenGet(p)
  <2>1. FileTypes'
    BY <1>2 DEF FileTypes, Pcs, IdlePc, OpenGet
  <2> QED
    BY <1>2, <2>1 DEF LockTypes, ReadTypes, CountTypes, FlagTypes, ReportTypes, OpenGet
<1>3. CASE WriteDown(p) \/ WriteErrors(p) \/ WriteLock(p) \/ WriteCheck(p)
           \/ WriteSubmit(p) \/ WriteUp(p)
  <2>1. FileTypes'
    BY <1>3 DEF FileTypes, Pcs, IdlePc, WritePc, WriteDown, WriteErrors, WriteLock,
       WriteCheck, WriteSubmit, WriteUp
  <2>2. LockTypes'
    BY <1>3 DEF LockTypes, WriteDown, WriteErrors, WriteLock, WriteCheck, WriteSubmit,
       WriteUp
  <2>3. CountTypes'
    BY <1>3 DEF CountTypes, WriteDown, WriteErrors, WriteLock, WriteCheck, WriteSubmit,
       WriteUp
  <2> QED
    BY <1>3, <2>1, <2>2, <2>3 DEF ReadTypes, FlagTypes, ReportTypes, WriteDown,
       WriteErrors, WriteLock, WriteCheck, WriteSubmit, WriteUp
<1>4. CASE WriteClear(p)
  <2>1. FileTypes'
    BY <1>4 DEF FileTypes, Pcs, WritePc, WriteClear
  <2>2. ReportTypes' /\ unlinkReported' \in BOOLEAN
    BY <1>4, ReportTyped DEF WriteClear, FileTypes, ReportTypes, FlagTypes
  <2>3. LockTypes' /\ errors' \in Error
    BY <1>4 DEF LockTypes, WriteClear
  <2> QED
    BY <1>4, <2>1, <2>2, <2>3 DEF ReadTypes, CountTypes, FlagTypes, ReportTypes,
       WriteClear
<1>5. CASE ReadLock(p) \/ ReadCheck(p) \/ ReadRetry(p) \/ ReadWait(p) \/ ReadErrors(p)
           \/ ReadUnlock(p)
  <2>1. FileTypes'
    BY <1>5 DEF FileTypes, Pcs, IdlePc, ReadPc, ReadLock, ReadCheck, ReadRetry,
       ReadWait, ReadErrors, ReadUnlock
  <2> QED
    BY <1>5, <2>1 DEF LockTypes, ReadTypes, CountTypes, FlagTypes, ReportTypes,
       ReadLock, ReadCheck, ReadRetry, ReadWait, ReadErrors, ReadUnlock
<1>6. CASE ReadClear(p)
  <2>1. FileTypes'
    BY <1>6 DEF FileTypes, Pcs, ReadPc, ReadClear
  <2>2. ReportTypes' /\ unlinkReported' \in BOOLEAN
    BY <1>6, ReportTyped DEF ReadClear, FileTypes, FlagTypes
  <2> QED
    BY <1>6, <2>1, <2>2 DEF LockTypes, ReadTypes, CountTypes, FlagTypes, ReportTypes,
       ReadClear
<1>7. CASE ReadStartIo(p)
  <2>1. FileTypes'
    BY <1>7 DEF FileTypes, Pcs, ReadPc, ReadStartIo
  <2>2. reading' \in 0..BulkSize
    BY <1>7 DEF ReadTypes, FileTypes, ReadStartIo, ReadIoSucceeds, ReadIoFails, Smaller
  <2>3. ReadTypes'
    BY <1>7, <2>2 DEF ReadTypes, ReadIoSucceeds, ReadIoFails, ReadStartIo
  <2>4. FlagTypes'
    BY <1>7 DEF FlagTypes, ReadIoSucceeds, ReadIoFails, ReadStartIo
  <2> QED
    BY <1>7, <2>1, <2>2, <2>3, <2>4 DEF LockTypes, CountTypes, ReportTypes, ReadStartIo
<1>8. CASE ReadCopy(p)
  <2>1. FileTypes'
    BY <1>8 DEF FileTypes, Pcs, ReadPc, ReadCopy
  <2>2. count[p] \in 0..BulkSize
    BY DEF FileTypes
  <2>3. reading' \in 0..BulkSize
    BY <1>8, <2>2 DEF ReadTypes, ReadCopy, ReadIoSucceeds, ReadIoFails, available, Smaller
  <2>4. bulk_in_filled' \in 0..BulkSize /\ bulk_in_copied' \in 0..BulkSize
    BY <1>8, <2>2 DEF ReadTypes, ReadCopy, ReadIoSucceeds, ReadIoFails, available
  <2>5. FlagTypes'
    BY <1>8 DEF FlagTypes, ReadIoSucceeds, ReadIoFails, ReadCopy
  <2> QED
    BY <1>8, <2>1, <2>2, <2>3, <2>4, <2>5 DEF LockTypes, ReadTypes, CountTypes,
       ReportTypes, ReadCopy
<1>9. CASE FlushLock(p) \/ FlushDraw(p)
  <2>1. FileTypes'
    BY <1>9 DEF FileTypes, Pcs, ClosePc, FlushLock, FlushDraw, DrawWrites, DrawRead
  <2> QED
    BY <1>9, <2>1, ZenonT(30) DEF LockTypes, ReadTypes, CountTypes, FlagTypes, ReportTypes,
       FlushLock, FlushDraw, DrawWrites, DrawRead
<1>10. CASE FlushErrors(p)
  <2>1. FileTypes'
    BY <1>10 DEF FileTypes, Pcs, ClosePc, FlushErrors
  <2>2. ReportTypes' /\ unlinkReported' \in BOOLEAN
    BY <1>10, ReportTyped DEF FlushErrors, ReportTypes, FlagTypes
  <2> QED
    BY <1>10, <2>1, <2>2 DEF LockTypes, ReadTypes, CountTypes, FlagTypes, ReportTypes,
       FlushErrors
<1>11. CASE Release(p)
  <2>1. FileTypes'
    BY <1>11 DEF FileTypes, Pcs, IdlePc, Release
  <2>2. kref > 0
    BY <1>11, FileRefers DEF Release
  <2>3. CountTypes'
    BY <1>11, <2>2 DEF CountTypes, KrefPut, Release
  <2>4. FlagTypes'
    BY <1>11 DEF FlagTypes, KrefPut, Release
  <2> QED
    BY <1>11, <2>1, <2>2, <2>3, <2>4 DEF LockTypes, ReadTypes, ReportTypes, Release
<1> QED
  BY <1>1, <1>2, <1>3, <1>4, <1>5, <1>6, <1>7, <1>8, <1>9, <1>10, <1>11 DEF Proceed

LEMMA CoreKeepsTypes ==
  ASSUME Types, References, Quiet, CoreCall \/ CoreProceed \/ Callback
  PROVE  Types'
<1> USE UsbAssumption, ErrorsTyped DEF Types, CoreAt, fileVars, lockVars, readVars, lifeVars,
    urbVars, histVars
<1>1. CASE CoreCall
  <2>1. cpc' \in CorePc
    BY <1>1 DEF CoreCall, StartSuspend, StartReset, Unplug, CorePc
  <2>2. CountTypes'
    BY <1>1 DEF CountTypes, CoreCall, StartSuspend, StartReset, Unplug
  <2>3. FlagTypes'
    BY <1>1 DEF FlagTypes, CoreCall, StartSuspend, StartReset, Unplug
  <2> QED
    BY <1>1, <2>1, <2>2, <2>3 DEF FileTypes, LockTypes, ReadTypes, ReportTypes,
       CoreCall, StartSuspend, StartReset, Unplug
<1>2. CASE PreResetLock \/ CoreDraw
  <2>1. cpc' \in CorePc
    BY <1>2 DEF PreResetLock, CoreDraw, CorePc
  <2>2. LockTypes'
    BY <1>2 DEF LockTypes, PreResetLock, CoreDraw, DrawWrites, DrawRead
  <2>3. FlagTypes'
    BY <1>2 DEF FlagTypes, PreResetLock, CoreDraw, DrawWrites, DrawRead
  <2> QED
    BY <1>2, <2>1, <2>2, <2>3 DEF FileTypes, ReadTypes, CountTypes, ReportTypes,
       PreResetLock, CoreDraw, DrawWrites, DrawRead
<1>3. CASE PostReset
  <2>1. cpc' \in CorePc
    BY <1>3 DEF PostReset, CorePc
  <2>2. faults \in 1..MaxFaults
    BY <1>3 DEF PostReset, Quiet, Resetting, CountTypes
  <2>3. errors' \in Error
    BY <1>3, <2>2 DEF PostReset
  <2> QED
    BY <1>3, <2>1, <2>2, <2>3 DEF FileTypes, LockTypes, ReadTypes, CountTypes,
       FlagTypes, ReportTypes, PostReset
<1>4. CASE DisconnectIntfdata \/ DisconnectDeregister \/ DisconnectLock \/ DisconnectUnlock
           \/ DisconnectKill
  <2>1. cpc' \in CorePc
    BY <1>4 DEF DisconnectIntfdata, DisconnectDeregister, DisconnectLock,
       DisconnectUnlock, DisconnectKill, CorePc
  <2>2. LockTypes'
    BY <1>4 DEF LockTypes, DisconnectIntfdata, DisconnectDeregister, DisconnectLock,
       DisconnectUnlock, DisconnectKill
  <2>3. FlagTypes'
    BY <1>4 DEF FlagTypes, DisconnectIntfdata, DisconnectDeregister, DisconnectLock,
       DisconnectUnlock, DisconnectKill
  <2> QED
    BY <1>4, <2>1, <2>2, <2>3 DEF FileTypes, ReadTypes, CountTypes, ReportTypes,
       DisconnectIntfdata, DisconnectDeregister, DisconnectLock, DisconnectUnlock,
       DisconnectKill
<1>5. CASE DisconnectPut
  <2>1. cpc' \in CorePc
    BY <1>5 DEF DisconnectPut, CorePc
  <2>2. kref > 0
    BY <1>5, ProcsCounted DEF DisconnectPut, References, CoreRef, Files
  <2>3. CountTypes'
    BY <1>5, <2>2 DEF CountTypes, KrefPut, DisconnectPut
  <2>4. FlagTypes'
    BY <1>5 DEF FlagTypes, KrefPut, DisconnectPut
  <2> QED
    BY <1>5, <2>1, <2>2, <2>3, <2>4 DEF FileTypes, LockTypes, ReadTypes, ReportTypes,
       DisconnectPut
<1>6. CASE WriteCallback
  <2>1. errors' \in Error /\ faults' \in 0..MaxFaults
    <3>1. CASE faults < MaxFaults /\ faults' = faults + 1
               /\ errors' = [kind |-> "fault", id |-> faults + 1]
      <4>1. faults \in Nat /\ faults < MaxFaults
        BY <3>1 DEF CountTypes
      <4>2. faults + 1 \in 1..MaxFaults
        BY <4>1
      <4>3. [kind |-> "fault", id |-> faults + 1] \in Error
        BY <4>2
      <4>4. faults' \in 0..MaxFaults
        BY <3>1, <4>2
      <4> QED
        BY <3>1, <4>3, <4>4
    <3>2. CASE faults' = faults /\ errors' \in {errors, Unlinked}
      BY <3>2 DEF CountTypes
    <3> QED
      BY <1>6, <3>1, <3>2 DEF WriteCallback
  <2>2. CountTypes'
    BY <1>6, <2>1 DEF CountTypes, WriteCallback
  <2>3. LockTypes'
    BY <1>6 DEF LockTypes, WriteCallback
  <2> QED
    BY <1>6, <2>1, <2>2, <2>3 DEF FileTypes, ReadTypes, FlagTypes, ReportTypes,
       WriteCallback
<1>7. CASE ReadCallback
  <2>1. errors' \in Error /\ faults' \in 0..MaxFaults
    <3>1. CASE faults < MaxFaults /\ faults' = faults + 1
               /\ errors' = [kind |-> "fault", id |-> faults + 1]
      <4>1. faults \in Nat /\ faults < MaxFaults
        BY <3>1 DEF CountTypes
      <4>2. faults + 1 \in 1..MaxFaults
        BY <4>1
      <4>3. [kind |-> "fault", id |-> faults + 1] \in Error
        BY <4>2
      <4>4. faults' \in 0..MaxFaults
        BY <3>1, <4>2
      <4> QED
        BY <3>1, <4>3, <4>4
    <3>2. CASE faults' = faults /\ errors' \in {errors, Unlinked}
      BY <3>2 DEF CountTypes
    <3> QED
      BY <1>7, <3>1, <3>2 DEF ReadCallback
  <2>2. CountTypes'
    BY <1>7, <2>1 DEF CountTypes, ReadCallback
  <2>3. ReadTypes'
    BY <1>7 DEF ReadTypes, ReadCallback
  <2>4. FlagTypes'
    BY <1>7 DEF FlagTypes, ReadCallback
  <2> QED
    BY <1>7, <2>1, <2>2, <2>3, <2>4 DEF FileTypes, LockTypes, ReportTypes, ReadCallback
<1> QED
  BY <1>1, <1>2, <1>3, <1>4, <1>5, <1>6, <1>7 DEF CoreProceed, Callback

-----------------------------------------------------------------------------
(* The locks.                                                              *)

\* A step of a process leaves the places of the others and of the core.
LEMMA OthersStay ==
  ASSUME FileTypes, NEW p \in Procs, Choose(p) \/ Proceed(p)
  PROVE  /\ \A q \in Procs : q # p => pc'[q] = pc[q]
         /\ cpc' = cpc
<1> USE DEF FileTypes, Go
<1>1. CASE Choose(p)
  BY <1>1 DEF Choose, Open, OpenFails, StartWrite, WriteGivesUp, StartRead, ReadGivesUp,
     ReadInterrupted, StartClose
<1>2. CASE OpenGet(p) \/ WriteDown(p) \/ WriteErrors(p) \/ WriteClear(p) \/ WriteLock(p)
           \/ WriteCheck(p) \/ WriteSubmit(p) \/ WriteUp(p)
  BY <1>2 DEF OpenGet, WriteDown, WriteErrors, WriteClear, WriteLock, WriteCheck, WriteSubmit,
     WriteUp
<1>3. CASE ReadLock(p) \/ ReadCheck(p) \/ ReadRetry(p) \/ ReadWait(p) \/ ReadErrors(p)
           \/ ReadClear(p) \/ ReadStartIo(p) \/ ReadCopy(p) \/ ReadUnlock(p)
  BY <1>3 DEF ReadLock, ReadCheck, ReadRetry, ReadWait, ReadErrors, ReadClear, ReadStartIo,
     ReadCopy, ReadUnlock
<1>4. CASE FlushLock(p) \/ FlushDraw(p) \/ FlushErrors(p) \/ Release(p)
  BY <1>4 DEF FlushLock, FlushDraw, FlushErrors, Release
<1> QED
  BY <1>1, <1>2, <1>3, <1>4 DEF Proceed

\* How a step of a process changes io_mutex.
LEMMA ProcessUsesMutex ==
  ASSUME FileTypes, NEW p \in Procs, Choose(p) \/ Proceed(p)
  PROVE  \/ pc[p] \notin Inside /\ pc'[p] \in Inside /\ io_mutex = Nobody /\ io_mutex' = p
         \/ pc[p] \in Inside /\ pc'[p] \notin Inside /\ io_mutex' = Nobody
         \/ pc[p] \in Inside /\ pc'[p] \in Inside /\ io_mutex' = io_mutex
         \/ pc[p] \notin Inside /\ pc'[p] \notin Inside /\ io_mutex' = io_mutex
<1> USE DEF FileTypes, Inside, At, Go, lockVars
<1>1. CASE Choose(p)
  BY <1>1 DEF Open, OpenFails, StartWrite, WriteGivesUp, StartRead, ReadGivesUp,
     ReadInterrupted, StartClose, Choose
<1>2. CASE OpenGet(p) \/ WriteDown(p) \/ WriteErrors(p) \/ WriteClear(p)
  BY <1>2 DEF OpenGet, WriteDown, WriteErrors, WriteClear
<1>3. CASE WriteLock(p) \/ WriteCheck(p) \/ WriteSubmit(p) \/ WriteUp(p)
  BY <1>3 DEF WriteLock, WriteCheck, WriteSubmit, WriteUp
<1>4. CASE ReadLock(p) \/ ReadCheck(p) \/ ReadRetry(p) \/ ReadWait(p)
  BY <1>4 DEF ReadLock, ReadCheck, ReadRetry, ReadWait
<1>5. CASE ReadErrors(p) \/ ReadClear(p) \/ ReadStartIo(p) \/ ReadCopy(p) \/ ReadUnlock(p)
  BY <1>5 DEF ReadErrors, ReadClear, ReadStartIo, ReadCopy, ReadUnlock
<1>6. CASE FlushLock(p) \/ FlushDraw(p)
  BY <1>6 DEF FlushLock, FlushDraw
<1>7. CASE FlushErrors(p) \/ Release(p)
  BY <1>7 DEF FlushErrors, Release
<1> QED
  BY <1>1, <1>2, <1>3, <1>4, <1>5, <1>6, <1>7 DEF Proceed

\* How a step of the core changes it.
LEMMA CoreUsesMutex ==
  ASSUME CoreCall \/ CoreProceed \/ Callback
  PROVE  \/ cpc' \in CoreInside /\ cpc \notin CoreInside /\ io_mutex = Nobody /\ io_mutex' = Core
         \/ cpc' \notin CoreInside /\ cpc \in CoreInside /\ io_mutex' = Nobody
         \/ (cpc' \in CoreInside <=> cpc \in CoreInside) /\ io_mutex' = io_mutex
<1> USE DEF CoreInside, CoreAt, lockVars
<1>1. CASE CoreCall
  BY <1>1 DEF CoreCall, StartSuspend, StartReset, Unplug
<1>2. CASE PreResetLock \/ CoreDraw
  BY <1>2 DEF PreResetLock, CoreDraw
<1>3. CASE PostReset \/ DisconnectIntfdata \/ DisconnectDeregister
  BY <1>3 DEF PostReset, DisconnectIntfdata, DisconnectDeregister
<1>4. CASE DisconnectLock \/ DisconnectUnlock
  BY <1>4 DEF DisconnectLock, DisconnectUnlock
<1>5. CASE DisconnectKill \/ DisconnectPut
  BY <1>5 DEF DisconnectKill, DisconnectPut
<1>6. CASE Callback
  BY <1>6 DEF Callback, WriteCallback, ReadCallback
<1> QED
  BY <1>1, <1>2, <1>3, <1>4, <1>5, <1>6 DEF CoreProceed

\* How a step of a process changes err_lock.
LEMMA ProcessUsesErrLock ==
  ASSUME FileTypes, NEW p \in Procs, Choose(p) \/ Proceed(p)
  PROVE  \/ pc[p] # "w_clear" /\ pc'[p] = "w_clear" /\ err_lock = Nobody /\ err_lock' = p
         \/ pc[p] = "w_clear" /\ pc'[p] # "w_clear" /\ err_lock' = Nobody
         \/ pc[p] # "w_clear" /\ pc'[p] # "w_clear" /\ err_lock' = err_lock
<1> USE DEF FileTypes, At, Go, lockVars
<1>1. CASE Choose(p)
  BY <1>1 DEF Open, OpenFails, StartWrite, WriteGivesUp, StartRead, ReadGivesUp,
     ReadInterrupted, StartClose, Choose
<1>2. CASE OpenGet(p) \/ WriteDown(p) \/ WriteErrors(p) \/ WriteClear(p)
  BY <1>2 DEF OpenGet, WriteDown, WriteErrors, WriteClear
<1>3. CASE WriteLock(p) \/ WriteCheck(p) \/ WriteSubmit(p) \/ WriteUp(p)
  BY <1>3 DEF WriteLock, WriteCheck, WriteSubmit, WriteUp
<1>4. CASE ReadLock(p) \/ ReadCheck(p) \/ ReadRetry(p) \/ ReadWait(p)
  BY <1>4 DEF ReadLock, ReadCheck, ReadRetry, ReadWait
<1>5. CASE ReadErrors(p) \/ ReadClear(p) \/ ReadStartIo(p) \/ ReadCopy(p) \/ ReadUnlock(p)
  BY <1>5 DEF ReadErrors, ReadClear, ReadStartIo, ReadCopy, ReadUnlock
<1>6. CASE FlushLock(p) \/ FlushDraw(p)
  BY <1>6 DEF FlushLock, FlushDraw
<1>7. CASE FlushErrors(p) \/ Release(p)
  BY <1>7 DEF FlushErrors, Release
<1> QED
  BY <1>1, <1>2, <1>3, <1>4, <1>5, <1>6, <1>7 DEF Proceed

LEMMA CoreKeepsPlaces ==
  ASSUME CoreCall \/ CoreProceed \/ Callback
  PROVE  pc' = pc /\ err_lock' = err_lock
BY DEF fileVars, lockVars, CoreCall, StartSuspend, StartReset, Unplug, CoreProceed,
   PreResetLock, CoreDraw, PostReset, DisconnectIntfdata, DisconnectDeregister,
   DisconnectLock, DisconnectUnlock, DisconnectKill, DisconnectPut, Callback,
   WriteCallback, ReadCallback

\* Whoever is inside a lock holds it, and the other way round.
LEMMA LocksKept ==
  ASSUME Types, Mutex, ErrLock, [Next]_vars
  PROVE  Mutex' /\ ErrLock'
<1> USE UsbAssumption DEF Types, LockTypes, Mutex, ErrLock
<1>1. ASSUME NEW p \in Procs, Choose(p) \/ Proceed(p)
      PROVE  Mutex' /\ ErrLock'
  <2>1. /\ \A q \in Procs : q # p => pc'[q] = pc[q]
        /\ cpc' = cpc
    BY <1>1, OthersStay
  <2>2. ErrLock'
    BY <1>1, <2>1, ProcessUsesErrLock
  <2>3. Mutex'
    BY <1>1, <2>1, ProcessUsesMutex
  <2> QED
    BY <2>2, <2>3
<1>2. CASE CoreCall \/ CoreProceed \/ Callback
  BY <1>2, CoreKeepsPlaces, CoreUsesMutex
<1>3. CASE UNCHANGED vars
  BY <1>3 DEF vars, fileVars, lockVars
<1> QED
  BY <1>1, <1>2, <1>3 DEF Next

-----------------------------------------------------------------------------
(* Submitting, and what keeps it out.                                      *)

\* Only a process at its submission puts a URB in flight, of a device that is
\* still there.
LEMMA ProcessSubmits ==
  ASSUME NEW p \in Procs, Choose(p) \/ Proceed(p)
  PROVE  /\ writes' = writes \/ (pc[p] = "w_submit" /\ ~gone)
         /\ reading' = reading \/ (pc[p] = "r_data" /\ ~gone)
<1> USE DEF At, readVars, urbVars
<1>1. CASE Choose(p)
  BY <1>1 DEF Open, OpenFails, StartWrite, WriteGivesUp, StartRead, ReadGivesUp,
     ReadInterrupted, StartClose, Choose
<1>2. CASE OpenGet(p) \/ WriteDown(p) \/ WriteErrors(p) \/ WriteClear(p)
  BY <1>2 DEF OpenGet, WriteDown, WriteErrors, WriteClear
<1>3. CASE WriteLock(p) \/ WriteCheck(p) \/ WriteSubmit(p) \/ WriteUp(p)
  BY <1>3 DEF WriteLock, WriteCheck, WriteSubmit, WriteUp
<1>4. CASE ReadLock(p) \/ ReadCheck(p) \/ ReadRetry(p) \/ ReadWait(p)
  BY <1>4 DEF ReadLock, ReadCheck, ReadRetry, ReadWait
<1>5. CASE ReadErrors(p) \/ ReadClear(p) \/ ReadStartIo(p) \/ ReadCopy(p) \/ ReadUnlock(p)
  BY <1>5 DEF ReadErrors, ReadClear, ReadStartIo, ReadCopy, ReadUnlock, ReadIoSucceeds,
     ReadIoFails
<1>6. CASE FlushLock(p) \/ FlushDraw(p)
  BY <1>6 DEF FlushLock, FlushDraw, DrawWrites, DrawRead
<1>7. CASE FlushErrors(p) \/ Release(p)
  BY <1>7 DEF FlushErrors, Release, KrefPut
<1> QED
  BY <1>1, <1>2, <1>3, <1>4, <1>5, <1>6, <1>7 DEF Proceed

\* The marks of an unplugged device are made by the core.
LEMMA ProcessKeepsMarks ==
  ASSUME NEW p \in Procs, Choose(p) \/ Proceed(p)
  PROVE  gone' = gone /\ intfdata' = intfdata /\ disconnected' = disconnected /\ faults' = faults
<1> USE DEF lifeVars, urbVars, histVars
<1>1. CASE Choose(p)
  BY <1>1 DEF Open, OpenFails, StartWrite, WriteGivesUp, StartRead, ReadGivesUp,
     ReadInterrupted, StartClose, Choose
<1>2. CASE OpenGet(p) \/ WriteDown(p) \/ WriteErrors(p) \/ WriteClear(p)
  BY <1>2 DEF OpenGet, WriteDown, WriteErrors, WriteClear
<1>3. CASE WriteLock(p) \/ WriteCheck(p) \/ WriteSubmit(p) \/ WriteUp(p)
  BY <1>3 DEF WriteLock, WriteCheck, WriteSubmit, WriteUp
<1>4. CASE ReadLock(p) \/ ReadCheck(p) \/ ReadRetry(p) \/ ReadWait(p)
  BY <1>4 DEF ReadLock, ReadCheck, ReadRetry, ReadWait
<1>5. CASE ReadErrors(p) \/ ReadClear(p) \/ ReadStartIo(p) \/ ReadCopy(p) \/ ReadUnlock(p)
  BY <1>5 DEF ReadErrors, ReadClear, ReadStartIo, ReadCopy, ReadUnlock, ReadIoSucceeds,
     ReadIoFails
<1>6. CASE FlushLock(p) \/ FlushDraw(p)
  BY <1>6 DEF FlushLock, FlushDraw, DrawWrites, DrawRead
<1>7. CASE FlushErrors(p) \/ Release(p)
  BY <1>7 DEF FlushErrors, Release, KrefPut
<1> QED
  BY <1>1, <1>2, <1>3, <1>4, <1>5, <1>6, <1>7 DEF Proceed

\* Getting past a check is seeing that the device is there, that no read is in
\* flight, that the interface leads to the device.
LEMMA ProcessPasses ==
  ASSUME FileTypes, NEW p \in Procs, Choose(p) \/ Proceed(p)
  PROVE  /\ pc'[p] \in PastCheck => pc[p] \in PastCheck \/ ~disconnected
         /\ pc'[p] = "opening" => intfdata
<1> USE DEF FileTypes, PastCheck, At, Go
<1>1. CASE Choose(p)
  BY <1>1 DEF Open, OpenFails, StartWrite, WriteGivesUp, StartRead, ReadGivesUp,
     ReadInterrupted, StartClose, Choose
<1>2. CASE OpenGet(p) \/ WriteDown(p) \/ WriteErrors(p) \/ WriteClear(p)
  BY <1>2 DEF OpenGet, WriteDown, WriteErrors, WriteClear
<1>3. CASE WriteLock(p) \/ WriteCheck(p) \/ WriteSubmit(p) \/ WriteUp(p)
  BY <1>3 DEF WriteLock, WriteCheck, WriteSubmit, WriteUp
<1>4. CASE ReadLock(p) \/ ReadCheck(p) \/ ReadRetry(p) \/ ReadWait(p)
  BY <1>4 DEF ReadLock, ReadCheck, ReadRetry, ReadWait
<1>5. CASE ReadErrors(p) \/ ReadClear(p) \/ ReadStartIo(p) \/ ReadCopy(p) \/ ReadUnlock(p)
  BY <1>5 DEF ReadErrors, ReadClear, ReadStartIo, ReadCopy, ReadUnlock
<1>6. CASE FlushLock(p) \/ FlushDraw(p)
  BY <1>6 DEF FlushLock, FlushDraw
<1>7. CASE FlushErrors(p) \/ Release(p)
  BY <1>7 DEF FlushErrors, Release
<1> QED
  BY <1>1, <1>2, <1>3, <1>4, <1>5, <1>6, <1>7 DEF Proceed

\* A reader past its wait saw no read in flight, and only such a reader starts
\* one, and leaves.
LEMMA ProcessReads ==
  ASSUME FileTypes, NEW p \in Procs, Choose(p) \/ Proceed(p)
  PROVE  \/ /\ ongoing_read' = ongoing_read /\ reading' = reading
            /\ pc'[p] \in PastWait => pc[p] \in PastWait \/ ~ongoing_read
         \/ /\ pc[p] = "r_data" /\ pc'[p] \notin PastWait
            /\ ongoing_read' = TRUE \/ reading' = reading
<1> USE DEF FileTypes, PastWait, At, Go, readVars, urbVars
<1>1. CASE Choose(p)
  BY <1>1 DEF Open, OpenFails, StartWrite, WriteGivesUp, StartRead, ReadGivesUp,
     ReadInterrupted, StartClose, Choose
<1>2. CASE OpenGet(p) \/ WriteDown(p) \/ WriteErrors(p) \/ WriteClear(p)
  BY <1>2 DEF OpenGet, WriteDown, WriteErrors, WriteClear
<1>3. CASE WriteLock(p) \/ WriteCheck(p) \/ WriteSubmit(p) \/ WriteUp(p)
  BY <1>3 DEF WriteLock, WriteCheck, WriteSubmit, WriteUp
<1>4. CASE ReadLock(p) \/ ReadCheck(p) \/ ReadRetry(p) \/ ReadWait(p)
  BY <1>4 DEF ReadLock, ReadCheck, ReadRetry, ReadWait
<1>5. CASE ReadErrors(p) \/ ReadClear(p) \/ ReadStartIo(p) \/ ReadCopy(p) \/ ReadUnlock(p)
  BY <1>5 DEF ReadErrors, ReadClear, ReadStartIo, ReadCopy, ReadUnlock, ReadIoSucceeds,
     ReadIoFails
<1>6. CASE FlushLock(p) \/ FlushDraw(p)
  BY <1>6 DEF FlushLock, FlushDraw, DrawWrites, DrawRead
<1>7. CASE FlushErrors(p) \/ Release(p)
  BY <1>7 DEF FlushErrors, Release, KrefPut
<1> QED
  BY <1>1, <1>2, <1>3, <1>4, <1>5, <1>6, <1>7 DEF Proceed

\* The core sets the flag when it holds io_mutex.
LEMMA CoreMarks ==
  ASSUME CoreCall \/ CoreProceed \/ Callback
  PROVE  disconnected' = disconnected \/ io_mutex = Nobody
<1> USE DEF lifeVars
<1>1. CASE CoreCall
  BY <1>1 DEF CoreCall, StartSuspend, StartReset, Unplug
<1>2. CASE PreResetLock \/ CoreDraw
  BY <1>2 DEF PreResetLock, CoreDraw
<1>3. CASE PostReset \/ DisconnectIntfdata \/ DisconnectDeregister
  BY <1>3 DEF PostReset, DisconnectIntfdata, DisconnectDeregister
<1>4. CASE DisconnectLock \/ DisconnectUnlock
  BY <1>4 DEF DisconnectLock, DisconnectUnlock
<1>5. CASE DisconnectKill \/ DisconnectPut
  BY <1>5 DEF DisconnectKill, DisconnectPut
<1>6. CASE Callback
  BY <1>6 DEF Callback, WriteCallback, ReadCallback
<1> QED
  BY <1>1, <1>2, <1>3, <1>4, <1>5, <1>6 DEF CoreProceed

\* The callback of the read gives the URB back.
LEMMA CoreReads ==
  ASSUME CoreCall \/ CoreProceed \/ Callback
  PROVE  \/ ongoing_read' = ongoing_read /\ reading' = reading
         \/ ongoing_read' = FALSE /\ reading' = 0
<1> USE DEF readVars, urbVars
<1>1. CASE CoreCall
  BY <1>1 DEF CoreCall, StartSuspend, StartReset, Unplug
<1>2. CASE PreResetLock \/ CoreDraw
  BY <1>2 DEF PreResetLock, CoreDraw, DrawWrites, DrawRead
<1>3. CASE PostReset \/ DisconnectIntfdata \/ DisconnectDeregister
  BY <1>3 DEF PostReset, DisconnectIntfdata, DisconnectDeregister
<1>4. CASE DisconnectLock \/ DisconnectUnlock
  BY <1>4 DEF DisconnectLock, DisconnectUnlock
<1>5. CASE DisconnectKill \/ DisconnectPut
  BY <1>5 DEF DisconnectKill, DisconnectPut, KrefPut
<1>6. CASE Callback
  BY <1>6 DEF Callback, WriteCallback, ReadCallback
<1> QED
  BY <1>1, <1>2, <1>3, <1>4, <1>5, <1>6 DEF CoreProceed

LEMMA NoneSubmitsKept ==
  ASSUME Types, Mutex, NoneSubmits, [Next]_vars
  PROVE  NoneSubmits'
<1> USE DEF NoneSubmits
<1>1. ASSUME NEW p \in Procs, Choose(p) \/ Proceed(p)
      PROVE  NoneSubmits'
  <2>1. \A q \in Procs : q # p => pc'[q] = pc[q]
    BY <1>1, OthersStay DEF Types
  <2> QED
    BY <1>1, <2>1, ProcessPasses, ProcessKeepsMarks DEF Types
<1>2. CASE CoreCall \/ CoreProceed \/ Callback
  <2>1. pc' = pc
    BY <1>2, CoreKeepsPlaces
  <2>2. io_mutex = Nobody => \A p \in Procs : pc[p] \notin PastCheck
    BY UsbAssumption DEF Mutex, Inside, PastCheck
  <2> QED
    BY <1>2, <2>1, <2>2, CoreMarks
<1>3. CASE UNCHANGED vars
  BY <1>3 DEF vars, fileVars, lifeVars
<1> QED
  BY <1>1, <1>2, <1>3 DEF Next

LEMMA ReadIdleKept ==
  ASSUME Types, Mutex, ReadIdle, [Next]_vars
  PROVE  ReadIdle'
<1> USE DEF ReadIdle
<1>1. ASSUME NEW p \in Procs, Choose(p) \/ Proceed(p)
      PROVE  ReadIdle'
  <2>1. \A q \in Procs : q # p => pc'[q] = pc[q]
    BY <1>1, OthersStay DEF Types
  <2>2. pc[p] = "r_data" => \A q \in Procs : q # p => pc[q] \notin PastWait
    BY DEF Mutex, Inside, PastWait
  <2>3. CASE /\ ongoing_read' = ongoing_read /\ reading' = reading
             /\ pc'[p] \in PastWait => pc[p] \in PastWait \/ ~ongoing_read
    BY <2>1, <2>3
  <2>4. CASE /\ pc[p] = "r_data" /\ pc'[p] \notin PastWait
             /\ ongoing_read' = TRUE \/ reading' = reading
    <3>1. reading = 0
      BY <2>4 DEF PastWait
    <3> QED
      BY <2>1, <2>2, <2>4, <3>1
  <2> QED
    BY <1>1, <2>3, <2>4, ProcessReads DEF Types
<1>2. CASE CoreCall \/ CoreProceed \/ Callback
  <2>1. pc' = pc
    BY <1>2, CoreKeepsPlaces
  <2>2. CASE ongoing_read' = ongoing_read /\ reading' = reading
    BY <2>1, <2>2
  <2>3. CASE ongoing_read' = FALSE /\ reading' = 0
    BY <2>1, <2>3
  <2> QED
    BY <1>2, <2>2, <2>3, CoreReads
<1>3. CASE UNCHANGED vars
  BY <1>3 DEF vars, fileVars, readVars, urbVars
<1> QED
  BY <1>1, <1>2, <1>3 DEF Next
-----------------------------------------------------------------------------
(* Resetting and unplugging.                                               *)

\* The core and the callbacks put no URB in flight.
LEMMA CoreSubmitsNone ==
  ASSUME Types, CoreCall \/ CoreProceed \/ Callback
  PROVE  (writes = 0 => writes' = 0) /\ (reading = 0 => reading' = 0)
<1> USE DEF urbVars
<1>1. CASE CoreCall
  BY <1>1 DEF CoreCall, StartSuspend, StartReset, Unplug
<1>2. CASE PreResetLock \/ CoreDraw
  BY <1>2 DEF PreResetLock, CoreDraw, DrawWrites, DrawRead
<1>3. CASE PostReset \/ DisconnectIntfdata \/ DisconnectDeregister
  BY <1>3 DEF PostReset, DisconnectIntfdata, DisconnectDeregister
<1>4. CASE DisconnectLock \/ DisconnectUnlock
  BY <1>4 DEF DisconnectLock, DisconnectUnlock
<1>5. CASE DisconnectKill \/ DisconnectPut
  BY <1>5 DEF DisconnectKill, DisconnectPut, KrefPut
<1>6. CASE Callback
  BY <1>6 DEF Callback, WriteCallback, ReadCallback
<1> QED
  BY <1>1, <1>2, <1>3, <1>4, <1>5, <1>6 DEF CoreProceed

\* The way of the core through skel_pre_reset and skel_post_reset.
LEMMA CoreResets ==
  ASSUME Types, CoreCall \/ CoreProceed \/ Callback
  PROVE  /\ cpc' \in {"p_read", "post_reset"} => cpc \in {"p_read", "post_reset"} \/ writes = 0
         /\ cpc' = "post_reset" => cpc = "post_reset" \/ reading = 0
         /\ cpc' \in Resetting =>
              (cpc \in Resetting /\ faults' = faults) \/ faults' = faults + 1
<1> USE UsbAssumption DEF Types, CountTypes, ReadTypes, Resetting, CoreAt, urbVars, histVars
<1>1. CASE CoreCall
  BY <1>1 DEF CoreCall, StartSuspend, StartReset, Unplug
<1>2. CASE PreResetLock \/ CoreDraw
  BY <1>2 DEF PreResetLock, CoreDraw
<1>3. CASE PostReset \/ DisconnectIntfdata \/ DisconnectDeregister
  BY <1>3 DEF PostReset, DisconnectIntfdata, DisconnectDeregister
<1>4. CASE DisconnectLock \/ DisconnectUnlock
  BY <1>4 DEF DisconnectLock, DisconnectUnlock
<1>5. CASE DisconnectKill \/ DisconnectPut
  BY <1>5 DEF DisconnectKill, DisconnectPut
<1>6. CASE Callback
  BY <1>6 DEF Callback, WriteCallback, ReadCallback
<1> QED
  BY <1>1, <1>2, <1>3, <1>4, <1>5, <1>6 DEF CoreProceed

LEMMA QuietKept ==
  ASSUME Types, Mutex, Quiet, [Next]_vars
  PROVE  Quiet'
<1> USE DEF Quiet
<1>1. ASSUME NEW p \in Procs, Choose(p) \/ Proceed(p)
      PROVE  Quiet'
  <2>1. cpc' = cpc /\ faults' = faults
    BY <1>1, OthersStay, ProcessKeepsMarks DEF Types
  <2>2. cpc \in {"p_read", "post_reset"} => pc[p] \notin {"w_submit", "r_data"}
    BY UsbAssumption DEF Mutex, Inside, CoreInside
  <2> QED
    BY <1>1, <2>1, <2>2, ProcessSubmits
<1>2. CASE CoreCall \/ CoreProceed \/ Callback
  <2>1. cpc' \in {"p_read", "post_reset"} => writes' = 0
    BY <1>2, CoreSubmitsNone, CoreResets
  <2>2. cpc' = "post_reset" => reading' = 0
    BY <1>2, CoreSubmitsNone, CoreResets
  <2>3. cpc' \in Resetting => faults' > 0
    BY <1>2, UsbAssumption, CoreResets DEF Types, CountTypes
  <2> QED
    BY <2>1, <2>2, <2>3
<1>3. CASE UNCHANGED vars
  BY <1>3 DEF vars, urbVars, histVars
<1> QED
  BY <1>1, <1>2, <1>3 DEF Next

\* The way of the core from the unplugging to its last reference.
LEMMA CoreUnplugs ==
  ASSUME CoreCall \/ CoreProceed \/ Callback
  PROVE  /\ cpc' \in Unplugged => cpc \in Unplugged \/ gone' = TRUE
         /\ cpc' \in Withdrawn => cpc \in Withdrawn \/ intfdata' = FALSE
         /\ cpc' \in Deregistered =>
              cpc \in Deregistered \/ (cpc \in Withdrawn /\ \A p \in Procs : pc[p] # "opening")
         /\ cpc' \in Killed => cpc \in Killed \/ (writes = 0 /\ reading = 0 /\ cpc \in Unplugged)
<1> USE DEF Unplugged, Withdrawn, Deregistered, Killed, CoreAt
<1>1. CASE CoreCall
  BY <1>1 DEF CoreCall, StartSuspend, StartReset, Unplug
<1>2. CASE PreResetLock \/ CoreDraw
  BY <1>2 DEF PreResetLock, CoreDraw
<1>3. CASE PostReset \/ DisconnectIntfdata \/ DisconnectDeregister
  BY <1>3 DEF PostReset, DisconnectIntfdata, DisconnectDeregister
<1>4. CASE DisconnectLock \/ DisconnectUnlock
  BY <1>4 DEF DisconnectLock, DisconnectUnlock
<1>5. CASE DisconnectKill \/ DisconnectPut
  BY <1>5 DEF DisconnectKill, DisconnectPut
<1>6. CASE Callback
  BY <1>6 DEF Callback, WriteCallback, ReadCallback
<1> QED
  BY <1>1, <1>2, <1>3, <1>4, <1>5, <1>6 DEF CoreProceed

LEMMA CoreKeepsMarks ==
  ASSUME CoreCall \/ CoreProceed \/ Callback
  PROVE  gone' \in {gone, TRUE} /\ intfdata' \in {intfdata, FALSE}
<1> USE DEF lifeVars, urbVars
<1>1. CASE CoreCall
  BY <1>1 DEF CoreCall, StartSuspend, StartReset, Unplug
<1>2. CASE PreResetLock \/ CoreDraw
  BY <1>2 DEF PreResetLock, CoreDraw, DrawWrites, DrawRead
<1>3. CASE PostReset \/ DisconnectIntfdata \/ DisconnectDeregister
  BY <1>3 DEF PostReset, DisconnectIntfdata, DisconnectDeregister
<1>4. CASE DisconnectLock \/ DisconnectUnlock
  BY <1>4 DEF DisconnectLock, DisconnectUnlock
<1>5. CASE DisconnectKill \/ DisconnectPut
  BY <1>5 DEF DisconnectKill, DisconnectPut, KrefPut
<1>6. CASE Callback
  BY <1>6 DEF Callback, WriteCallback, ReadCallback
<1> QED
  BY <1>1, <1>2, <1>3, <1>4, <1>5, <1>6 DEF CoreProceed

LEMMA UnpluggingKept ==
  ASSUME Types, Unplugging, [Next]_vars
  PROVE  Unplugging'
<1> USE DEF Unplugging
<1>1. ASSUME NEW p \in Procs, Choose(p) \/ Proceed(p)
      PROVE  Unplugging'
  <2>1. /\ \A q \in Procs : q # p => pc'[q] = pc[q]
        /\ cpc' = cpc
    BY <1>1, OthersStay DEF Types
  <2>2. gone' = gone /\ intfdata' = intfdata
    BY <1>1, ProcessKeepsMarks
  <2>3. cpc' \in Deregistered => \A q \in Procs : pc'[q] # "opening"
    <3>1. cpc \in Deregistered => ~intfdata
      BY DEF Deregistered
    <3> QED
      BY <1>1, <2>1, <3>1, ProcessPasses DEF Types
  <2>4. cpc' \in Killed => writes' = 0 /\ reading' = 0
    BY <1>1, <2>1, ProcessSubmits DEF Killed, Unplugged
  <2> QED
    BY <2>1, <2>2, <2>3, <2>4
<1>2. CASE CoreCall \/ CoreProceed \/ Callback
  <2>1. pc' = pc
    BY <1>2, CoreKeepsPlaces
  <2>2. cpc' \in Unplugged => gone'
    BY <1>2, CoreUnplugs, CoreKeepsMarks
  <2>3. cpc' \in Withdrawn => ~intfdata'
    BY <1>2, CoreUnplugs, CoreKeepsMarks
  <2>4. cpc' \in Deregistered => \A q \in Procs : pc'[q] # "opening"
    BY <1>2, <2>1, CoreUnplugs
  <2>5. cpc' \in Killed => writes' = 0 /\ reading' = 0
    BY <1>2, CoreUnplugs, CoreSubmitsNone
  <2> QED
    BY <2>2, <2>3, <2>4, <2>5
<1>3. CASE UNCHANGED vars
  BY <1>3 DEF vars, fileVars, lifeVars, urbVars
<1> QED
  BY <1>1, <1>2, <1>3 DEF Next
-----------------------------------------------------------------------------
(* Counting slots and references.                                          *)

\* Where a process takes a slot, gives it back or hands it to a URB.
LEMMA ProcessTakesSlots ==
  ASSUME Types, NEW p \in Procs, Choose(p) \/ Proceed(p)
  PROVE  \/ (p \in Holders' <=> p \in Holders) /\ limit_sem' = limit_sem /\ writes' = writes
         \/ p \in Holders' /\ p \notin Holders /\ limit_sem' = limit_sem - 1 /\ writes' = writes
         \/ p \notin Holders' /\ p \in Holders /\ limit_sem' = limit_sem + 1 /\ writes' = writes
         \/ p \notin Holders' /\ p \in Holders /\ limit_sem' = limit_sem /\ writes' = writes + 1
<1> USE DEF Types, FileTypes, Holders, HoldsSlot, WritePc, At, Go, lockVars, urbVars
<1>1. CASE Choose(p)
  BY <1>1 DEF Open, OpenFails, StartWrite, WriteGivesUp, StartRead, ReadGivesUp,
     ReadInterrupted, StartClose, Choose
<1>2. CASE OpenGet(p) \/ WriteDown(p) \/ WriteErrors(p) \/ WriteClear(p)
  BY <1>2 DEF OpenGet, WriteDown, WriteErrors, WriteClear
<1>3. CASE WriteLock(p) \/ WriteCheck(p) \/ WriteSubmit(p) \/ WriteUp(p)
  BY <1>3 DEF WriteLock, WriteCheck, WriteSubmit, WriteUp
<1>4. CASE ReadLock(p) \/ ReadCheck(p) \/ ReadRetry(p) \/ ReadWait(p)
  BY <1>4 DEF ReadLock, ReadCheck, ReadRetry, ReadWait
<1>5. CASE ReadErrors(p) \/ ReadClear(p) \/ ReadStartIo(p) \/ ReadCopy(p) \/ ReadUnlock(p)
  BY <1>5 DEF ReadErrors, ReadClear, ReadStartIo, ReadCopy, ReadUnlock, ReadIoSucceeds,
     ReadIoFails
<1>6. CASE FlushLock(p) \/ FlushDraw(p)
  BY <1>6 DEF FlushLock, FlushDraw, DrawWrites, DrawRead
<1>7. CASE FlushErrors(p) \/ Release(p)
  BY <1>7 DEF FlushErrors, Release, KrefPut
<1> QED
  BY <1>1, <1>2, <1>3, <1>4, <1>5, <1>6, <1>7 DEF Proceed

LEMMA CoreTakesNoSlot ==
  ASSUME CoreCall \/ CoreProceed \/ Callback
  PROVE  \/ limit_sem' = limit_sem /\ writes' = writes
         \/ limit_sem' = limit_sem + 1 /\ writes' = writes - 1
<1> USE DEF lockVars, urbVars
<1>1. CASE CoreCall
  BY <1>1 DEF CoreCall, StartSuspend, StartReset, Unplug
<1>2. CASE PreResetLock \/ CoreDraw
  BY <1>2 DEF PreResetLock, CoreDraw, DrawWrites, DrawRead
<1>3. CASE PostReset \/ DisconnectIntfdata \/ DisconnectDeregister
  BY <1>3 DEF PostReset, DisconnectIntfdata, DisconnectDeregister
<1>4. CASE DisconnectLock \/ DisconnectUnlock
  BY <1>4 DEF DisconnectLock, DisconnectUnlock
<1>5. CASE DisconnectKill \/ DisconnectPut
  BY <1>5 DEF DisconnectKill, DisconnectPut, KrefPut
<1>6. CASE Callback
  BY <1>6 DEF Callback, WriteCallback, ReadCallback
<1> QED
  BY <1>1, <1>2, <1>3, <1>4, <1>5, <1>6 DEF CoreProceed

LEMMA SlotsKept ==
  ASSUME Types, Slots, [Next]_vars
  PROVE  Slots'
<1> USE DEF Types, LockTypes, CountTypes, Slots
<1>1. Cardinality(Holders) \in Nat
  BY ProcsCounted DEF Holders
<1>2. ASSUME NEW p \in Procs, Choose(p) \/ Proceed(p)
      PROVE  Slots'
  <2>1. \A q \in Procs : q # p => pc'[q] = pc[q]
    BY <1>2, OthersStay
  <2>2. Holders' = IF p \in Holders' THEN Holders \cup {p} ELSE Holders \ {p}
    BY <2>1 DEF Holders, HoldsSlot
  <2>3. p \in Holders' /\ p \notin Holders =>
          Cardinality(Holders') = Cardinality(Holders) + 1
    BY <2>2, ProcsCounted DEF Holders
  <2>4. p \notin Holders' /\ p \in Holders =>
          Cardinality(Holders') = Cardinality(Holders) - 1
    BY <2>2, ProcsCounted DEF Holders
  <2>5. (p \in Holders' <=> p \in Holders) => Holders' = Holders
    BY <2>2
  <2> DEFINE n == Cardinality(Holders)
  <2>6. Slots' <=> limit_sem' + writes' + n' = WRITES_IN_FLIGHT
    OBVIOUS
  <2>7. \/ n' = n /\ limit_sem' = limit_sem /\ writes' = writes
        \/ n' = n + 1 /\ limit_sem' = limit_sem - 1 /\ writes' = writes
        \/ n' = n - 1 /\ limit_sem' = limit_sem + 1 /\ writes' = writes
        \/ n' = n - 1 /\ limit_sem' = limit_sem /\ writes' = writes + 1
    BY <1>2, <2>3, <2>4, <2>5, ProcessTakesSlots
  <2>8. n \in Nat /\ limit_sem + writes + n = WRITES_IN_FLIGHT
    BY <1>1
  <2> HIDE DEF n
  <2> QED
    BY <2>6, <2>7, <2>8
<1>3. CASE CoreCall \/ CoreProceed \/ Callback
  <2>1. Holders' = Holders
    BY <1>3, CoreKeepsPlaces DEF Holders, HoldsSlot
  <2> QED
    BY <1>1, <1>3, <2>1, CoreTakesNoSlot
<1>4. CASE UNCHANGED vars
  BY <1>4 DEF vars, fileVars, lockVars, urbVars, Holders, HoldsSlot
<1> QED
  BY <1>2, <1>3, <1>4 DEF Next

\* Where a process gets and puts a reference to the device.
LEMMA ProcessRefers ==
  ASSUME Types, NEW p \in Procs, Choose(p) \/ Proceed(p)
  PROVE  \/ (p \in Files' <=> p \in Files) /\ kref' = kref /\ freed' = freed
         \/ /\ p \in Files' /\ p \notin Files /\ pc[p] = "opening"
            /\ kref' = kref + 1 /\ freed' = freed
         \/ p \notin Files' /\ p \in Files /\ kref' = kref - 1 /\ freed' = (kref = 1)
<1> USE DEF Types, FileTypes, Files, At, Go, lifeVars
<1>1. CASE Choose(p)
  BY <1>1 DEF Open, OpenFails, StartWrite, WriteGivesUp, StartRead, ReadGivesUp,
     ReadInterrupted, StartClose, Choose
<1>2. CASE OpenGet(p) \/ WriteDown(p) \/ WriteErrors(p) \/ WriteClear(p)
  BY <1>2 DEF OpenGet, WriteDown, WriteErrors, WriteClear
<1>3. CASE WriteLock(p) \/ WriteCheck(p) \/ WriteSubmit(p) \/ WriteUp(p)
  BY <1>3 DEF WriteLock, WriteCheck, WriteSubmit, WriteUp
<1>4. CASE ReadLock(p) \/ ReadCheck(p) \/ ReadRetry(p) \/ ReadWait(p)
  BY <1>4 DEF ReadLock, ReadCheck, ReadRetry, ReadWait
<1>5. CASE ReadErrors(p) \/ ReadClear(p) \/ ReadStartIo(p) \/ ReadCopy(p) \/ ReadUnlock(p)
  BY <1>5 DEF ReadErrors, ReadClear, ReadStartIo, ReadCopy, ReadUnlock, ReadIoSucceeds,
     ReadIoFails
<1>6. CASE FlushLock(p) \/ FlushDraw(p)
  BY <1>6 DEF FlushLock, FlushDraw, DrawWrites, DrawRead
<1>7. CASE FlushErrors(p) \/ Release(p)
  BY <1>7 DEF FlushErrors, Release, KrefPut
<1> QED
  BY <1>1, <1>2, <1>3, <1>4, <1>5, <1>6, <1>7 DEF Proceed

\* Where the core puts its own.
LEMMA CoreRefers ==
  ASSUME CoreCall \/ CoreProceed \/ Callback
  PROVE  \/ (cpc' = "unbound" <=> cpc = "unbound") /\ kref' = kref /\ freed' = freed
         \/ cpc' = "unbound" /\ cpc # "unbound" /\ kref' = kref - 1 /\ freed' = (kref = 1)
<1> USE DEF CoreAt, lifeVars
<1>1. CASE CoreCall
  BY <1>1 DEF CoreCall, StartSuspend, StartReset, Unplug
<1>2. CASE PreResetLock \/ CoreDraw
  BY <1>2 DEF PreResetLock, CoreDraw, DrawWrites, DrawRead
<1>3. CASE PostReset \/ DisconnectIntfdata \/ DisconnectDeregister
  BY <1>3 DEF PostReset, DisconnectIntfdata, DisconnectDeregister
<1>4. CASE DisconnectLock \/ DisconnectUnlock
  BY <1>4 DEF DisconnectLock, DisconnectUnlock
<1>5. CASE DisconnectKill \/ DisconnectPut
  BY <1>5 DEF DisconnectKill, DisconnectPut, KrefPut
<1>6. CASE Callback
  BY <1>6 DEF Callback, WriteCallback, ReadCallback
<1> QED
  BY <1>1, <1>2, <1>3, <1>4, <1>5, <1>6 DEF CoreProceed

LEMMA ReferencesKept ==
  ASSUME Types, References, Unplugging, [Next]_vars
  PROVE  References'
<1> USE DEF Types, CountTypes, References, CoreRef
<1>1. Cardinality(Files) \in Nat
  BY ProcsCounted DEF Files
<1>2. ASSUME NEW p \in Procs, Choose(p) \/ Proceed(p)
      PROVE  References'
  <2>1. (\A q \in Procs : q # p => pc'[q] = pc[q]) /\ cpc' = cpc
    BY <1>2, OthersStay
  <2>2. Files' = IF p \in Files' THEN Files \cup {p} ELSE Files \ {p}
    BY <2>1 DEF Files
  <2>3. p \in Files' /\ p \notin Files => Cardinality(Files') = Cardinality(Files) + 1
    BY <2>2, ProcsCounted DEF Files
  <2>4. p \notin Files' /\ p \in Files => Cardinality(Files') = Cardinality(Files) - 1
    BY <2>2, ProcsCounted DEF Files
  <2>5. pc[p] = "opening" => cpc # "unbound"
    BY DEF Unplugging, Deregistered, Withdrawn, Unplugged
  <2>6. (p \in Files' <=> p \in Files) => Files' = Files
    BY <2>2
  <2>7. CoreRef' = CoreRef /\ CoreRef \in Nat
    BY <2>1
  <2> DEFINE n == Cardinality(Files)
  <2>8. n \in Nat /\ kref = CoreRef + n
    BY <1>1
  <2>9. CASE n' = n /\ kref' = kref /\ freed' = freed
    BY <2>7, <2>9
  <2>10. CASE n' = n + 1 /\ kref' = kref + 1 /\ freed' = freed /\ pc[p] = "opening"
    <3>1. kref # 0
      BY <2>5, <2>8, <2>10
    <3> QED
      BY <2>7, <2>8, <2>10, <3>1
  <2>11. CASE n' = n - 1 /\ kref' = kref - 1 /\ freed' = (kref = 1)
    <3>1. kref' = CoreRef' + n'
      BY <2>7, <2>8, <2>11
    <3>2. freed' => kref = 1
      BY <2>11
    <3> QED
      BY <2>11, <3>1, <3>2
  <2> QED
    BY <1>2, <2>3, <2>4, <2>6, <2>9, <2>10, <2>11, ProcessRefers
<1>3. CASE CoreCall \/ CoreProceed \/ Callback
  <2>1. Files' = Files
    BY <1>3, CoreKeepsPlaces DEF Files
  <2> DEFINE n == Cardinality(Files)
  <2>2. n' = n /\ n \in Nat
    BY <1>1, <2>1
  <2> HIDE DEF n
  <2>3. kref = CoreRef + n
    BY DEF n
  <2>4. CASE /\ cpc' = "unbound" <=> cpc = "unbound"
             /\ kref' = kref /\ freed' = freed
    BY <2>2, <2>3, <2>4 DEF n
  <2>5. CASE /\ cpc' = "unbound" /\ cpc # "unbound"
             /\ kref' = kref - 1 /\ freed' = (kref = 1)
    <3>1. kref' = CoreRef' + n'
      BY <2>2, <2>3, <2>5
    <3>2. freed' => kref = 1
      BY <2>5
    <3> QED
      BY <2>5, <3>1, <3>2 DEF n
  <2> QED
    BY <1>3, <2>4, <2>5, CoreRefers
<1>4. CASE UNCHANGED vars
  BY <1>4 DEF vars, fileVars, lifeVars, Files
<1> QED
  BY <1>2, <1>3, <1>4 DEF Next
-----------------------------------------------------------------------------
(* What calls return.                                                      *)

\* What happened once has happened.
LEMMA KnownKept ==
  ASSUME Types, [Next]_vars, NEW e \in Error, Known(e)
  PROVE  KnownAt(e, cpc', faults')
<1>1. ASSUME NEW p \in Procs, Choose(p) \/ Proceed(p)
      PROVE  cpc' = cpc /\ faults' = faults
  BY <1>1, OthersStay, ProcessKeepsMarks DEF Types
<1>2. CASE CoreCall \/ CoreProceed \/ Callback
  <2>1. faults' = faults \/ faults' = faults + 1
    BY <1>2 DEF histVars, CoreCall, StartSuspend, StartReset, Unplug, CoreProceed,
       PreResetLock, CoreDraw, PostReset, DisconnectIntfdata, DisconnectDeregister,
       DisconnectLock, DisconnectUnlock, DisconnectKill, DisconnectPut, Callback,
       WriteCallback, ReadCallback
  <2>2. faults \in Nat
    BY UsbAssumption DEF Types, CountTypes
  <2>3. e.kind \in {"fault", "reset"} => e.id \in Nat
    BY UsbAssumption DEF Error, NoError, Unlinked
  <2>4. cpc' \in Resetting => (cpc \in Resetting /\ faults' = faults) \/ faults' = faults + 1
    BY <1>2, CoreResets
  <2> QED
    BY <2>1, <2>2, <2>3, <2>4 DEF Known, KnownAt
<1>3. CASE UNCHANGED vars
  BY <1>3 DEF vars, histVars, Known
<1> QED
  BY <1>1, <1>2, <1>3 DEF Next, Known

\* The report of a call that has read dev->errors under err_lock.
LEMMA LockedReport ==
  ASSUME NEW call \in {"write", "flush"}, NEW e, Report(call, e)
  PROVE  \/ e = Unlinked /\ Locked' = Locked
         \/ e # Unlinked /\ \E r : r.error = e /\ Locked' = Locked \cup {r}
<1>1. CASE e = Unlinked
  BY <1>1 DEF Report, Locked
<1>2. CASE e # Unlinked
  <2> DEFINE before == {r \in reports : r.error = e /\ r.call = call}
             report == [error |-> e, call |-> call, nth |-> Cardinality(before) + 1]
  <2>1. reports' = reports \cup {report}
    BY <1>2 DEF Report
  <2>2. report.error = e /\ report.call # "read"
    OBVIOUS
  <2> HIDE DEF report
  <2> QED
    BY <1>2, <2>1, <2>2 DEF Locked
<1> QED
  BY <1>1, <1>2

\* The report of skel_read is not one of them.
LEMMA ReadReport ==
  ASSUME NEW e, Report("read", e)
  PROVE  Locked' = Locked
<1>1. CASE e = Unlinked
  BY <1>1 DEF Report, Locked
<1>2. CASE e # Unlinked
  <2> DEFINE before == {r \in reports : r.error = e /\ r.call = "read"}
             report == [error |-> e, call |-> "read", nth |-> Cardinality(before) + 1]
  <2>1. reports' = reports \cup {report}
    BY <1>2 DEF Report
  <2>2. report.call = "read"
    OBVIOUS
  <2> HIDE DEF report
  <2> QED
    BY <2>1, <2>2 DEF Locked
<1> QED
  BY <1>1, <1>2

\* A process reads dev->errors into w_clear, returns an error, or does neither.
LEMMA ProcessReports ==
  ASSUME Types, ErrLock, NEW p \in Procs, Choose(p) \/ Proceed(p)
  PROVE  /\ \A q \in Procs : q # p => rv'[q] = rv[q]
         /\ \/ pc'[p] # "w_clear" /\ errors' \in {errors, NoError} /\ Locked' = Locked
            \/ errors' = errors /\ Locked' = Locked /\ rv'[p] = errors
            \/ /\ errors' = NoError /\ \A q \in Procs : pc'[q] # "w_clear"
               /\ \E e, r : /\ e = errors \/ (pc[p] = "w_clear" /\ e = rv[p])
                           /\ e \notin {NoError, Unlinked}
                           /\ r.error = e /\ Locked' = Locked \cup {r}
<1> USE DEF Types, FileTypes, At, Go
<1>1. CASE Choose(p)
  BY <1>1 DEF Choose, Open, OpenFails, StartWrite, WriteGivesUp, StartRead, ReadGivesUp,
     ReadInterrupted, StartClose, histVars, Locked
<1>2. CASE OpenGet(p) \/ WriteDown(p) \/ WriteErrors(p)
  BY <1>2 DEF OpenGet, WriteDown, WriteErrors, histVars, Locked
<1>3. CASE WriteClear(p) /\ rv[p] = NoError
  BY <1>3 DEF WriteClear, Locked
<1>4. CASE WriteClear(p) /\ rv[p] # NoError
  <2>1. Report("write", rv[p]) /\ errors' = NoError /\ pc' = [pc EXCEPT ![p] = "w_up"]
    BY <1>4 DEF WriteClear
  <2>2. \A q \in Procs : q # p => rv'[q] = rv[q]
    BY <1>4 DEF WriteClear
  <2>3. pc[p] = "w_clear" /\ \A q \in Procs : pc'[q] # "w_clear"
    BY <1>4, <2>1 DEF WriteClear, ErrLock
  <2> QED
    BY <1>4, <2>1, <2>2, <2>3, LockedReport
<1>5. CASE WriteLock(p) \/ WriteCheck(p) \/ WriteSubmit(p) \/ WriteUp(p)
  BY <1>5 DEF WriteLock, WriteCheck, WriteSubmit, WriteUp, histVars, Locked
<1>6. CASE ReadLock(p) \/ ReadCheck(p) \/ ReadRetry(p) \/ ReadWait(p) \/ ReadErrors(p)
  BY <1>6 DEF ReadLock, ReadCheck, ReadRetry, ReadWait, ReadErrors, histVars, Locked
<1>7. CASE ReadClear(p)
  <2>1. Locked' = Locked
    BY <1>7, ReadReport DEF ReadClear
  <2> QED
    BY <1>7, <2>1 DEF ReadClear
<1>8. CASE ReadStartIo(p) \/ ReadCopy(p) \/ ReadUnlock(p)
  BY <1>8 DEF ReadStartIo, ReadCopy, ReadUnlock, histVars, Locked
<1>9. CASE FlushLock(p) \/ FlushDraw(p) \/ Release(p)
  BY <1>9 DEF FlushLock, FlushDraw, Release, histVars, Locked
<1>10. CASE FlushErrors(p) /\ errors = NoError
  BY <1>10 DEF FlushErrors, Locked
<1>11. CASE FlushErrors(p) /\ errors # NoError
  <2>1. Report("flush", errors) /\ errors' = NoError /\ pc' = [pc EXCEPT ![p] = "release"]
    BY <1>11 DEF FlushErrors
  <2>2. \A q \in Procs : q # p => rv'[q] = rv[q]
    BY <1>11 DEF FlushErrors
  <2>3. \A q \in Procs : pc'[q] # "w_clear"
    BY <1>11, <2>1, UsbAssumption DEF FlushErrors, ErrLock
  <2> QED
    BY <1>11, <2>1, <2>2, <2>3, LockedReport
<1> QED
  BY <1>1, <1>2, <1>3, <1>4, <1>5, <1>6, <1>7, <1>8, <1>9, <1>10, <1>11 DEF Proceed

\* The core and the callbacks write errors that occur with the step, and the
\* callbacks that of an unlinked URB.
LEMMA CoreErrors ==
  ASSUME CoreCall \/ CoreProceed \/ Callback
  PROVE  \/ errors' \in {errors, Unlinked}
         \/ errors' = [kind |-> "fault", id |-> faults + 1] /\ faults' = faults + 1
         \/ /\ errors' = [kind |-> "reset", id |-> faults] /\ faults' = faults
            /\ cpc \in Resetting /\ cpc' \notin Resetting
<1> USE DEF histVars, CoreAt, Resetting
<1>1. CASE CoreCall
  BY <1>1 DEF CoreCall, StartSuspend, StartReset, Unplug
<1>2. CASE PreResetLock \/ CoreDraw
  BY <1>2 DEF PreResetLock, CoreDraw
<1>3. CASE PostReset \/ DisconnectIntfdata \/ DisconnectDeregister
  BY <1>3 DEF PostReset, DisconnectIntfdata, DisconnectDeregister
<1>4. CASE DisconnectLock \/ DisconnectUnlock
  BY <1>4 DEF DisconnectLock, DisconnectUnlock
<1>5. CASE DisconnectKill \/ DisconnectPut
  BY <1>5 DEF DisconnectKill, DisconnectPut
<1>6. CASE Callback
  BY <1>6 DEF Callback, WriteCallback, ReadCallback
<1> QED
  BY <1>1, <1>2, <1>3, <1>4, <1>5, <1>6 DEF CoreProceed

LEMMA CoreReportsNothing ==
  ASSUME CoreCall \/ CoreProceed \/ Callback
  PROVE  pc' = pc /\ rv' = rv /\ reports' = reports
BY DEF fileVars, histVars, CoreCall, StartSuspend, StartReset, Unplug, CoreProceed,
   PreResetLock, CoreDraw, PostReset, DisconnectIntfdata, DisconnectDeregister,
   DisconnectLock, DisconnectUnlock, DisconnectKill, DisconnectPut, Callback,
   WriteCallback, ReadCallback

LEMMA ReportsKnownKept ==
  ASSUME Types, ErrLock, ReportsKnown, [Next]_vars
  PROVE  ReportsKnown'
<1> USE ErrorsTyped
<1>1. \A e \in Error : Known(e) => KnownAt(e, cpc', faults')
  BY KnownKept
<1>2. errors \in Error /\ \A p \in Procs : rv[p] \in Error
  BY DEF Types, FileTypes
<1>3. \A r \in Locked : r.error \in Error
  BY DEF Types, ReportTypes, Reported, Locked
<1> DEFINE New(e) == KnownAt(e, cpc', faults') /\ \A r \in Locked' : r.error # e
<1>4. SUFFICES
        /\ New(NoError) /\ New(Unlinked) /\ New(errors')
        /\ \A q \in Procs : pc'[q] = "w_clear" => New(rv'[q])
        /\ \A r \in Locked' : KnownAt(r.error, cpc', faults')
        /\ \A r, s \in Locked' : r.error = s.error => r = s
  BY DEF ReportsKnown, Fresh, Known
<1>5. Locked' = Locked => /\ \A e \in Error : Fresh(e) => New(e)
                          /\ \A r \in Locked' : KnownAt(r.error, cpc', faults')
                          /\ \A r, s \in Locked' : r.error = s.error => r = s
  BY <1>1, <1>3 DEF ReportsKnown, Fresh
<1>6. ASSUME NEW p \in Procs, Choose(p) \/ Proceed(p)
      PROVE  /\ New(NoError) /\ New(Unlinked) /\ New(errors')
             /\ \A q \in Procs : pc'[q] = "w_clear" => New(rv'[q])
             /\ \A r \in Locked' : KnownAt(r.error, cpc', faults')
             /\ \A r, s \in Locked' : r.error = s.error => r = s
  <2>1. \A q \in Procs : q # p => pc'[q] = pc[q] /\ rv'[q] = rv[q]
    BY <1>6, OthersStay, ProcessReports DEF Types
  <2>2. CASE pc'[p] # "w_clear" /\ errors' \in {errors, NoError} /\ Locked' = Locked
    <3> HIDE DEF New
    <3> QED
      BY <1>2, <1>5, <2>1, <2>2 DEF ReportsKnown
  <2>3. CASE errors' = errors /\ Locked' = Locked /\ rv'[p] = errors
    <3> HIDE DEF New
    <3> QED
      BY <1>2, <1>5, <2>1, <2>3 DEF ReportsKnown
  <2>4. ASSUME errors' = NoError, \A q \in Procs : pc'[q] # "w_clear",
               NEW e, NEW r, e = errors \/ (pc[p] = "w_clear" /\ e = rv[p]),
               r.error = e, Locked' = Locked \cup {r}, e \notin {NoError, Unlinked}
        PROVE  /\ New(NoError) /\ New(Unlinked) /\ New(errors')
               /\ \A q \in Procs : pc'[q] = "w_clear" => New(rv'[q])
               /\ \A t \in Locked' : KnownAt(t.error, cpc', faults')
               /\ \A t, s \in Locked' : t.error = s.error => t = s
    <3>1. Fresh(e) /\ e \in Error
      BY <1>2, <2>4 DEF ReportsKnown
    <3>2. \A t \in Locked' : KnownAt(t.error, cpc', faults')
      BY <1>1, <1>3, <2>4, <3>1 DEF ReportsKnown, Fresh
    <3>3. \A t, s \in Locked' : t.error = s.error => t = s
      BY <2>4, <3>1 DEF ReportsKnown, Fresh
    <3>4. New(NoError) /\ New(Unlinked)
      BY <1>1, <2>4 DEF ReportsKnown, Fresh
    <3> QED
      BY <2>4, <3>2, <3>3, <3>4
  <2> QED
    BY <1>6, <2>2, <2>3, <2>4, ProcessReports
<1>7. CASE CoreCall \/ CoreProceed \/ Callback
  <2>1. pc' = pc /\ rv' = rv /\ Locked' = Locked
    BY <1>7, CoreReportsNothing DEF Locked
  <2>2. New(errors')
    <3>1. CASE errors' \in {errors, Unlinked}
      <4> HIDE DEF New
      <4> QED
        BY <1>2, <1>5, <2>1, <3>1 DEF ReportsKnown
    <3>2. CASE errors' = [kind |-> "fault", id |-> faults + 1] /\ faults' = faults + 1
      <4>1. faults \in Nat
        BY UsbAssumption DEF Types, CountTypes
      <4>2. \A r \in Locked : r.error # errors'
        BY <3>2, <4>1 DEF ReportsKnown, Known, KnownAt
      <4>3. KnownAt(errors', cpc', faults')
        BY <3>2, <4>1 DEF KnownAt
      <4> QED
        BY <2>1, <4>2, <4>3
    <3>3. CASE /\ errors' = [kind |-> "reset", id |-> faults] /\ faults' = faults
               /\ cpc \in Resetting /\ cpc' \notin Resetting
      <4>1. faults \in Nat
        BY UsbAssumption DEF Types, CountTypes
      <4>2. \A r \in Locked : r.error # errors'
        BY <3>3, <4>1 DEF ReportsKnown, Known, KnownAt
      <4>3. KnownAt(errors', cpc', faults')
        BY <3>3, <4>1 DEF KnownAt
      <4> QED
        BY <2>1, <4>2, <4>3
    <3> QED
      BY <1>7, <3>1, <3>2, <3>3, CoreErrors
  <2> HIDE DEF New
  <2> QED
    BY <1>2, <1>5, <2>1, <2>2 DEF ReportsKnown
<1>8. CASE UNCHANGED vars
  <2>1. pc' = pc /\ rv' = rv /\ errors' = errors /\ Locked' = Locked
    BY <1>8 DEF vars, fileVars, histVars, Locked
  <2> HIDE DEF New
  <2> QED
    BY <1>2, <1>5, <2>1 DEF ReportsKnown
<1> QED
  BY <1>6, <1>7, <1>8 DEF Next
-----------------------------------------------------------------------------
(* The invariant and what follows from it.                                 *)

LEMMA InvariantInitially == Init => IInv
<1> SUFFICES ASSUME Init PROVE IInv
  OBVIOUS
<1>1. Types
  BY TypesInitially
<1>2. Mutex /\ ErrLock
  BY UsbAssumption DEF Init, Mutex, Inside, CoreInside, ErrLock
<1>3. NoneSubmits /\ ReadIdle /\ Quiet /\ Unplugging
  BY DEF Init, NoneSubmits, ReadIdle, PastWait, Quiet, Resetting, Unplugging, Unplugged,
     Withdrawn, Deregistered, Killed
<1>4. Slots
  <2>1. Holders = {}
    BY DEF Init, Holders, HoldsSlot, WritePc
  <2> QED
    BY <2>1, FS_EmptySet, UsbAssumption DEF Init, Slots
<1>5. References
  <2>1. Files = {}
    BY DEF Init, Files
  <2> QED
    BY <2>1, FS_EmptySet DEF Init, References, CoreRef
<1>6. ReportsKnown
  BY DEF Init, ReportsKnown, Fresh, Known, KnownAt, Locked, NoError, Unlinked
<1> QED
  BY <1>1, <1>2, <1>3, <1>4, <1>5, <1>6 DEF IInv

LEMMA TypesKept ==
  ASSUME Types, References, Quiet, [Next]_vars
  PROVE  Types'
<1>1. CASE UNCHANGED vars
  BY <1>1 DEF vars, fileVars, lockVars, readVars, lifeVars, urbVars, histVars, Types,
     FileTypes, LockTypes, ReadTypes, CountTypes, FlagTypes, ReportTypes
<1> QED
  BY <1>1, ProcessKeepsTypes, CoreKeepsTypes DEF Next

LEMMA InvariantKept == IInv /\ [Next]_vars => IInv'
BY TypesKept, LocksKept, NoneSubmitsKept, ReadIdleKept, QuietKept, UnpluggingKept, SlotsKept,
   ReferencesKept, ReportsKnownKept DEF IInv

LEMMA InvariantAlways == Spec => []IInv
BY InvariantInitially, InvariantKept, PTL DEF Spec

\* Every variable has its type; limit_sem and the writes in flight never
\* exceed WRITES_IN_FLIGHT, the value sema_init gives the semaphore.
THEOREM UsbTypeCorrect == Spec => []TypeOK
<1>1. IInv => TypeOK
  <2> SUFFICES ASSUME IInv PROVE TypeOK
    OBVIOUS
  <2>1. Types /\ Slots
    BY DEF IInv
  <2>2. Cardinality(Holders) \in Nat
    BY ProcsCounted DEF Holders
  <2>3. limit_sem \in 0..WRITES_IN_FLIGHT /\ writes \in 0..WRITES_IN_FLIGHT
    BY <2>1, <2>2, UsbAssumption DEF Types, LockTypes, CountTypes, Slots
  <2> QED
    BY <2>1, <2>3 DEF Types, FileTypes, Pcs, LockTypes, ReadTypes, CountTypes, FlagTypes,
       ReportTypes, Reported, TypeOK
<1> QED
  BY <1>1, InvariantAlways, PTL

\* Every slot of limit_sem is free, held by a writer, or held by a URB in
\* flight: skel_write and its callback lose none, and give none back twice.
THEOREM UsbSlotsConserved == Spec => []SlotsConserved
<1>1. IInv => SlotsConserved
  BY DEF IInv, Slots, Holders, SlotsConserved
<1> QED
  BY <1>1, InvariantAlways, PTL

\* skel_delete runs when no file is open, no URB is in flight and the core
\* has let go of the device, whenever it is unplugged.
THEOREM UsbNoUseAfterFree == Spec => []NoUseAfterFree
<1>1. IInv => NoUseAfterFree
  <2> SUFFICES ASSUME IInv, freed PROVE NoUseAfterFree
    BY DEF NoUseAfterFree
  <2>1. References /\ Unplugging
    BY DEF IInv
  <2>2. IsFiniteSet(Files) /\ Cardinality(Files) \in Nat
    BY ProcsCounted DEF Files
  <2>3. CoreRef = 0 /\ Cardinality(Files) = 0
    BY <2>1, <2>2 DEF References, CoreRef
  <2>4. cpc = "unbound" /\ Files = {}
    BY <2>2, <2>3, FS_EmptySet DEF CoreRef
  <2>5. \A p \in Procs : pc[p] # "opening"
    BY <2>1, <2>4 DEF Unplugging, Deregistered, Withdrawn, Unplugged
  <2>6. writes = 0 /\ reading = 0
    BY <2>1, <2>4 DEF Unplugging, Killed
  <2> QED
    BY <2>4, <2>5, <2>6 DEF NoUseAfterFree, Files
<1> QED
  BY <1>1, InvariantAlways, PTL

\* "this lock makes sure we don't submit URBs to gone devices": once
\* skel_disconnect has set the flag, nobody is at a submission.
THEOREM UsbNoSubmitWhenDisconnected == Spec => []NoSubmitWhenDisconnected
<1>1. IInv => NoSubmitWhenDisconnected
  BY DEF IInv, NoneSubmits, PastCheck, NoSubmitWhenDisconnected
<1> QED
  BY <1>1, InvariantAlways, PTL

\* A reader that gets to submit the read URB, or to copy from its buffer,
\* finds no read in flight.
THEOREM UsbReadUrbIdle == Spec => []ReadUrbIdle
<1>1. IInv => ReadUrbIdle
  BY DEF IInv, ReadIdle, PastWait, ReadUrbIdle
<1> QED
  BY <1>1, InvariantAlways, PTL

\* Between skel_pre_reset and skel_post_reset no URB is in flight.
THEOREM UsbQuietDuringReset == Spec => []QuietDuringReset
<1>1. IInv => QuietDuringReset
  BY DEF IInv, Quiet, QuietDuringReset
<1> QED
  BY <1>1, InvariantAlways, PTL

\* No fault is returned twice by the calls that read and clear dev->errors
\* under err_lock, although skel_read and skel_post_reset do without it.
THEOREM UsbLockedCallsReportOnce == Spec => []LockedCallsReportOnce
<1>1. IInv => LockedCallsReportOnce
  BY DEF IInv, ReportsKnown, Locked, LockedCallsReportOnce, ReportedTwice
<1> QED
  BY <1>1, InvariantAlways, PTL

-----------------------------------------------------------------------------
(* Which steps can lose an error.                                          *)

\* Behind the back of a writer that holds err_lock only a reset can be noted,
\* and behind that of a reader that holds io_mutex none.
Noticed ==
  /\ \A p \in Procs : pc[p] = "w_clear" => errors \in {rv[p], NoError} \/ errors.kind = "reset"
  /\ \A p \in Procs : pc[p] = "r_clear" => errors.kind # "reset" \/ errors = rv[p]

\* What a process reads into rv is what is there, and only three steps clear.
LEMMA ProcessNotices ==
  ASSUME FileTypes, NEW p \in Procs, Choose(p) \/ Proceed(p)
  PROVE  /\ \A q \in Procs : q # p => rv'[q] = rv[q]
         /\ \/ errors' = errors
            \/ errors' = NoError /\ pc'[p] \notin {"w_clear", "r_clear"}
         /\ pc'[p] \in {"w_clear", "r_clear"} => errors' = errors /\ rv'[p] = errors
         /\ errors' # errors => WriteClear(p) \/ ReadClear(p) \/ FlushErrors(p)
<1> USE DEF FileTypes, At, Go
<1>1. CASE Choose(p)
  BY <1>1 DEF Choose, Open, OpenFails, StartWrite, WriteGivesUp, StartRead, ReadGivesUp,
     ReadInterrupted, StartClose
<1>2. CASE OpenGet(p) \/ WriteDown(p) \/ WriteErrors(p)
  BY <1>2 DEF OpenGet, WriteDown, WriteErrors
<1>3. CASE WriteClear(p)
  BY <1>3 DEF WriteClear
<1>4. CASE WriteLock(p) \/ WriteCheck(p) \/ WriteSubmit(p) \/ WriteUp(p)
  BY <1>4 DEF WriteLock, WriteCheck, WriteSubmit, WriteUp
<1>5. CASE ReadLock(p) \/ ReadCheck(p) \/ ReadRetry(p) \/ ReadWait(p) \/ ReadErrors(p)
  BY <1>5 DEF ReadLock, ReadCheck, ReadRetry, ReadWait, ReadErrors
<1>6. CASE ReadClear(p)
  BY <1>6 DEF ReadClear
<1>7. CASE ReadStartIo(p) \/ ReadCopy(p) \/ ReadUnlock(p)
  BY <1>7 DEF ReadStartIo, ReadCopy, ReadUnlock
<1>8. CASE FlushLock(p) \/ FlushDraw(p) \/ Release(p)
  BY <1>8 DEF FlushLock, FlushDraw, Release
<1>9. CASE FlushErrors(p)
  BY <1>9 DEF FlushErrors
<1> QED
  BY <1>1, <1>2, <1>3, <1>4, <1>5, <1>6, <1>7, <1>8, <1>9 DEF Proceed

\* The callbacks note an error when err_lock is free, skel_post_reset while it
\* holds io_mutex.
LEMMA CoreNotices ==
  ASSUME CoreCall \/ CoreProceed \/ Callback
  PROVE  \/ errors' = errors
         \/ err_lock = Nobody /\ errors'.kind \in {"fault", "unlink"}
         \/ cpc = "post_reset" /\ errors'.kind = "reset"
<1>1. CASE CoreCall
  BY <1>1 DEF CoreCall, StartSuspend, StartReset, Unplug
<1>2. CASE PreResetLock \/ CoreDraw \/ PostReset
  BY <1>2 DEF PreResetLock, CoreDraw, PostReset, CoreAt
<1>3. CASE DisconnectIntfdata \/ DisconnectDeregister \/ DisconnectLock
  BY <1>3 DEF DisconnectIntfdata, DisconnectDeregister, DisconnectLock
<1>4. CASE DisconnectUnlock \/ DisconnectKill \/ DisconnectPut
  BY <1>4 DEF DisconnectUnlock, DisconnectKill, DisconnectPut
<1>5. CASE Callback
  BY <1>5 DEF Callback, WriteCallback, ReadCallback, Unlinked
<1> QED
  BY <1>1, <1>2, <1>3, <1>4, <1>5 DEF CoreProceed

LEMMA NoticedKept ==
  ASSUME IInv, Noticed, [Next]_vars
  PROVE  Noticed'
<1>1. FileTypes /\ Mutex /\ ErrLock
  BY DEF IInv, Types
<1>2. ASSUME NEW p \in Procs, Choose(p) \/ Proceed(p)
      PROVE  Noticed'
  <2>1. \A q \in Procs : q # p => pc'[q] = pc[q] /\ rv'[q] = rv[q]
    BY <1>1, <1>2, OthersStay, ProcessNotices
  <2>2. \/ errors' = errors
        \/ errors' = NoError /\ pc'[p] \notin {"w_clear", "r_clear"}
    BY <1>1, <1>2, ProcessNotices
  <2>3. pc'[p] \in {"w_clear", "r_clear"} => errors' = errors /\ rv'[p] = errors
    BY <1>1, <1>2, ProcessNotices
  <2> QED
    BY <2>1, <2>2, <2>3 DEF Noticed, NoError
<1>3. CASE CoreCall \/ CoreProceed \/ Callback
  <2>1. pc' = pc /\ rv' = rv
    BY <1>3, CoreReportsNothing
  <2>2. CASE errors' = errors
    BY <2>1, <2>2 DEF Noticed
  <2>3. CASE err_lock = Nobody /\ errors'.kind \in {"fault", "unlink"}
    BY <1>1, <2>1, <2>3, UsbAssumption DEF Noticed, ErrLock
  <2>4. CASE cpc = "post_reset" /\ errors'.kind = "reset"
    BY <1>1, <2>1, <2>4, UsbAssumption DEF Noticed, Mutex, Inside, CoreInside
  <2> QED
    BY <1>3, <2>2, <2>3, <2>4, CoreNotices
<1>4. CASE UNCHANGED vars
  BY <1>4 DEF vars, fileVars, Noticed
<1> QED
  BY <1>2, <1>3, <1>4 DEF Next

\* What a call reports is among the reports.
LEMMA ReportKept ==
  ASSUME NEW call, NEW e, e # Unlinked, Report(call, e)
  PROVE  \E r \in reports' : r.error = e
<1> DEFINE before == {r \in reports : r.error = e /\ r.call = call}
           report == [error |-> e, call |-> call, nth |-> Cardinality(before) + 1]
<1>1. reports' = reports \cup {report}
  BY DEF Report
<1>2. report.error = e
  OBVIOUS
<1> HIDE DEF report
<1> QED
  BY <1>1, <1>2

\* An error that no call returned is lost only to a skel_read, when a transfer
\* failed, and only to a skel_write, when it notes a reset.
THEOREM UsbErrorLostOnlyInRace == Spec => ErrorLostOnlyInRace
<1> DEFINE Excused == \E p \in Procs :
             \/ errors.kind = "fault" /\ ClearsForAnother(p, "r_clear")
             \/ errors.kind = "reset" /\ ClearsForAnother(p, "w_clear")
<1>1. ASSUME IInv, Noticed, [Next]_vars, ErrorLost PROVE Excused
  <2>1. FileTypes
    BY <1>1 DEF IInv, Types
  <2>2. errors' = NoError /\ errors # NoError /\ errors # Unlinked
        /\ errors.kind \in {"fault", "reset"}
    BY <1>1 DEF ErrorLost, NoError, Unlinked
  <2>3. \A r \in reports' : r.error # errors
    BY <1>1 DEF ErrorLost
  <2>4. ASSUME NEW p \in Procs, Choose(p) \/ Proceed(p) PROVE Excused
    <3>1. WriteClear(p) \/ ReadClear(p) \/ FlushErrors(p)
      BY <2>1, <2>2, <2>4, ProcessNotices
    <3>2. CASE WriteClear(p)
      <4>1. pc[p] = "w_clear" /\ pc'[p] # "w_clear" /\ Report("write", rv[p])
        BY <2>1, <2>2, <3>2 DEF WriteClear, At, Go, FileTypes
      <4>2. rv[p] # errors
        BY <2>2, <2>3, <4>1, ReportKept
      <4>3. errors.kind = "reset"
        BY <1>1, <2>2, <4>1, <4>2 DEF Noticed
      <4> QED
        BY <4>1, <4>2, <4>3 DEF ClearsForAnother
    <3>3. CASE ReadClear(p)
      <4>1. pc[p] = "r_clear" /\ pc'[p] # "r_clear" /\ Report("read", rv[p])
        BY <2>1, <3>3 DEF ReadClear, At, Go, FileTypes
      <4>2. rv[p] # errors
        BY <2>2, <2>3, <4>1, ReportKept
      <4>3. errors.kind = "fault"
        BY <1>1, <2>2, <4>1, <4>2 DEF Noticed
      <4> QED
        BY <4>1, <4>2, <4>3 DEF ClearsForAnother
    <3>4. CASE FlushErrors(p)
      <4>1. Report("flush", errors)
        BY <2>2, <3>4 DEF FlushErrors
      <4> QED
        BY <2>2, <2>3, <4>1, ReportKept
    <3> QED
      BY <3>1, <3>2, <3>3, <3>4
  <2>5. CASE CoreCall \/ CoreProceed \/ Callback
    BY <2>2, <2>5, CoreNotices DEF NoError
  <2>6. CASE UNCHANGED vars
    BY <2>2, <2>6 DEF vars
  <2> QED
    BY <1>1, <2>4, <2>5, <2>6 DEF Next
<1>2. IInv /\ Noticed /\ [Next]_vars => [ErrorLost => Excused]_vars
  BY <1>1
<1>3. Init => Noticed
  BY DEF Init, Noticed
<1>4. IInv /\ Noticed /\ [Next]_vars => Noticed'
  BY NoticedKept
<1> QED
  BY <1>2, <1>3, <1>4, InvariantAlways, PTL DEF Spec, ErrorLostOnlyInRace

=============================================================================
