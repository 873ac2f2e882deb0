------------------------------ MODULE UsbSkel -------------------------------
(***************************************************************************)
(* The USB skeleton driver (usb_skeleton.c): the file operations of the    *)
(* processes that use the device, the completion callbacks of its URBs,    *)
(* and the calls of the USB core (suspend, reset, disconnect), which the   *)
(* core makes one after the other.                                         *)
(*                                                                         *)
(* The steps are cut where another activity can get in between: at every   *)
(* lock operation, and between the accesses to dev->errors, which          *)
(* skel_read and skel_post_reset make without err_lock.                    *)
(***************************************************************************)
EXTENDS Naturals, FiniteSets

CONSTANTS Procs,        \* processes, each with a file of its own
          Core,         \* the USB core, as a holder of locks
          Nobody,       \* no holder of a lock
          WRITES_IN_FLIGHT,
          BulkSize,     \* bytes of bulk_in_buffer
          MaxFaults     \* bound: failed transfers and resets

ASSUME UsbAssumption == /\ IsFiniteSet(Procs) /\ Core \notin Procs
                        /\ Nobody \notin Procs \cup {Core}
                        /\ WRITES_IN_FLIGHT \in Nat \ {0}
                        /\ BulkSize \in Nat \ {0}
                        /\ MaxFaults \in Nat

VARIABLES
  pc,           \* where each process is; "closed" when it has no file
  rv,           \* what a process has read from dev->errors
  count,        \* the count argument of a read
  cpc,          \* where the USB core is
  limit_sem, io_mutex, err_lock,
  errors,       \* dev->errors, with a number that tells faults apart
  ongoing_read, bulk_in_filled, bulk_in_copied,
  disconnected, kref,
  freed,        \* skel_delete has run
  intfdata,     \* the interface still leads to the device
  writes,       \* write URBs submitted and not completed
  reading,      \* 0, or the length of the read URB submitted and not completed
  unlinkWrites, unlinkRead,     \* the URBs are being killed
  gone,         \* the core has disabled the endpoints
  faults,       \* failed transfers and resets so far
  reports,      \* history: the faults that calls returned
  unlinkReported        \* history: some call returned the error of an unlinked URB

fileVars == <<pc, rv, count>>
lockVars == <<limit_sem, io_mutex, err_lock>>
readVars == <<ongoing_read, bulk_in_filled, bulk_in_copied>>
lifeVars == <<disconnected, kref, freed, intfdata>>
urbVars  == <<writes, reading, unlinkWrites, unlinkRead, gone>>
histVars == <<faults, reports, unlinkReported>>
vars == <<fileVars, cpc, lockVars, errors, readVars, lifeVars, urbVars, histVars>>

-----------------------------------------------------------------------------
NoError == [kind |-> "none", id |-> 0]

\* -ENOENT, -ECONNRESET and -ESHUTDOWN: the URB was unlinked
Unlinked == [kind |-> "unlink", id |-> 0]

Error == {NoError, Unlinked} \cup [kind : {"fault", "reset"}, id : 1..MaxFaults]

IdlePc == {"closed", "opening", "idle"}
WritePc == {"w_down", "w_errors", "w_clear", "w_lock", "w_check", "w_submit", "w_up"}
ReadPc == {"r_lock", "r_check", "r_retry", "r_wait", "r_errors", "r_clear", "r_data", "r_unlock"}
ClosePc == {"f_lock", "f_writes", "f_read", "f_errors", "release"}

CorePc == {"bound", "s_writes", "s_read", "p_lock", "p_writes", "p_read", "post_reset",
           "d_shutdown", "d_deregister", "d_lock", "d_unlock",
           "d_kill", "d_put", "unbound"}

\* User processes are frozen while the system is suspended.
Frozen == cpc \in {"s_writes", "s_read"}

At(p, l) == pc[p] = l /\ ~Frozen
Go(p, l) == pc' = [pc EXCEPT ![p] = l]

Smaller(m, n) == IF m < n THEN m ELSE n

\* kref_put: the last reference frees the device.
KrefPut == /\ kref' = kref - 1
           /\ freed' = (kref = 1)

\* A call (skel_read, skel_write or skel_flush) returns error e: the nth time
\* that such a call returns this error.
Report(call, e) ==
  IF e = Unlinked
    THEN unlinkReported' = TRUE /\ UNCHANGED reports
    ELSE LET before == {r \in reports : r.error = e /\ r.call = call}
         IN /\ reports' = reports \cup
                 {[error |-> e, call |-> call, nth |-> Cardinality(before) + 1]}
            /\ UNCHANGED unlinkReported

-----------------------------------------------------------------------------
(* skel_open.  usb_open holds minor_rwsem around it, so that               *)
(* usb_deregister_dev waits for it.                                        *)

Open(p) == /\ At(p, "closed")
           /\ intfdata
           /\ Go(p, "opening")
           /\ UNCHANGED <<rv, count, cpc, lockVars, errors, readVars, lifeVars, urbVars,
                          histVars>>

OpenGet(p) == /\ At(p, "opening")
              /\ kref' = kref + 1
              /\ Go(p, "idle")
              /\ UNCHANGED <<rv, count, cpc, lockVars, errors, readVars, disconnected,
                             freed, intfdata, urbVars, histVars>>

\* usb_autopm_get_interface fails.
OpenFails(p) == /\ At(p, "opening")
                /\ Go(p, "closed")
                /\ UNCHANGED <<rv, count, cpc, lockVars, errors, readVars, lifeVars, urbVars,
                               histVars>>

-----------------------------------------------------------------------------
(* skel_write.                                                             *)

StartWrite(p) == /\ At(p, "idle")
                 /\ Go(p, "w_down")
                 /\ UNCHANGED <<rv, count, cpc, lockVars, errors, readVars, lifeVars,
                                urbVars, histVars>>

WriteDown(p) == /\ At(p, "w_down")
                /\ limit_sem > 0
                /\ limit_sem' = limit_sem - 1
                /\ Go(p, "w_errors")
                /\ UNCHANGED <<rv, count, cpc, io_mutex, err_lock, errors, readVars, lifeVars,
                               urbVars, histVars>>

\* Mutation of WriteGivesUp: leave through the exit that gives a slot back.
WriteGivesUpWithUp(p) == /\ At(p, "w_down")
                         /\ Go(p, "w_up")
                         /\ UNCHANGED <<rv, count, cpc, lockVars, errors, readVars, lifeVars,
                                        urbVars, histVars>>

\* A signal, or -EAGAIN for a nonblocking file when the semaphore is 0.
WriteGivesUp(p) == /\ At(p, "w_down")
                   /\ Go(p, "idle")
                   /\ UNCHANGED <<rv, count, cpc, lockVars, errors, readVars, lifeVars,
                                  urbVars, histVars>>

\* Mutation of WriteErrors: dev->errors is read before err_lock is taken.
WriteErrorsUnlocked(p) == /\ At(p, "w_errors")
                          /\ rv' = [rv EXCEPT ![p] = errors]
                          /\ Go(p, "w_clear")
                          /\ UNCHANGED <<count, cpc, lockVars, errors, readVars, lifeVars,
                                         urbVars, histVars>>

\* Under err_lock: read dev->errors ...
WriteErrors(p) == /\ At(p, "w_errors")
                  /\ err_lock = Nobody
                  /\ err_lock' = p
                  /\ rv' = [rv EXCEPT ![p] = errors]
                  /\ Go(p, "w_clear")
                  /\ UNCHANGED <<count, cpc, limit_sem, io_mutex, errors, readVars, lifeVars,
                                 urbVars, histVars>>

\* ... and clear it if it is an error, which the call then returns.  Without
\* one, the URB and its buffer are allocated, which may fail.
WriteClear(p) ==
  /\ At(p, "w_clear")
  /\ err_lock' = Nobody
  /\ rv' = [rv EXCEPT ![p] = NoError]
  /\ IF rv[p] # NoError
       THEN /\ errors' = NoError
            /\ Report("write", rv[p])
            /\ Go(p, "w_up")
       ELSE /\ UNCHANGED <<errors, reports, unlinkReported>>
            /\ \E to \in {"w_lock", "w_up"} : Go(p, to)
  /\ UNCHANGED <<count, cpc, limit_sem, io_mutex, readVars, lifeVars, urbVars, faults>>

WriteLock(p) == /\ At(p, "w_lock")
                /\ io_mutex = Nobody
                /\ io_mutex' = p
                /\ Go(p, "w_check")
                /\ UNCHANGED <<rv, count, cpc, limit_sem, err_lock, errors, readVars,
                               lifeVars, urbVars, histVars>>

\* disconnected: unlock and fail with -ENODEV.
WriteCheck(p) == /\ At(p, "w_check")
                 /\ IF disconnected
                      THEN io_mutex' = Nobody /\ Go(p, "w_up")
                      ELSE UNCHANGED io_mutex /\ Go(p, "w_submit")
                 /\ UNCHANGED <<rv, count, cpc, limit_sem, err_lock, errors, readVars,
                                lifeVars, urbVars, histVars>>

\* usb_anchor_urb and usb_submit_urb, then unlock.  The submission fails for a
\* disabled endpoint, and may fail for other reasons.
WriteSubmit(p) == /\ At(p, "w_submit")
                  /\ \/ ~gone /\ writes' = writes + 1 /\ Go(p, "idle")
                     \/ UNCHANGED writes /\ Go(p, "w_up")
                  /\ io_mutex' = Nobody
                  /\ UNCHANGED <<rv, count, cpc, limit_sem, err_lock, errors, readVars,
                                 lifeVars, reading, unlinkWrites, unlinkRead, gone,
                                 histVars>>

\* Mutation of WriteUp: an error exit keeps its slot.
WriteUpForgotten(p) == /\ At(p, "w_up")
                       /\ Go(p, "idle")
                       /\ UNCHANGED <<rv, count, cpc, lockVars, errors, readVars, lifeVars,
                                      urbVars, histVars>>

\* The error exits free what was allocated and give the slot back.
WriteUp(p) == /\ At(p, "w_up")
              /\ limit_sem' = limit_sem + 1
              /\ Go(p, "idle")
              /\ UNCHANGED <<rv, count, cpc, io_mutex, err_lock, errors, readVars, lifeVars,
                             urbVars, histVars>>

\* skel_write_bulk_callback
WriteCallback ==
  /\ writes > 0
  /\ \/ UNCHANGED <<errors, faults>>
     \/ /\ err_lock = Nobody
        /\ faults < MaxFaults
        /\ faults' = faults + 1
        /\ errors' = [kind |-> "fault", id |-> faults + 1]
     \/ /\ err_lock = Nobody
        /\ unlinkWrites \/ gone
        /\ errors' = Unlinked
        /\ UNCHANGED faults
  /\ writes' = writes - 1
  /\ limit_sem' = limit_sem + 1
  /\ UNCHANGED <<fileVars, cpc, io_mutex, err_lock, readVars, lifeVars, reading,
                 unlinkWrites, unlinkRead, gone, reports, unlinkReported>>

-----------------------------------------------------------------------------
(* skel_read.                                                              *)

StartRead(p) == /\ At(p, "idle")
                /\ Go(p, "r_lock")
                /\ \E c \in 1..BulkSize : count' = [count EXCEPT ![p] = c]
                /\ UNCHANGED <<rv, cpc, lockVars, errors, readVars, lifeVars, urbVars,
                               histVars>>

ReadLock(p) == /\ At(p, "r_lock")
               /\ io_mutex = Nobody
               /\ io_mutex' = p
               /\ Go(p, "r_check")
               /\ UNCHANGED <<rv, count, cpc, limit_sem, err_lock, errors, readVars,
                              lifeVars, urbVars, histVars>>

\* mutex_lock_interruptible is interrupted.
ReadGivesUp(p) == /\ At(p, "r_lock")
                  /\ Go(p, "idle")
                  /\ count' = [count EXCEPT ![p] = 0]
                  /\ UNCHANGED <<rv, cpc, lockVars, errors, readVars, lifeVars, urbVars,
                                 histVars>>

ReadCheck(p) == /\ At(p, "r_check")
                /\ Go(p, IF disconnected THEN "r_unlock" ELSE "r_retry")
                /\ UNCHANGED <<rv, count, cpc, lockVars, errors, readVars, lifeVars,
                               urbVars, histVars>>

\* retry: under err_lock; a nonblocking file does not wait.
ReadRetry(p) == /\ At(p, "r_retry")
                /\ err_lock = Nobody
                /\ IF ongoing_read
                     THEN \E to \in {"r_wait", "r_unlock"} : Go(p, to)
                     ELSE Go(p, "r_errors")
                /\ UNCHANGED <<rv, count, cpc, lockVars, errors, readVars, lifeVars,
                               urbVars, histVars>>

\* wait_event_interruptible on bulk_in_wait, holding io_mutex
ReadWait(p) == /\ At(p, "r_wait")
               /\ ~ongoing_read
               /\ Go(p, "r_errors")
               /\ UNCHANGED <<rv, count, cpc, lockVars, errors, readVars, lifeVars,
                              urbVars, histVars>>

\* Mutation of ReadInterrupted: the result of the wait is ignored.
ReadInterruptedIgnored(p) == /\ At(p, "r_wait")
                             /\ Go(p, "r_errors")
                             /\ UNCHANGED <<rv, count, cpc, lockVars, errors, readVars,
                                            lifeVars, urbVars, histVars>>

ReadInterrupted(p) == /\ At(p, "r_wait")
                      /\ Go(p, "r_unlock")
                      /\ UNCHANGED <<rv, count, cpc, lockVars, errors, readVars, lifeVars,
                                     urbVars, histVars>>

\* dev->errors is read, and cleared in a second step, without err_lock.
ReadErrors(p) == /\ At(p, "r_errors")
                 /\ rv' = [rv EXCEPT ![p] = errors]
                 /\ Go(p, IF errors # NoError THEN "r_clear" ELSE "r_data")
                 /\ UNCHANGED <<count, cpc, lockVars, errors, readVars, lifeVars, urbVars,
                                histVars>>

ReadClear(p) == /\ At(p, "r_clear")
                /\ errors' = NoError
                /\ Report("read", rv[p])
                /\ rv' = [rv EXCEPT ![p] = NoError]
                /\ Go(p, "r_unlock")
                /\ UNCHANGED <<count, cpc, lockVars, readVars, lifeVars, urbVars, faults>>

\* skel_do_read_io: the submission succeeds or fails.
ReadIoSucceeds(len) == /\ ~gone
                       /\ reading' = len
                       /\ ongoing_read' = TRUE
                       /\ bulk_in_filled' = 0
                       /\ bulk_in_copied' = 0

ReadIoFails == /\ UNCHANGED reading
               /\ ongoing_read' = FALSE
               /\ bulk_in_filled' = 0
               /\ bulk_in_copied' = 0

available == bulk_in_filled - bulk_in_copied

\* No data left: start a read and retry, or fail.
ReadStartIo(p) == /\ At(p, "r_data")
                  /\ available = 0
                  /\ \/ ReadIoSucceeds(Smaller(BulkSize, count[p])) /\ Go(p, "r_retry")
                     \/ ReadIoFails /\ Go(p, "r_unlock")
                  /\ UNCHANGED <<rv, count, cpc, lockVars, errors, lifeVars, writes,
                                 unlinkWrites, unlinkRead, gone, histVars>>

\* Copy what there is; when that is less than was asked for, start the next
\* read and do not wait for it.  copy_to_user may fail: the call then returns
\* -EFAULT, and the bytes count as copied and the next read is started all the
\* same, so that both outcomes are this step.
ReadCopy(p) == /\ At(p, "r_data")
               /\ available > 0
               /\ IF available < count[p]
                    THEN \/ ReadIoSucceeds(Smaller(BulkSize, count[p] - available))
                         \/ ReadIoFails
                    ELSE /\ bulk_in_copied' = bulk_in_copied + count[p]
                         /\ UNCHANGED <<reading, ongoing_read, bulk_in_filled>>
               /\ Go(p, "r_unlock")
               /\ UNCHANGED <<rv, count, cpc, lockVars, errors, lifeVars, writes,
                              unlinkWrites, unlinkRead, gone, histVars>>

\* Mutation of ReadUnlock: skel_read returns with io_mutex held.
ReadUnlockForgotten(p) == /\ At(p, "r_unlock")
                          /\ count' = [count EXCEPT ![p] = 0]
                          /\ Go(p, "idle")
                          /\ UNCHANGED <<rv, cpc, lockVars, errors, readVars, lifeVars,
                                         urbVars, histVars>>

ReadUnlock(p) == /\ At(p, "r_unlock")
                 /\ io_mutex' = Nobody
                 /\ count' = [count EXCEPT ![p] = 0]
                 /\ Go(p, "idle")
                 /\ UNCHANGED <<rv, cpc, limit_sem, err_lock, errors, readVars, lifeVars,
                                urbVars, histVars>>

\* skel_read_bulk_callback, under err_lock
ReadCallback ==
  /\ reading > 0
  /\ err_lock = Nobody
  /\ \/ /\ bulk_in_filled' \in 0..reading
        /\ UNCHANGED <<errors, faults>>
     \/ /\ faults < MaxFaults
        /\ faults' = faults + 1
        /\ errors' = [kind |-> "fault", id |-> faults + 1]
        /\ UNCHANGED bulk_in_filled
     \/ /\ unlinkRead \/ gone
        /\ errors' = Unlinked
        /\ UNCHANGED <<bulk_in_filled, faults>>
  /\ ongoing_read' = FALSE
  /\ reading' = 0
  /\ UNCHANGED <<fileVars, cpc, lockVars, bulk_in_copied, lifeVars, writes, unlinkWrites,
                 unlinkRead, gone, reports, unlinkReported>>

-----------------------------------------------------------------------------
(* skel_draw_down in two steps: wait for the writes and kill those that do *)
(* not finish in time, then kill the read.  Killing waits for callbacks.   *)

DrawWrites == /\ \/ writes = 0 /\ unlinkWrites' = FALSE
                 \/ writes > 0 /\ ~unlinkWrites /\ unlinkWrites' = TRUE
              /\ UNCHANGED <<writes, reading, unlinkRead, gone>>

DrawRead == /\ \/ reading = 0 /\ unlinkRead' = FALSE
               \/ reading > 0 /\ ~unlinkRead /\ unlinkRead' = TRUE
            /\ UNCHANGED <<writes, reading, unlinkWrites, gone>>

(* close: skel_flush, then skel_release.                                   *)

StartClose(p) == /\ At(p, "idle")
                 /\ Go(p, "f_lock")
                 /\ UNCHANGED <<rv, count, cpc, lockVars, errors, readVars, lifeVars,
                                urbVars, histVars>>

FlushLock(p) == /\ At(p, "f_lock")
                /\ io_mutex = Nobody
                /\ io_mutex' = p
                /\ Go(p, "f_writes")
                /\ UNCHANGED <<rv, count, cpc, limit_sem, err_lock, errors, readVars,
                               lifeVars, urbVars, histVars>>

FlushDraw(p) == /\ \/ At(p, "f_writes") /\ DrawWrites
                      /\ Go(p, IF writes = 0 THEN "f_read" ELSE "f_writes")
                   \/ At(p, "f_read") /\ DrawRead
                      /\ Go(p, IF reading = 0 THEN "f_errors" ELSE "f_read")
                /\ UNCHANGED <<rv, count, cpc, lockVars, errors, readVars, lifeVars,
                               histVars>>

\* Under err_lock: return the error and leave none; then unlock.
FlushErrors(p) == /\ At(p, "f_errors")
                  /\ err_lock = Nobody
                  /\ errors' = NoError
                  /\ IF errors # NoError THEN Report("flush", errors) ELSE UNCHANGED <<reports, unlinkReported>>
                  /\ io_mutex' = Nobody
                  /\ Go(p, "release")
                  /\ UNCHANGED <<rv, count, cpc, limit_sem, err_lock, readVars, lifeVars,
                                 urbVars, faults>>

Release(p) == /\ At(p, "release")
              /\ KrefPut
              /\ Go(p, "closed")
              /\ UNCHANGED <<rv, count, cpc, lockVars, errors, readVars, disconnected,
                             intfdata, urbVars, histVars>>

-----------------------------------------------------------------------------
(* The USB core.                                                           *)

CoreAt(from, to) == cpc = from /\ cpc' = to

\* skel_suspend, once no process is in the driver: no lock is taken.
StartSuspend == /\ CoreAt("bound", "s_writes")
                /\ \A p \in Procs : pc[p] \in {"closed", "idle"}
                /\ UNCHANGED <<fileVars, lockVars, errors, readVars, lifeVars, urbVars,
                               histVars>>

\* skel_pre_reset takes io_mutex and keeps it until skel_post_reset.
StartReset == /\ CoreAt("bound", "p_lock")
              /\ faults < MaxFaults
              /\ faults' = faults + 1
              /\ UNCHANGED <<fileVars, lockVars, errors, readVars, lifeVars, urbVars,
                             reports, unlinkReported>>

\* Mutation of PreResetLock: the writers are not kept out.
PreResetNoLock == /\ CoreAt("p_lock", "p_writes")
                  /\ UNCHANGED <<fileVars, lockVars, errors, readVars, lifeVars, urbVars,
                                 histVars>>

PreResetLock == /\ CoreAt("p_lock", "p_writes")
                /\ io_mutex = Nobody
                /\ io_mutex' = Core
                /\ UNCHANGED <<fileVars, limit_sem, err_lock, errors, readVars, lifeVars,
                               urbVars, histVars>>

CoreDraw == /\ \/ /\ cpc \in {"s_writes", "p_writes"}
                  /\ DrawWrites
                  /\ cpc' = IF writes > 0 THEN cpc
                            ELSE IF cpc = "s_writes" THEN "s_read" ELSE "p_read"
               \/ /\ cpc \in {"s_read", "p_read"}
                  /\ DrawRead
                  /\ cpc' = IF reading > 0 THEN cpc
                            ELSE IF cpc = "s_read" THEN "bound" ELSE "post_reset"
            /\ UNCHANGED <<fileVars, lockVars, errors, readVars, lifeVars, histVars>>

\* skel_post_reset writes dev->errors without err_lock.
PostReset == /\ CoreAt("post_reset", "bound")
             /\ errors' = [kind |-> "reset", id |-> faults]
             /\ io_mutex' = Nobody
             /\ UNCHANGED <<fileVars, limit_sem, err_lock, readVars, lifeVars, urbVars,
                            histVars>>

\* The device is unplugged: the core disables the endpoints, which completes
\* the URBs in flight, and calls skel_disconnect.
Unplug == /\ CoreAt("bound", "d_shutdown")
          /\ gone' = TRUE
          /\ UNCHANGED <<fileVars, lockVars, errors, readVars, lifeVars, writes, reading,
                         unlinkWrites, unlinkRead, histVars>>

DisconnectIntfdata == /\ CoreAt("d_shutdown", "d_deregister")
                      /\ intfdata' = FALSE
                      /\ UNCHANGED <<fileVars, lockVars, errors, readVars, disconnected,
                                     kref, freed, urbVars, histVars>>

\* Mutation of DisconnectDeregister: it does not wait for an open that has
\* found the device and not yet taken its reference.
DisconnectDeregisterAtOnce == /\ CoreAt("d_deregister", "d_lock")
                              /\ UNCHANGED <<fileVars, lockVars, errors, readVars, lifeVars,
                                             urbVars, histVars>>

\* usb_deregister_dev waits for the opens that are under way.
DisconnectDeregister == /\ CoreAt("d_deregister", "d_lock")
                        /\ \A p \in Procs : pc[p] # "opening"
                        /\ UNCHANGED <<fileVars, lockVars, errors, readVars, lifeVars,
                                       urbVars, histVars>>

\* Mutation of DisconnectLock: the flag is set without io_mutex.
DisconnectNoLock == /\ CoreAt("d_lock", "d_kill")
                    /\ disconnected' = TRUE
                    /\ UNCHANGED <<fileVars, lockVars, errors, readVars, kref, freed,
                                   intfdata, urbVars, histVars>>

DisconnectLock == /\ CoreAt("d_lock", "d_unlock")
                  /\ io_mutex = Nobody
                  /\ io_mutex' = Core
                  /\ disconnected' = TRUE
                  /\ UNCHANGED <<fileVars, limit_sem, err_lock, errors, readVars, kref,
                                 freed, intfdata, urbVars, histVars>>

DisconnectUnlock == /\ CoreAt("d_unlock", "d_kill")
                    /\ io_mutex' = Nobody
                    /\ UNCHANGED <<fileVars, limit_sem, err_lock, errors, readVars,
                                   lifeVars, urbVars, histVars>>

\* usb_kill_urb and usb_kill_anchored_urbs
DisconnectKill == /\ cpc = "d_kill"
                  /\ IF writes = 0 /\ reading = 0
                       THEN cpc' = "d_put" /\ UNCHANGED <<unlinkWrites, unlinkRead>>
                       ELSE /\ ~(unlinkWrites /\ unlinkRead)
                            /\ unlinkWrites' = TRUE /\ unlinkRead' = TRUE
                            /\ UNCHANGED cpc
                  /\ UNCHANGED <<fileVars, lockVars, errors, readVars, lifeVars, writes,
                                 reading, gone, histVars>>

DisconnectPut == /\ CoreAt("d_put", "unbound")
                 /\ KrefPut
                 /\ UNCHANGED <<fileVars, lockVars, errors, readVars, disconnected,
                                intfdata, urbVars, histVars>>

-----------------------------------------------------------------------------
\* The device right after skel_probe.
Init == /\ pc = [p \in Procs |-> "closed"]
        /\ rv = [p \in Procs |-> NoError]
        /\ count = [p \in Procs |-> 0]
        /\ cpc = "bound"
        /\ limit_sem = WRITES_IN_FLIGHT /\ io_mutex = Nobody /\ err_lock = Nobody
        /\ errors = NoError
        /\ ongoing_read = FALSE /\ bulk_in_filled = 0 /\ bulk_in_copied = 0
        /\ disconnected = FALSE /\ kref = 1 /\ freed = FALSE /\ intfdata = TRUE
        /\ writes = 0 /\ reading = 0 /\ unlinkWrites = FALSE /\ unlinkRead = FALSE
        /\ gone = FALSE
        /\ faults = 0 /\ reports = {} /\ unlinkReported = FALSE

\* A process decides to do something, or a signal or an allocation failure
\* makes a call return early.
Choose(p) == \/ Open(p) \/ OpenFails(p)
             \/ StartWrite(p) \/ WriteGivesUp(p)
             \/ StartRead(p) \/ ReadGivesUp(p) \/ ReadInterrupted(p)
             \/ StartClose(p)

\* A call that is under way goes on.
Proceed(p) == \/ OpenGet(p)
              \/ WriteDown(p) \/ WriteErrors(p) \/ WriteClear(p) \/ WriteLock(p)
              \/ WriteCheck(p) \/ WriteSubmit(p) \/ WriteUp(p)
              \/ ReadLock(p) \/ ReadCheck(p) \/ ReadRetry(p) \/ ReadWait(p)
              \/ ReadErrors(p) \/ ReadClear(p) \/ ReadStartIo(p) \/ ReadCopy(p)
              \/ ReadUnlock(p)
              \/ FlushLock(p) \/ FlushDraw(p) \/ FlushErrors(p) \/ Release(p)

CoreCall == StartSuspend \/ StartReset \/ Unplug

CoreProceed == \/ PreResetLock \/ CoreDraw \/ PostReset
               \/ DisconnectIntfdata \/ DisconnectDeregister \/ DisconnectLock
               \/ DisconnectUnlock \/ DisconnectKill \/ DisconnectPut

Callback == WriteCallback \/ ReadCallback

Next == \/ \E p \in Procs : Choose(p) \/ Proceed(p)
        \/ CoreCall \/ CoreProceed
        \/ Callback

Spec == Init /\ [][Next]_vars

\* The host controller gives back the URBs that are killed.
Giveback == \/ WriteCallback /\ (gone \/ unlinkWrites)
            \/ ReadCallback /\ (gone \/ unlinkRead)

\* Calls, the core's work and the callbacks go on when they can.  What can
\* stop them again and again is a lock that others take in between; mutexes,
\* spinlocks and semaphores of the kernel serve their waiters in turn, so one
\* that is free again and again for a waiter is granted to it.
FairSpec == /\ Spec
            /\ \A p \in Procs : SF_vars(Proceed(p))
            /\ SF_vars(CoreProceed)
            /\ SF_vars(Giveback)

-----------------------------------------------------------------------------
\* Types of the variables; limit_sem never exceeds its initial value.
TypeOK == /\ pc \in [Procs -> IdlePc \cup WritePc \cup ReadPc \cup ClosePc]
          /\ rv \in [Procs -> Error]
          /\ count \in [Procs -> 0..BulkSize]
          /\ cpc \in CorePc
          /\ limit_sem \in 0..WRITES_IN_FLIGHT
          /\ io_mutex \in Procs \cup {Core, Nobody}
          /\ err_lock \in Procs \cup {Nobody}
          /\ errors \in Error
          /\ ongoing_read \in BOOLEAN
          /\ bulk_in_filled \in 0..BulkSize /\ bulk_in_copied \in 0..BulkSize
          /\ disconnected \in BOOLEAN /\ kref \in Nat /\ freed \in BOOLEAN
          /\ intfdata \in BOOLEAN
          /\ writes \in 0..WRITES_IN_FLIGHT /\ reading \in 0..BulkSize
          /\ unlinkWrites \in BOOLEAN /\ unlinkRead \in BOOLEAN /\ gone \in BOOLEAN
          /\ faults \in 0..MaxFaults
          /\ reports \subseteq [error : Error, call : {"read", "write", "flush"}, nth : Nat]
          /\ unlinkReported \in BOOLEAN

\* A process that has been granted a slot of limit_sem and not yet handed it
\* to a URB or given it back.
HoldsSlot(p) == pc[p] \in WritePc \ {"w_down"}

\* The slots of limit_sem are exactly accounted for: on every exit of
\* skel_write and in every completion, also when the device goes away, one
\* slot comes back for each that was taken.
SlotsConserved ==
  limit_sem + writes + Cardinality({p \in Procs : HoldsSlot(p)}) = WRITES_IN_FLIGHT

\* skel_delete runs only when nobody can reach the device any more: no file
\* is open, no URB is in flight and the core has let go of it.
NoUseAfterFree ==
  freed => /\ \A p \in Procs : pc[p] = "closed"
           /\ writes = 0 /\ reading = 0
           /\ cpc = "unbound"

\* "this lock makes sure we don't submit URBs to gone devices": at the point
\* where a URB is submitted, disconnect has not marked the device.
NoSubmitWhenDisconnected ==
  disconnected => \A p \in Procs : pc[p] \notin {"w_submit", "r_data"}

\* The single read URB is submitted only while it is idle: a reader that gets
\* to start a read or to copy from the buffer finds no transfer into it.
ReadUrbIdle == \A p \in Procs : pc[p] \in {"r_clear", "r_data"} => reading = 0

\* "we are sure no URBs are active": between skel_pre_reset and
\* skel_post_reset nothing is in flight, whatever the writers do.
QuietDuringReset == cpc = "post_reset" => writes = 0 /\ reading = 0

\* Two calls return one and the same fault.
ReportedTwice(r, s) == r # s /\ r.error = s.error

\* skel_write and skel_flush read and clear dev->errors under err_lock: between
\* them no fault is returned twice, whatever skel_read and skel_post_reset do
\* to dev->errors without the lock.
LockedCallsReportOnce ==
  \A r, s \in reports : r.call # "read" /\ s.call # "read" => ~ReportedTwice(r, s)

\* This step clears dev->errors, and no call has returned what was in it.
ErrorLost == /\ errors.kind \in {"fault", "reset"} /\ errors' = NoError
             /\ \A r \in reports' : r.error # errors

\* This step takes p on from place l, where it clears dev->errors for another
\* error than the one that is there now.
ClearsForAnother(p, l) == pc[p] = l /\ pc'[p] # l /\ rv[p] # errors

\* An error that no call returned is cleared in two races only: that of a
\* failed transfer by a skel_read (which does not take err_lock), and the
\* notification of a reset by a skel_write (which does not take io_mutex, while
\* skel_post_reset does not take err_lock).  So no writer and no flush loses
\* the failure of a transfer, and no reader and no flush that of a reset.
ErrorLostOnlyInRace ==
  [][ErrorLost => \E p \in Procs :
       \/ errors.kind = "fault" /\ ClearsForAnother(p, "r_clear")
       \/ errors.kind = "reset" /\ ClearsForAnother(p, "w_clear")]_vars

\* When the device is unplugged, skel_disconnect gets to its end, also when
\* readers and writers hold or wait for io_mutex at that time.
DisconnectCompletes == cpc = "d_shutdown" ~> cpc = "unbound"

\* "any error is reported once" (skel_read, skel_write): no fault is returned
\* by two calls.
ErrorReportedOnce == \A r, s \in reports : ~ReportedTwice(r, s)

\* "sync/async unlink faults aren't errors": no call returns an error because
\* a URB was unlinked.
UnlinkIsNoError == ~unlinkReported
=============================================================================
