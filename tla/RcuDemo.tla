------------------------------ MODULE RcuDemo -------------------------------
(***************************************************************************)
(* The RCU demonstration module (rcu_demo.c).  A reader and an updater     *)
(* share g_pfoo, another pair shares the one entry of g_rcu_list; call_rcu *)
(* gives back old objects of the first, synchronize_rcu and kfree those of *)
(* the second.  The loader runs module_init and module_exit.               *)
(*                                                                         *)
(* A cell is one of the two shared places.  The fields of an object hold   *)
(* the number of the update that set them, 0 for the zeroes of kzalloc.    *)
(***************************************************************************)
EXTENDS Naturals, FiniteSets

CONSTANTS Objs,         \* blocks of memory
          NULL,
          Fields,       \* the fields of struct foo a reader prints
          Reads,        \* bound: the 100 iterations of each reader
          Updates       \* bound: the 100 iterations of each updater

ASSUME RcuAssumption == /\ IsFiniteSet(Objs) /\ NULL \notin Objs
                        /\ IsFiniteSet(Fields) /\ Fields # {}
                        /\ Reads \in Nat \ {0} /\ Updates \in Nat \ {0}

Cells == {"g_pfoo", "g_rcu_list"}

VARIABLES
  mem,          \* the blocks that are allocated
  foo,          \* the fields of each block
  fault,        \* freed memory was used: nothing is known of what follows
  cell,         \* what g_pfoo and the list point to
  version,      \* how many updates each cell has seen
  reader,       \* per cell: pc, iterations left, object, fields printed so
                \*   far, and the version its section began with (history)
  updater,      \* per cell: pc, iterations left, the two objects, and the
                \*   readers its synchronize_rcu waits for
  callbacks,    \* of call_rcu: the object, and the readers it waits for
  main          \* where the loader is

heapVars == <<mem, foo, fault>>
cellVars == <<cell, version>>
vars == <<heapVars, cellVars, reader, updater, callbacks, main>>

Version == 0..Updates

\* Whatever memory that was given back may hold.
Garbage == Updates + 1

\* kzalloc.  A block something still points to is not handed out, so that its
\* use shows as the use of freed memory.
Alloc(o) == /\ o \notin mem
            /\ \A c \in Cells : o \notin {cell[c], reader[c].p, updater[c].old}
            /\ mem' = mem \cup {o}
            /\ foo' = [foo EXCEPT ![o] = [f \in Fields |-> 0]]
            /\ UNCHANGED fault

\* kfree; of NULL it does nothing.
Free(o) == /\ mem' = mem \ {o}
           /\ fault' = (o \notin mem \cup {NULL})
           /\ UNCHANGED foo

\* The read-side critical sections a grace period that starts now waits for.
Readers == {c \in Cells : reader[c].pc \in {"locked", "reading"}}

-----------------------------------------------------------------------------
(* rcu_reader and rcu_reader_list                                          *)

ReaderAt(c, place) == ~fault /\ reader[c].pc = place

ReadLock(c) ==
  /\ ReaderAt(c, "sleep") /\ reader[c].cnt > 0
  /\ reader' = [reader EXCEPT ![c].pc = "locked", ![c].cnt = @ - 1, ![c].base = version[c]]
  /\ UNCHANGED <<heapVars, cellVars, updater, callbacks, main>>

\* rcu_dereference, or the first step of list_for_each_entry_rcu
ReadDereference(c) ==
  /\ ReaderAt(c, "locked") /\ cell[c] # NULL
  /\ reader' = [reader EXCEPT ![c].pc = "reading", ![c].p = cell[c]]
  /\ UNCHANGED <<heapVars, cellVars, updater, callbacks, main>>

\* One argument of pr_info
ReadField(c) ==
  /\ ReaderAt(c, "reading")
  /\ fault' = (reader[c].p \notin mem)
  /\ \E f \in Fields \ DOMAIN reader[c].seen :
       LET v == IF fault' THEN Garbage ELSE foo[reader[c].p][f]
       IN reader' = [reader EXCEPT ![c].seen =
                       [g \in DOMAIN @ \cup {f} |-> IF g = f THEN v ELSE @[g]]]
  /\ UNCHANGED <<mem, foo, cellVars, updater, callbacks, main>>

LeaveSection(c, to) ==
  reader' = [reader EXCEPT ![c].pc = to, ![c].p = NULL, ![c].seen = <<>>, ![c].base = 0]

\* No grace period waits for a reader that has left.
RcuReadUnlock(c) ==
  /\ updater' = [d \in Cells |-> [updater[d] EXCEPT !.waits = @ \ {c}]]
  /\ callbacks' = {[b EXCEPT !.waits = @ \ {c}] : b \in callbacks}

\* Everything is printed, or the list was empty.
ReadDone(c) == \/ ReaderAt(c, "reading") /\ DOMAIN reader[c].seen = Fields
               \/ ReaderAt(c, "locked") /\ c = "g_rcu_list" /\ cell[c] = NULL

\* Mutation of ReadUnlock: rcu_read_unlock is not called.
ReadUnlockForgotten(c) == /\ ReadDone(c)
                          /\ LeaveSection(c, "sleep")
                          /\ UNCHANGED <<heapVars, cellVars, updater, callbacks, main>>

ReadUnlock(c) == /\ ReadDone(c)
                 /\ LeaveSection(c, "sleep")
                 /\ RcuReadUnlock(c)
                 /\ UNCHANGED <<heapVars, cellVars, main>>

\* The reader of g_pfoo does not test it: before module_init has set it the
\* thread oopses.
ReadNull(c) == /\ ReaderAt(c, "locked") /\ c = "g_pfoo" /\ cell[c] = NULL
               /\ LeaveSection(c, "dead")
               /\ RcuReadUnlock(c)
               /\ UNCHANGED <<heapVars, cellVars, main>>

-----------------------------------------------------------------------------
(* rcu_updater and rcu_updater_list                                        *)

UpdaterAt(c, place) == ~fault /\ updater[c].pc = place

\* Mutation of UpdateAlloc: the count is not looked at.
UpdateAllocAlways(c) ==
  /\ UpdaterAt(c, "sleep")
  /\ \E o \in Objs : /\ Alloc(o)
                     /\ updater' = [updater EXCEPT ![c].pc = "copy", ![c].cnt = @ - 1,
                                                   ![c].new = o]
  /\ UNCHANGED <<cellVars, reader, callbacks, main>>

UpdateAlloc(c) ==
  /\ UpdaterAt(c, "sleep") /\ updater[c].cnt > 0
  /\ \E o \in Objs : /\ Alloc(o)
                     /\ updater' = [updater EXCEPT ![c].pc = "copy", ![c].cnt = @ - 1,
                                                   ![c].new = o]
  /\ UNCHANGED <<cellVars, reader, callbacks, main>>

\* old = g_pfoo; *new = *g_pfoo, and the same with the first entry of the list
UpdateCopy(c) ==
  /\ UpdaterAt(c, "copy") /\ cell[c] # NULL
  /\ updater' = [updater EXCEPT ![c].pc = "set", ![c].old = cell[c]]
  /\ foo' = [foo EXCEPT ![updater[c].new] = foo[cell[c]]]
  /\ fault' = (cell[c] \notin mem)
  /\ UNCHANGED <<mem, cellVars, reader, callbacks, main>>

\* Neither updater tests the pointer it copies from.
UpdateNull(c) ==
  /\ UpdaterAt(c, "copy") /\ cell[c] = NULL
  /\ updater' = [updater EXCEPT ![c].pc = "dead"]
  /\ UNCHANGED <<heapVars, cellVars, reader, callbacks, main>>

SetFields(c, o) == /\ UpdaterAt(c, "set")
                   /\ updater' = [updater EXCEPT ![c].pc = "publish"]
                   /\ foo' = [foo EXCEPT ![o] = [f \in Fields |-> version[c] + 1]]
                   /\ UNCHANGED <<mem, fault, cellVars, reader, callbacks, main>>

\* Mutation of UpdateSet: the object that readers use is changed.
UpdateSetInPlace(c) == SetFields(c, updater[c].old)

\* new->a = value and so on: no reader sees the object yet.
UpdateSet(c) == SetFields(c, updater[c].new)

\* rcu_assign_pointer, list_replace_rcu
UpdatePublish(c) ==
  /\ UpdaterAt(c, "publish")
  /\ updater' = [updater EXCEPT ![c].pc = "reclaim"]
  /\ cell' = [cell EXCEPT ![c] = updater[c].new]
  /\ version' = [version EXCEPT ![c] = @ + 1]
  /\ UNCHANGED <<heapVars, reader, callbacks, main>>

UpdateDone(c) == updater' = [updater EXCEPT ![c].pc = "sleep", ![c].old = NULL, ![c].new = NULL]

\* Mutation of CallRcu: the old object is freed at once.
CallRcuFrees(c) == /\ UpdaterAt(c, "reclaim") /\ c = "g_pfoo"
                   /\ Free(updater[c].old)
                   /\ UpdateDone(c)
                   /\ UNCHANGED <<cellVars, reader, callbacks, main>>

HandOver(c, o) == /\ UpdaterAt(c, "reclaim") /\ c = "g_pfoo"
                  /\ callbacks' = callbacks \cup {[obj |-> o, waits |-> Readers]}
                  /\ UpdateDone(c)
                  /\ UNCHANGED <<heapVars, cellVars, reader, main>>

\* Mutation of CallRcu: the new object is handed over.
CallRcuNew(c) == HandOver(c, updater[c].new)

\* call_rcu(&old->rcu, rcu_reclaimer)
CallRcu(c) == HandOver(c, updater[c].old)

\* synchronize_rcu begins.
SynchronizeRcu(c) ==
  /\ UpdaterAt(c, "reclaim") /\ c = "g_rcu_list"
  /\ updater' = [updater EXCEPT ![c].pc = "synchronize", ![c].waits = Readers]
  /\ UNCHANGED <<heapVars, cellVars, reader, callbacks, main>>

\* synchronize_rcu returns; kfree(p)
SynchronizedFree(c) == /\ UpdaterAt(c, "synchronize") /\ updater[c].waits = {}
                       /\ Free(updater[c].old)
                       /\ UpdateDone(c)
                       /\ UNCHANGED <<cellVars, reader, callbacks, main>>

\* rcu_reclaimer, when the grace period of its object is over
Reclaimer == \E b \in callbacks : /\ ~fault /\ main # "unloaded" /\ b.waits = {}
                                  /\ Free(b.obj)
                                  /\ callbacks' = callbacks \ {b}
                                  /\ UNCHANGED <<cellVars, reader, updater, main>>

\* module_exit does not wait for the callbacks (there is no rcu_barrier): one
\* that is still due is code that is no longer there.
ReclaimerGone == \E b \in callbacks : /\ ~fault /\ main = "unloaded" /\ b.waits = {}
                                      /\ fault' = TRUE
                                      /\ UNCHANGED <<mem, foo, cellVars, reader, updater,
                                                     callbacks, main>>

-----------------------------------------------------------------------------
(* rcu_test_init and rcu_test_exit                                         *)

Main(from, to) == ~fault /\ main = from /\ main' = to

\* kthread_run of the four threads
StartThreads == /\ Main("kthread_run", "g_pfoo")
                /\ reader' = [c \in Cells |-> [reader[c] EXCEPT !.pc = "sleep"]]
                /\ updater' = [c \in Cells |-> [updater[c] EXCEPT !.pc = "sleep"]]
                /\ UNCHANGED <<heapVars, cellVars, callbacks>>

\* The threads run already when the objects are made.
InitCell(c) ==
  /\ IF c = "g_pfoo" THEN Main("g_pfoo", "g_rcu_list") ELSE Main("g_rcu_list", "loaded")
  /\ \E o \in Objs : Alloc(o) /\ cell' = [cell EXCEPT ![c] = o]
  /\ UNCHANGED <<version, reader, updater, callbacks>>

\* rcu_test_exit gives both objects back before it stops the threads.
ExitFree(c) ==
  /\ IF c = "g_pfoo" THEN Main("loaded", "free_list") ELSE Main("free_list", "stop")
  /\ Free(cell[c])
  /\ UNCHANGED <<cellVars, reader, updater, callbacks>>

\* kthread_stop waits for each thread, which runs to its own end.
Ended(thread) == thread.pc = "dead" \/ (thread.pc = "sleep" /\ thread.cnt = 0)

ExitStop == /\ Main("stop", "unloaded")
            /\ \A c \in Cells : Ended(reader[c]) /\ Ended(updater[c])
            /\ UNCHANGED <<heapVars, cellVars, reader, updater, callbacks>>

-----------------------------------------------------------------------------
Init == /\ mem = {} /\ foo = [o \in Objs |-> [f \in Fields |-> 0]] /\ fault = FALSE
        /\ cell = [c \in Cells |-> NULL] /\ version = [c \in Cells |-> 0]
        /\ reader = [c \in Cells |-> [pc |-> "none", cnt |-> Reads, p |-> NULL,
                                      seen |-> <<>>, base |-> 0]]
        /\ updater = [c \in Cells |-> [pc |-> "none", cnt |-> Updates, old |-> NULL,
                                       new |-> NULL, waits |-> {}]]
        /\ callbacks = {}
        /\ main = "kthread_run"

Reader(c) == \/ ReadLock(c) \/ ReadDereference(c) \/ ReadField(c) \/ ReadUnlock(c)
             \/ ReadNull(c)

Updater(c) == \/ UpdateAlloc(c) \/ UpdateCopy(c) \/ UpdateNull(c) \/ UpdateSet(c)
              \/ UpdatePublish(c) \/ CallRcu(c) \/ SynchronizeRcu(c) \/ SynchronizedFree(c)

Loader == \/ StartThreads
          \/ \E c \in Cells : InitCell(c) \/ ExitFree(c)
          \/ ExitStop

Next == \/ \E c \in Cells : Reader(c) \/ Updater(c)
        \/ Reclaimer \/ ReclaimerGone
        \/ Loader

Spec == Init /\ [][Next]_vars

-----------------------------------------------------------------------------
\* Types of the variables.
TypeOK ==
  /\ mem \subseteq Objs /\ foo \in [Objs -> [Fields -> Version]] /\ fault \in BOOLEAN
  /\ cell \in [Cells -> Objs \cup {NULL}] /\ version \in [Cells -> Version]
  /\ \A c \in Cells :
       /\ reader[c].pc \in {"none", "sleep", "locked", "reading", "dead"}
       /\ reader[c].cnt \in 0..Reads /\ reader[c].p \in Objs \cup {NULL}
       /\ DOMAIN reader[c].seen \subseteq Fields /\ reader[c].base \in Version
       /\ updater[c].pc \in {"none", "sleep", "copy", "set", "publish", "reclaim",
                             "synchronize", "dead"}
       /\ updater[c].cnt \in 0..Updates /\ updater[c].waits \subseteq Cells
       /\ {updater[c].old, updater[c].new} \subseteq Objs \cup {NULL}
  /\ callbacks \subseteq [obj : Objs, waits : SUBSET Cells]
  /\ main \in {"kthread_run", "g_pfoo", "g_rcu_list", "loaded", "free_list", "stop",
               "unloaded"}

\* What a reader reads between rcu_read_lock and rcu_read_unlock is one
\* version, no older than the one that was current when it entered, whatever
\* the updater does meanwhile: the data before the update or after it, never a
\* mixture and never memory that was given back.
OldOrNew ==
  \A c \in Cells : \E v \in reader[c].base..version[c] :
    \A f \in DOMAIN reader[c].seen : reader[c].seen[f] = v

\* module_exit has begun to give the objects back.
Unloading == main \in {"free_list", "stop", "unloaded"}

\* Until the module is unloaded, a reader sees one current version.
LoadedOldOrNew == ~Unloading => OldOrNew

\* Until the module is unloaded, no reader and no updater holds an object
\* whose memory was given back.
NoUseAfterFree ==
  ~Unloading =>
    \A c \in Cells : /\ reader[c].pc = "reading" => reader[c].p \in mem
                     /\ updater[c].pc \in {"set", "publish", "reclaim", "synchronize"}
                          => updater[c].old \in mem

\* Until the module is unloaded, every allocated object is in use in exactly
\* one way: published, in an updater's hands, or waiting for its grace period;
\* nothing leaks, and nothing that is to be freed is still published.  (An
\* updater that died keeps its new object for ever.)
Held(c) == (IF updater[c].pc \in {"copy", "set", "publish", "dead"}
              THEN {updater[c].new} ELSE {})
           \cup (IF updater[c].pc \in {"reclaim", "synchronize"} THEN {updater[c].old} ELSE {})

MemoryAccounted ==
  ~Unloading =>
    LET published == {cell[c] : c \in Cells} \ {NULL}
        held      == UNION {Held(c) : c \in Cells}
    IN /\ mem = published \cup held \cup {b.obj : b \in callbacks}
       /\ Cardinality(mem) = Cardinality(published) + Cardinality(held)
                             + Cardinality(callbacks)

\* A grace period waits only for readers that are still inside the section
\* they were in when it began: no reader that has left, finished or died holds
\* up synchronize_rcu or the call of rcu_reclaimer.
WaitsForReaders == /\ \A c \in Cells : updater[c].waits \subseteq Readers
                   /\ \A b \in callbacks : b.waits \subseteq Readers
=============================================================================
