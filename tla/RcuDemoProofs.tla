--------------------------- MODULE RcuDemoProofs ----------------------------
(***************************************************************************)
(* For any blocks of memory, any fields and any numbers of reads and       *)
(* updates: the types of the RCU demonstration, that its grace periods     *)
(* wait only for readers inside their sections, and, until the module is   *)
(* unloaded, that memory is given back only when nobody holds it, that     *)
(* readers see one version, and that nothing leaks.                        *)
(*                                                                         *)
(* The invariant behind the last three says that every allocated block     *)
(* plays exactly one role (Ownership), and that the block in a reader's    *)
(* hands is published, or about to be handed over, or waits for a grace    *)
(* period that waits for this reader (Protected).                          *)
(***************************************************************************)
EXTENDS RcuDemo, FiniteSetTheorems, TLAPS

\* What a reader has printed so far.
Printed == UNION {[D -> 0..Garbage] : D \in SUBSET Fields}

ReaderType == [pc : {"none", "sleep", "locked", "reading", "dead"}, cnt : 0..Reads,
               p : Objs \cup {NULL}, seen : Printed, base : Version]

UpdaterType == [pc : {"none", "sleep", "copy", "set", "publish", "reclaim",
                      "synchronize", "dead"},
                cnt : 0..Updates, old : Objs \cup {NULL}, new : Objs \cup {NULL},
                waits : SUBSET Cells]

Types ==
  /\ mem \subseteq Objs /\ foo \in [Objs -> [Fields -> Version]] /\ fault \in BOOLEAN
  /\ cell \in [Cells -> Objs \cup {NULL}] /\ version \in [Cells -> Version]
  /\ reader \in [Cells -> ReaderType] /\ updater \in [Cells -> UpdaterType]
  /\ callbacks \subseteq [obj : Objs, waits : SUBSET Cells]
  /\ main \in {"kthread_run", "g_pfoo", "g_rcu_list", "loaded", "free_list", "stop",
               "unloaded"}

HasNew(c) == updater[c].pc \in {"copy", "set", "publish", "dead"}
HasOld(c) == updater[c].pc \in {"reclaim", "synchronize"}

\* Updates that are done, begun and still to come are no more than the bound.
Counted == \A c \in Cells :
  /\ updater[c].pc \in {"copy", "set", "publish"} => version[c] + updater[c].cnt < Updates
  /\ version[c] + updater[c].cnt <= Updates

\* The objects an updater needs are there.
Equipped == \A c \in Cells :
  /\ HasNew(c) => updater[c].new \in Objs
  /\ updater[c].pc \in {"set", "publish"} \/ HasOld(c) => updater[c].old \in Objs

NotStarted ==
  main = "kthread_run" => \A c \in Cells : reader[c].pc = "none" /\ updater[c].pc = "none"

\* A section begins with the version that is current.
Entered == \A c \in Cells : /\ reader[c].base <= version[c]
                            /\ reader[c].pc # "reading" => reader[c].seen = <<>>

TInv == Types /\ Counted /\ Equipped /\ NotStarted /\ Entered /\ WaitsForReaders

-----------------------------------------------------------------------------
\* Every allocated block plays one role: it is published, the new object of an
\* updater, its old one, or the object of a callback.
Ownership ==
  /\ \A c \in Cells : cell[c] # NULL => cell[c] \in mem
  /\ \A c \in Cells : HasNew(c) => updater[c].new \in mem
                                   /\ \A d \in Cells : updater[c].new # cell[d]
  /\ \A c \in Cells : HasOld(c) =>
       /\ updater[c].old \in mem
       /\ \A d \in Cells : /\ updater[c].old # cell[d]
                           /\ HasNew(d) => updater[c].old # updater[d].new
  /\ \A b \in callbacks :
       /\ b.obj \in mem
       /\ \A d \in Cells : /\ b.obj # cell[d]
                           /\ HasNew(d) => b.obj # updater[d].new
                           /\ HasOld(d) => b.obj # updater[d].old
  /\ \A c, d \in Cells : c # d =>
       /\ cell[c] # NULL => cell[c] # cell[d]
       /\ HasNew(c) /\ HasNew(d) => updater[c].new # updater[d].new
       /\ HasOld(c) /\ HasOld(d) => updater[c].old # updater[d].old
  /\ \A a, b \in callbacks : a.obj = b.obj => a = b

\* No block is without a role.
Accounted ==
  \A o \in mem : \/ \E c \in Cells : o = cell[c]
                 \/ \E c \in Cells : HasNew(c) /\ o = updater[c].new
                 \/ \E c \in Cells : HasOld(c) /\ o = updater[c].old
                 \/ \E b \in callbacks : o = b.obj

\* What an updater replaces is what is published.
Replaces == \A c \in Cells : updater[c].pc \in {"set", "publish"} => updater[c].old = cell[c]

\* The block in a reader's hands is not given back before the reader has left.
Protected == \A c \in Cells : reader[c].pc = "reading" =>
  LET p == reader[c].p IN
  /\ p # NULL
  /\ \/ p = cell[c]
     \/ updater[c].pc = "reclaim" /\ p = updater[c].old
     \/ updater[c].pc = "synchronize" /\ p = updater[c].old /\ c \in updater[c].waits
     \/ \E b \in callbacks : p = b.obj /\ c \in b.waits

\* Cells are made by module_init and first updated afterwards.
CellsMade ==
  /\ main \in {"kthread_run", "g_pfoo"} => \A c \in Cells : cell[c] = NULL
  /\ main = "g_rcu_list" => cell["g_rcu_list"] = NULL
  /\ \A c \in Cells : cell[c] = NULL => version[c] = 0

\* Objects that readers can reach hold one version.
Contents ==
  /\ \A c \in Cells : cell[c] # NULL => \A f \in Fields : foo[cell[c]][f] = version[c]
  /\ \A c \in Cells : updater[c].pc = "publish" =>
       \A f \in Fields : foo[updater[c].new][f] = version[c] + 1
  /\ \A c \in Cells : reader[c].pc = "reading" =>
       \E v \in reader[c].base..version[c] :
         /\ \A f \in Fields : foo[reader[c].p][f] = v
         /\ \A f \in DOMAIN reader[c].seen : reader[c].seen[f] = v

HInv == ~Unloading => /\ Ownership /\ Accounted /\ Replaces /\ Protected
                      /\ CellsMade /\ Contents

IInv == TInv /\ HInv

-----------------------------------------------------------------------------
(* Types, counts and grace periods.                                        *)

LEMMA NothingPrinted == <<>> \in Printed
<1>1. <<>> \in [{} -> 0..Garbage]
  OBVIOUS
<1> QED
  BY <1>1 DEF Printed

\* One more field is printed.
LEMMA OneMorePrinted ==
  ASSUME NEW seen \in Printed, NEW f \in Fields, NEW v \in 0..Garbage
  PROVE  [g \in DOMAIN seen \cup {f} |-> IF g = f THEN v ELSE seen[g]] \in Printed
<1>1. PICK D \in SUBSET Fields : seen \in [D -> 0..Garbage]
  BY DEF Printed
<1>2. [g \in DOMAIN seen \cup {f} |-> IF g = f THEN v ELSE seen[g]]
        \in [D \cup {f} -> 0..Garbage]
  BY <1>1
<1>3. D \cup {f} \in SUBSET Fields
  BY <1>1
<1> QED
  BY <1>2, <1>3 DEF Printed

LEMMA NoVersionYet == 0 \in Version
  BY RcuAssumption DEF Version

LEMMA TypesInitially == Init => TInv
<1> USE RcuAssumption, NoVersionYet DEF Init
<1> SUFFICES ASSUME Init PROVE TInv
  OBVIOUS
<1>1. Types
  <2>1. /\ mem \subseteq Objs /\ fault \in BOOLEAN /\ foo \in [Objs -> [Fields -> Version]]
    OBVIOUS
  <2>4. /\ cell \in [Cells -> Objs \cup {NULL}] /\ version \in [Cells -> Version]
        /\ callbacks \subseteq [obj : Objs, waits : SUBSET Cells]
    OBVIOUS
  <2>2. reader \in [Cells -> ReaderType]
    BY NothingPrinted DEF ReaderType
  <2>3. updater \in [Cells -> UpdaterType]
    BY DEF UpdaterType
  <2> QED
    BY <2>1, <2>2, <2>3, <2>4 DEF Types
<1>2. Counted /\ Equipped /\ NotStarted /\ Entered /\ WaitsForReaders
  BY DEF Counted, Equipped, NotStarted, Entered, WaitsForReaders, HasNew, HasOld
<1> QED
  BY <1>1, <1>2 DEF TInv

LEMMA ReaderKeepsTypes ==
  ASSUME TInv, NEW c \in Cells, Reader(c)
  PROVE  TInv'
<1> USE RcuAssumption DEF ReaderAt
<1>0. Types /\ Counted /\ Equipped /\ NotStarted /\ Entered /\ WaitsForReaders
  BY DEF TInv
<1>1. CASE ReadLock(c)
  <2>1. Types'
    BY <1>0, <1>1 DEF ReadLock, Types, ReaderType, heapVars, cellVars
  <2>2. Counted' /\ Equipped'
    BY <1>0, <1>1 DEF ReadLock, Counted, Equipped, HasNew, HasOld, heapVars, cellVars
  <2>3. NotStarted' /\ Entered'
    BY <1>0, <1>1 DEF ReadLock, NotStarted, Entered, heapVars, cellVars, Types, Version, ReaderType
  <2>4. Readers \subseteq Readers'
    BY <1>0, <1>1 DEF ReadLock, Readers, Types, ReaderType
  <2>5. WaitsForReaders'
    BY <1>0, <1>1, <2>4 DEF ReadLock, WaitsForReaders
  <2> QED
    BY <2>1, <2>2, <2>3, <2>5 DEF TInv
<1>2. CASE ReadDereference(c)
  <2>1. Types'
    BY <1>0, <1>2, ZenonT(30) DEF ReadDereference, Types, ReaderType, heapVars, cellVars
  <2>2. Counted' /\ Equipped'
    BY <1>0, <1>2 DEF ReadDereference, Counted, Equipped, HasNew, HasOld, heapVars, cellVars
  <2>3. NotStarted' /\ Entered'
    BY <1>0, <1>2 DEF ReadDereference, NotStarted, Entered, heapVars, cellVars, Types,
                      Version, ReaderType
  <2>4. Readers \subseteq Readers'
    BY <1>0, <1>2 DEF ReadDereference, Readers, Types, ReaderType
  <2>5. WaitsForReaders'
    BY <1>0, <1>2, <2>4 DEF ReadDereference, WaitsForReaders
  <2> QED
    BY <2>1, <2>2, <2>3, <2>5 DEF TInv
<1>3. CASE ReadField(c)
  <2>1. PICK f \in Fields, v \in 0..Garbage :
          reader' = [reader EXCEPT ![c].seen =
                       [g \in DOMAIN @ \cup {f} |-> IF g = f THEN v ELSE @[g]]]
    <3>1. PICK f \in Fields \ DOMAIN reader[c].seen :
            LET v == IF fault' THEN Garbage ELSE foo[reader[c].p][f]
            IN  reader' = [reader EXCEPT ![c].seen =
                             [g \in DOMAIN @ \cup {f} |-> IF g = f THEN v ELSE @[g]]]
      BY <1>3 DEF ReadField
    <3>2. fault' = (reader[c].p \notin mem)
      BY <1>3 DEF ReadField
    <3>3. (IF fault' THEN Garbage ELSE foo[reader[c].p][f]) \in 0..Garbage
      <4>1. CASE fault'
        BY <4>1 DEF Garbage
      <4>2. CASE ~fault'
        <5>1. reader[c].p \in Objs
          BY <1>0, <3>2, <4>2 DEF Types
        <5>2. foo[reader[c].p][f] \in 0..Updates
          BY <1>0, <3>1, <5>1 DEF Types, Version
        <5> QED
          BY <4>2, <5>2 DEF Garbage
      <4> QED
        BY <4>1, <4>2
    <3> QED
      BY <3>1, <3>3
  <2>2. reader[c] \in ReaderType /\ reader[c].seen \in Printed
    BY <1>0 DEF Types, ReaderType
  <2>3. [g \in DOMAIN reader[c].seen \cup {f} |-> IF g = f THEN v ELSE reader[c].seen[g]]
          \in Printed
    BY <2>2, OneMorePrinted
  <2> DEFINE s == [g \in DOMAIN reader[c].seen \cup {f} |->
                     IF g = f THEN v ELSE reader[c].seen[g]]
  <2>4. reader' = [reader EXCEPT ![c].seen = s]
    BY <2>1
  <2>5. s \in Printed
    BY <2>3
  <2> HIDE DEF s
  <2>6. reader' \in [Cells -> ReaderType]
    BY <1>0, <2>4, <2>5 DEF Types, ReaderType
  <2>7. Types'
    BY <1>0, <1>3, <2>6 DEF ReadField, Types, cellVars
  <2>8. /\ \A d \in Cells : /\ reader'[d].pc = reader[d].pc
                            /\ reader'[d].base = reader[d].base
        /\ \A d \in Cells : d # c => reader'[d] = reader[d]
        /\ reader[c].pc = "reading"
    BY <1>0, <1>3, <2>4 DEF Types, ReaderType, ReadField
  <2>9. Counted' /\ Equipped' /\ NotStarted' /\ Entered'
    BY <1>0, <1>3, <2>8 DEF ReadField, Counted, Equipped, NotStarted, Entered, HasNew,
                            HasOld, cellVars
  <2>10. Readers' = Readers
    BY <2>8 DEF Readers
  <2>11. WaitsForReaders'
    BY <1>0, <1>3, <2>10 DEF ReadField, WaitsForReaders
  <2> QED
    BY <2>7, <2>9, <2>11 DEF TInv
<1>4. CASE ReadUnlock(c) \/ ReadNull(c)
  <2>1. PICK to \in {"sleep", "dead"} : LeaveSection(c, to)
    BY <1>4 DEF ReadUnlock, ReadNull
  <2>2. /\ RcuReadUnlock(c) /\ UNCHANGED <<heapVars, cellVars, main>>
        /\ reader[c].pc \in {"locked", "reading"}
    BY <1>4 DEF ReadUnlock, ReadNull, ReadDone
  <2>3. reader' \in [Cells -> ReaderType]
    <3>1. reader \in [Cells -> ReaderType]
      BY <1>0 DEF Types
    <3>2. [reader[c] EXCEPT !.pc = to, !.p = NULL, !.seen = <<>>, !.base = 0] \in ReaderType
      BY <3>1, NothingPrinted, NoVersionYet DEF ReaderType
    <3>3. reader' = [reader EXCEPT ![c] =
                       [reader[c] EXCEPT !.pc = to, !.p = NULL, !.seen = <<>>, !.base = 0]]
      BY <2>1, <3>1 DEF LeaveSection, ReaderType
    <3> QED
      BY <3>1, <3>2, <3>3
  <2>4. updater' \in [Cells -> UpdaterType]
        /\ \A d \in Cells : updater'[d] = [updater[d] EXCEPT !.waits = @ \ {c}]
    BY <1>0, <2>2, ZenonT(30) DEF RcuReadUnlock, Types, UpdaterType
  <2>5. callbacks' \subseteq [obj : Objs, waits : SUBSET Cells]
    BY <1>0, <2>2 DEF RcuReadUnlock, Types
  <2>6. Types'
    <3>1. UNCHANGED <<mem, foo, fault, cell, version, main>>
      BY <2>2 DEF heapVars, cellVars
    <3> QED
      BY <1>0, <2>3, <2>4, <2>5, <3>1 DEF Types
  <2>7. \A d \in Cells : /\ updater'[d].pc = updater[d].pc
                         /\ updater'[d].cnt = updater[d].cnt
                         /\ updater'[d].old = updater[d].old
                         /\ updater'[d].new = updater[d].new
    BY <1>0, <2>4 DEF Types, UpdaterType
  <2>8. Counted' /\ Equipped'
    BY <1>0, <2>2, <2>7 DEF Counted, Equipped, HasNew, HasOld, cellVars
  <2>9. NotStarted'
    BY <1>0, <2>2, <2>7 DEF NotStarted
  <2>10. Entered'
    BY <1>0, <2>1, <2>2 DEF LeaveSection, Entered, cellVars, Types, ReaderType, Version
  <2>11. Readers' = Readers \ {c}
    BY <1>0, <2>1 DEF LeaveSection, Readers, Types, ReaderType
  <2>12. WaitsForReaders'
    <3>1. \A d \in Cells : updater'[d].waits = updater[d].waits \ {c}
      BY <1>0, <2>4 DEF Types, UpdaterType
    <3>2. \A b \in callbacks' : \E a \in callbacks : b.waits = a.waits \ {c}
      BY <1>0, <2>2 DEF RcuReadUnlock, Types
    <3> QED
      BY <1>0, <2>11, <3>1, <3>2 DEF WaitsForReaders
  <2> QED
    BY <2>6, <2>8, <2>9, <2>10, <2>12 DEF TInv
<1> QED
  BY <1>1, <1>2, <1>3, <1>4 DEF Reader

\* A step of an updater that leaves readers, grace periods and the loader alone.
LEMMA UpdaterStepKeeps ==
  ASSUME TInv, NEW c \in Cells, updater[c].pc # "none",
         UNCHANGED <<reader, main>>,
         Types', Counted', Equipped',
         \A d \in Cells : version[d] <= version'[d],
         \A d \in Cells : d # c => updater'[d] = updater[d],
         updater'[c].waits \subseteq Readers,
         \A b \in callbacks' : b.waits \subseteq Readers
  PROVE  TInv'
<1>0. Types /\ NotStarted /\ Entered /\ WaitsForReaders
  BY DEF TInv
<1>1. NotStarted'
  BY <1>0 DEF NotStarted
<1>2. Entered'
  BY <1>0 DEF Entered, Types, ReaderType, Version
<1>3. Readers' = Readers
  BY DEF Readers
<1>4. WaitsForReaders'
  BY <1>0, <1>3 DEF WaitsForReaders
<1> QED
  BY <1>1, <1>2, <1>4 DEF TInv

LEMMA UpdaterKeepsTypes ==
  ASSUME TInv, NEW c \in Cells, Updater(c)
  PROVE  TInv'
<1> USE RcuAssumption
<1>0. Types /\ Counted /\ Equipped /\ NotStarted /\ Entered /\ WaitsForReaders
  BY DEF TInv
<1>a. /\ updater[c].waits \subseteq Readers
      /\ \A b \in callbacks : b.waits \subseteq Readers
      /\ Readers \subseteq Cells
  BY <1>0 DEF WaitsForReaders, Readers
<1>b. /\ updater[c] \in UpdaterType /\ version[c] \in 0..Updates
      /\ updater[c].cnt \in 0..Updates
  BY <1>0 DEF Types, Version, UpdaterType
<1>1. CASE UpdateAlloc(c)
  <2>1. PICK o \in Objs : /\ Alloc(o)
                          /\ updater' = [updater EXCEPT ![c].pc = "copy", ![c].cnt = @ - 1,
                                                        ![c].new = o]
    BY <1>1 DEF UpdateAlloc
  <2>2. /\ updater[c].pc = "sleep" /\ updater[c].cnt > 0
        /\ UNCHANGED <<cell, version, reader, callbacks, main>>
    BY <1>1 DEF UpdateAlloc, UpdaterAt, cellVars
  <2>3. mem' \subseteq Objs /\ foo' \in [Objs -> [Fields -> Version]] /\ fault' = fault
    BY <1>0, <2>1, NoVersionYet DEF Alloc, Types
  <2>4. updater' \in [Cells -> UpdaterType]
    BY <1>0, <2>1, <2>2 DEF Types, UpdaterType
  <2>5. Types'
    BY <1>0, <2>2, <2>3, <2>4 DEF Types
  <2>6. /\ updater'[c].pc = "copy" /\ updater'[c].cnt = updater[c].cnt - 1
        /\ updater'[c].new = o /\ updater'[c].waits = updater[c].waits
        /\ \A d \in Cells : d # c => updater'[d] = updater[d]
    BY <1>0, <2>1 DEF Types, UpdaterType
  <2>7. Counted'
    BY <1>0, <1>b, <2>2, <2>6 DEF Counted
  <2>8. Equipped'
    BY <1>0, <2>6 DEF Equipped, HasNew, HasOld
  <2>9. \A d \in Cells : version[d] <= version'[d]
    BY <1>0, <2>2 DEF Types, Version
  <2> QED
    BY <1>a, <2>2, <2>5, <2>6, <2>7, <2>8, <2>9, UpdaterStepKeeps
<1>2. CASE UpdateCopy(c)
  <2>1. /\ updater[c].pc = "copy" /\ cell[c] # NULL
        /\ UNCHANGED <<mem, cell, version, reader, callbacks, main>>
        /\ updater' = [updater EXCEPT ![c].pc = "set", ![c].old = cell[c]]
        /\ foo' = [foo EXCEPT ![updater[c].new] = foo[cell[c]]]
        /\ fault' = (cell[c] \notin mem)
    BY <1>2 DEF UpdateCopy, UpdaterAt, cellVars
  <2>2. cell[c] \in Objs
    BY <1>0, <2>1 DEF Types
  <2>3. foo' \in [Objs -> [Fields -> Version]] /\ fault' \in BOOLEAN
    BY <1>0, <2>1, <2>2 DEF Types
  <2>4. updater' \in [Cells -> UpdaterType]
    <3>1. [updater[c] EXCEPT !.pc = "set", !.old = cell[c]] \in UpdaterType
      BY <1>b, <2>2 DEF UpdaterType
    <3> QED
      BY <1>0, <2>1, <3>1 DEF Types
  <2>5. Types'
    BY <1>0, <2>1, <2>3, <2>4 DEF Types
  <2>6. /\ updater'[c].pc = "set" /\ updater'[c].cnt = updater[c].cnt
        /\ updater'[c].new = updater[c].new /\ updater'[c].old = cell[c]
        /\ updater'[c].waits = updater[c].waits
        /\ \A d \in Cells : d # c => updater'[d] = updater[d]
    BY <1>0, <2>1 DEF Types, UpdaterType
  <2>7. Counted'
    BY <1>0, <2>1, <2>6 DEF Counted
  <2>8. Equipped'
    BY <1>0, <2>1, <2>2, <2>6 DEF Equipped, HasNew, HasOld
  <2>9. \A d \in Cells : version[d] <= version'[d]
    BY <1>0, <2>1 DEF Types, Version
  <2> QED
    BY <1>a, <2>1, <2>5, <2>6, <2>7, <2>8, <2>9, UpdaterStepKeeps
<1>3. CASE UpdateNull(c)
  <2>1. /\ updater[c].pc = "copy"
        /\ UNCHANGED <<mem, foo, fault, cell, version, reader, callbacks, main>>
        /\ updater' = [updater EXCEPT ![c].pc = "dead"]
    BY <1>3 DEF UpdateNull, UpdaterAt, cellVars, heapVars
  <2>2. updater' \in [Cells -> UpdaterType]
    <3>1. [updater[c] EXCEPT !.pc = "dead"] \in UpdaterType
      BY <1>b DEF UpdaterType
    <3> QED
      BY <1>0, <2>1, <3>1 DEF Types
  <2>3. Types'
    BY <1>0, <2>1, <2>2 DEF Types
  <2>4. /\ updater'[c].pc = "dead" /\ updater'[c].cnt = updater[c].cnt
        /\ updater'[c].new = updater[c].new /\ updater'[c].waits = updater[c].waits
        /\ \A d \in Cells : d # c => updater'[d] = updater[d]
    BY <1>0, <2>1 DEF Types, UpdaterType
  <2>5. Counted'
    BY <1>0, <2>1, <2>4 DEF Counted
  <2>6. Equipped'
    BY <1>0, <2>1, <2>4 DEF Equipped, HasNew, HasOld
  <2>7. \A d \in Cells : version[d] <= version'[d]
    BY <1>0, <2>1 DEF Types, Version
  <2> QED
    BY <1>a, <2>1, <2>3, <2>4, <2>5, <2>6, <2>7, UpdaterStepKeeps
<1>4. CASE UpdateSet(c)
  <2>1. /\ updater[c].pc = "set"
        /\ UNCHANGED <<mem, fault, cell, version, reader, callbacks, main>>
        /\ updater' = [updater EXCEPT ![c].pc = "publish"]
        /\ foo' = [foo EXCEPT ![updater[c].new] = [f \in Fields |-> version[c] + 1]]
    BY <1>4 DEF UpdateSet, SetFields, UpdaterAt, cellVars
  <2>2. version[c] + 1 \in Version
    BY <1>0, <1>b, <2>1 DEF Counted, Version
  <2>3. foo' \in [Objs -> [Fields -> Version]]
    BY <1>0, <2>1, <2>2 DEF Types
  <2>4. updater' \in [Cells -> UpdaterType]
    <3>1. [updater[c] EXCEPT !.pc = "publish"] \in UpdaterType
      BY <1>b DEF UpdaterType
    <3> QED
      BY <1>0, <2>1, <3>1 DEF Types
  <2>5. Types'
    BY <1>0, <2>1, <2>3, <2>4 DEF Types
  <2>6. /\ updater'[c].pc = "publish" /\ updater'[c].cnt = updater[c].cnt
        /\ updater'[c].new = updater[c].new /\ updater'[c].old = updater[c].old
        /\ updater'[c].waits = updater[c].waits
        /\ \A d \in Cells : d # c => updater'[d] = updater[d]
    BY <1>0, <2>1 DEF Types, UpdaterType
  <2>7. Counted'
    BY <1>0, <2>1, <2>6 DEF Counted
  <2>8. Equipped'
    BY <1>0, <2>1, <2>6 DEF Equipped, HasNew, HasOld
  <2>9. \A d \in Cells : version[d] <= version'[d]
    BY <1>0, <2>1 DEF Types, Version
  <2> QED
    BY <1>a, <2>1, <2>5, <2>6, <2>7, <2>8, <2>9, UpdaterStepKeeps
<1>5. CASE UpdatePublish(c)
  <2>1. /\ updater[c].pc = "publish"
        /\ UNCHANGED <<mem, foo, fault, reader, callbacks, main>>
        /\ updater' = [updater EXCEPT ![c].pc = "reclaim"]
        /\ cell' = [cell EXCEPT ![c] = updater[c].new]
        /\ version' = [version EXCEPT ![c] = @ + 1]
    BY <1>5 DEF UpdatePublish, UpdaterAt, heapVars
  <2>2. version[c] + 1 \in Version
    BY <1>0, <1>b, <2>1 DEF Counted, Version
  <2>3. cell' \in [Cells -> Objs \cup {NULL}] /\ version' \in [Cells -> Version]
    BY <1>0, <1>b, <2>1, <2>2 DEF Types, UpdaterType
  <2>4. updater' \in [Cells -> UpdaterType]
    <3>1. [updater[c] EXCEPT !.pc = "reclaim"] \in UpdaterType
      BY <1>b DEF UpdaterType
    <3> QED
      BY <1>0, <2>1, <3>1 DEF Types
  <2>5. Types'
    BY <1>0, <2>1, <2>3, <2>4 DEF Types
  <2>6. /\ updater'[c].pc = "reclaim" /\ updater'[c].cnt = updater[c].cnt
        /\ updater'[c].new = updater[c].new /\ updater'[c].old = updater[c].old
        /\ updater'[c].waits = updater[c].waits
        /\ \A d \in Cells : d # c => updater'[d] = updater[d]
    BY <1>0, <2>1 DEF Types, UpdaterType
  <2>7. version'[c] = version[c] + 1 /\ \A d \in Cells : d # c => version'[d] = version[d]
    BY <1>0, <2>1 DEF Types
  <2>8. Counted'
    BY <1>0, <1>b, <2>1, <2>6, <2>7 DEF Counted
  <2>9. Equipped'
    BY <1>0, <2>1, <2>6 DEF Equipped, HasNew, HasOld
  <2>10. \A d \in Cells : version[d] <= version'[d]
    BY <1>0, <1>b, <2>7 DEF Types, Version
  <2> QED
    BY <1>a, <2>1, <2>5, <2>6, <2>8, <2>9, <2>10, UpdaterStepKeeps
<1>6. CASE CallRcu(c) \/ SynchronizedFree(c)
  <2>1. /\ HasOld(c)
        /\ UNCHANGED <<foo, cell, version, reader, main>>
        /\ updater' = [updater EXCEPT ![c].pc = "sleep", ![c].old = NULL, ![c].new = NULL]
        /\ mem' \subseteq mem /\ fault' \in BOOLEAN
        /\ callbacks' \subseteq callbacks \cup {[obj |-> updater[c].old, waits |-> Readers]}
    BY <1>0, <1>6 DEF CallRcu, HandOver, SynchronizedFree, UpdateDone, Free, UpdaterAt,
                      heapVars, cellVars, HasOld, Types
  <2>2. updater[c].old \in Objs /\ Readers \in SUBSET Cells
    BY <1>0, <1>a, <2>1 DEF Equipped
  <2>3. callbacks' \subseteq [obj : Objs, waits : SUBSET Cells]
    BY <1>0, <2>1, <2>2 DEF Types
  <2>4. updater' \in [Cells -> UpdaterType]
    <3>1. [updater[c] EXCEPT !.pc = "sleep", !.old = NULL, !.new = NULL] \in UpdaterType
      BY <1>b DEF UpdaterType
    <3> QED
      BY <1>0, <2>1, <3>1 DEF Types
  <2>5. Types'
    BY <1>0, <2>1, <2>3, <2>4 DEF Types
  <2>6. /\ updater'[c].pc = "sleep" /\ updater'[c].cnt = updater[c].cnt
        /\ updater'[c].waits = updater[c].waits
        /\ \A d \in Cells : d # c => updater'[d] = updater[d]
    BY <1>0, <2>1 DEF Types, UpdaterType
  <2>7. Counted'
    BY <1>0, <2>1, <2>6 DEF Counted
  <2>8. Equipped'
    BY <1>0, <2>1, <2>6 DEF Equipped, HasNew, HasOld
  <2>9. \A d \in Cells : version[d] <= version'[d]
    BY <1>0, <2>1 DEF Types, Version
  <2>10. \A b \in callbacks' : b.waits \subseteq Readers
    BY <1>a, <2>1
  <2>11. updater[c].pc # "none"
    BY <2>1 DEF HasOld
  <2> QED
    BY <1>a, <2>1, <2>5, <2>6, <2>7, <2>8, <2>9, <2>10, <2>11, UpdaterStepKeeps
<1>7. CASE SynchronizeRcu(c)
  <2>1. /\ updater[c].pc = "reclaim"
        /\ UNCHANGED <<mem, foo, fault, cell, version, reader, callbacks, main>>
        /\ updater' = [updater EXCEPT ![c].pc = "synchronize", ![c].waits = Readers]
    BY <1>7 DEF SynchronizeRcu, UpdaterAt, heapVars, cellVars
  <2>2. updater' \in [Cells -> UpdaterType]
    <3>1. [updater[c] EXCEPT !.pc = "synchronize", !.waits = Readers] \in UpdaterType
      BY <1>a, <1>b DEF UpdaterType
    <3> QED
      BY <1>0, <2>1, <3>1 DEF Types
  <2>3. Types'
    BY <1>0, <2>1, <2>2 DEF Types
  <2>4. /\ updater'[c].pc = "synchronize" /\ updater'[c].cnt = updater[c].cnt
        /\ updater'[c].old = updater[c].old /\ updater'[c].waits = Readers
        /\ \A d \in Cells : d # c => updater'[d] = updater[d]
    BY <1>0, <2>1 DEF Types, UpdaterType
  <2>5. Counted'
    BY <1>0, <2>1, <2>4 DEF Counted
  <2>6. Equipped'
    BY <1>0, <2>1, <2>4 DEF Equipped, HasNew, HasOld
  <2>7. \A d \in Cells : version[d] <= version'[d]
    BY <1>0, <2>1 DEF Types, Version
  <2> QED
    BY <1>a, <2>1, <2>3, <2>4, <2>5, <2>6, <2>7, UpdaterStepKeeps
<1> QED
  BY <1>1, <1>2, <1>3, <1>4, <1>5, <1>6, <1>7 DEF Updater

LEMMA ReclaimerKeepsTypes ==
  ASSUME TInv, Reclaimer \/ ReclaimerGone
  PROVE  TInv'
<1>0. Types /\ Counted /\ Equipped /\ NotStarted /\ Entered /\ WaitsForReaders
  BY DEF TInv
<1>1. /\ UNCHANGED <<foo, cell, version, reader, updater, main>>
      /\ mem' \subseteq mem /\ fault' \in BOOLEAN /\ callbacks' \subseteq callbacks
  BY DEF Reclaimer, ReclaimerGone, Free, cellVars
<1>2. Types'
  BY <1>0, <1>1 DEF Types
<1>3. Counted' /\ Equipped' /\ NotStarted' /\ Entered'
  BY <1>0, <1>1 DEF Counted, Equipped, NotStarted, Entered, HasNew, HasOld
<1>4. WaitsForReaders'
  BY <1>0, <1>1 DEF WaitsForReaders, Readers
<1> QED
  BY <1>2, <1>3, <1>4 DEF TInv

LEMMA LoaderKeepsTypes ==
  ASSUME TInv, Loader
  PROVE  TInv'
<1>0. Types /\ Counted /\ Equipped /\ NotStarted /\ Entered /\ WaitsForReaders
  BY DEF TInv
<1>1. CASE StartThreads
  <2>1. /\ main = "kthread_run" /\ main' = "g_pfoo"
        /\ reader' = [c \in Cells |-> [reader[c] EXCEPT !.pc = "sleep"]]
        /\ updater' = [c \in Cells |-> [updater[c] EXCEPT !.pc = "sleep"]]
        /\ UNCHANGED <<mem, foo, fault, cell, version, callbacks>>
    BY <1>1 DEF StartThreads, Main, heapVars, cellVars
  <2>2. reader' \in [Cells -> ReaderType]
    BY <1>0, <2>1 DEF Types, ReaderType
  <2>3. updater' \in [Cells -> UpdaterType]
    BY <1>0, <2>1, ZenonT(30) DEF Types, UpdaterType
  <2>4. Types'
    BY <1>0, <2>1, <2>2, <2>3 DEF Types
  <2>5. \A c \in Cells :
          /\ reader[c].pc = "none" /\ updater[c].pc = "none"
          /\ reader'[c].pc = "sleep" /\ updater'[c].pc = "sleep"
          /\ reader'[c].base = reader[c].base /\ reader'[c].seen = reader[c].seen
          /\ updater'[c].cnt = updater[c].cnt /\ updater'[c].waits = updater[c].waits
    BY <1>0, <2>1 DEF NotStarted, Types, ReaderType, UpdaterType
  <2>6. Counted' /\ Equipped' /\ NotStarted' /\ Entered'
    BY <1>0, <2>1, <2>5 DEF Counted, Equipped, NotStarted, Entered, HasNew, HasOld
  <2>7. Readers = {}
    BY <2>5 DEF Readers
  <2>8. WaitsForReaders'
    BY <1>0, <2>1, <2>5, <2>7 DEF WaitsForReaders
  <2> QED
    BY <2>4, <2>6, <2>8 DEF TInv
<1>2. CASE \E c \in Cells : InitCell(c)
  <2>1. PICK c \in Cells, o \in Objs : Alloc(o) /\ cell' = [cell EXCEPT ![c] = o]
    BY <1>2 DEF InitCell
  <2>2. /\ main' \in {"g_rcu_list", "loaded"}
        /\ UNCHANGED <<version, reader, updater, callbacks>>
    BY <1>2 DEF InitCell, Main
  <2>3. Types'
    BY <1>0, <2>1, <2>2, NoVersionYet DEF Types, Alloc
  <2>4. Counted' /\ Equipped' /\ NotStarted' /\ Entered'
    BY <1>0, <2>2 DEF Counted, Equipped, NotStarted, Entered, HasNew, HasOld
  <2>5. WaitsForReaders'
    BY <1>0, <2>2 DEF WaitsForReaders, Readers
  <2> QED
    BY <2>3, <2>4, <2>5 DEF TInv
<1>3. CASE (\E c \in Cells : ExitFree(c)) \/ ExitStop
  <2>1. /\ main' \in {"free_list", "stop", "unloaded"}
        /\ mem' \subseteq mem /\ fault' \in BOOLEAN
        /\ UNCHANGED <<foo, cell, version, reader, updater, callbacks>>
    BY <1>0, <1>3 DEF ExitFree, ExitStop, Main, Free, heapVars, cellVars, Types
  <2>2. Types'
    BY <1>0, <2>1 DEF Types
  <2>3. Counted' /\ Equipped' /\ NotStarted' /\ Entered'
    BY <1>0, <2>1 DEF Counted, Equipped, NotStarted, Entered, HasNew, HasOld
  <2>4. WaitsForReaders'
    BY <1>0, <2>1 DEF WaitsForReaders, Readers
  <2> QED
    BY <2>2, <2>3, <2>4 DEF TInv
<1> QED
  BY <1>1, <1>2, <1>3 DEF Loader

LEMMA TypesKept == TInv /\ [Next]_vars => TInv'
<1> SUFFICES ASSUME TInv, [Next]_vars PROVE TInv'
  OBVIOUS
<1>1. CASE Next
  BY <1>1, ReaderKeepsTypes, UpdaterKeepsTypes, ReclaimerKeepsTypes, LoaderKeepsTypes
     DEF Next
<1>2. CASE UNCHANGED vars
  BY <1>2 DEF vars, heapVars, cellVars, TInv, Types, Counted, Equipped, NotStarted, Entered,
              WaitsForReaders, HasNew, HasOld, Readers
<1> QED
  BY <1>1, <1>2

LEMMA TypesAlways == Spec => []TInv
  BY TypesInitially, TypesKept, PTL DEF Spec

\* The types of the state hold in every execution (rcu_demo.c): the updaters
\* never count beyond their iterations and no callback is without its object.
THEOREM RcuTypeCorrect == Spec => []TypeOK
<1>1. TInv => TypeOK
  <2> SUFFICES ASSUME TInv PROVE TypeOK
    OBVIOUS
  <2>1. Types
    BY DEF TInv
  <2>2. \A c \in Cells : DOMAIN reader[c].seen \subseteq Fields
    BY <2>1 DEF Types, ReaderType, Printed
  <2> QED
    BY <2>1, <2>2 DEF Types, ReaderType, UpdaterType, TypeOK
<1> QED
  BY <1>1, TypesAlways, PTL

\* A grace period waits only for readers inside the section they were in when
\* it began (call_rcu, synchronize_rcu in rcu_demo.c).
THEOREM RcuWaitsForReaders == Spec => []WaitsForReaders
<1>1. TInv => WaitsForReaders
  BY DEF TInv
<1> QED
  BY <1>1, TypesAlways, PTL

-----------------------------------------------------------------------------
(* The roles of the blocks.                                                *)

\* The parts of HInv that a loaded module has.
Loaded == Ownership /\ Accounted /\ Replaces /\ Protected /\ CellsMade /\ Contents

\* The heap is as it should be, of types that are as they should be.
LoadedIInv == TInv /\ Loaded

LEMMA LoadedInitially == Init => Loaded
<1> SUFFICES ASSUME Init PROVE Loaded
  OBVIOUS
<1>1. Ownership /\ Accounted /\ Replaces
  BY DEF Init, Ownership, Accounted, Replaces, HasNew, HasOld
<1>2. Protected /\ CellsMade /\ Contents
  BY DEF Init, Protected, CellsMade, Contents, Cells
<1> QED
  BY <1>1, <1>2 DEF Loaded

\* A block in a reader's hands is allocated, and no updater is writing it.
LEMMA ReadersBlock ==
  ASSUME LoadedIInv, NEW c \in Cells, reader[c].pc = "reading"
  PROVE  /\ reader[c].p \in mem
         /\ \A d \in Cells : HasNew(d) => reader[c].p # updater[d].new
<1> DEFINE p == reader[c].p
<1>0. TInv /\ Ownership /\ Protected
  BY DEF LoadedIInv, Loaded
<1>1. CASE p = cell[c]
  BY <1>0, <1>1 DEF Ownership, Protected
<1>2. CASE HasOld(c) /\ p = updater[c].old
  BY <1>0, <1>2 DEF Ownership
<1>3. CASE \E b \in callbacks : p = b.obj
  BY <1>0, <1>3 DEF Ownership
<1> QED
  BY <1>0, <1>1, <1>2, <1>3 DEF Protected, HasOld

LEMMA ReaderStaysInside ==
  ASSUME LoadedIInv, NEW c \in Cells,
         ReadLock(c) \/ ReadDereference(c) \/ ReadField(c)
  PROVE  Loaded'
<1>0. /\ Types /\ Entered /\ Ownership /\ Accounted /\ Replaces /\ Protected
      /\ CellsMade /\ Contents
  BY DEF LoadedIInv, Loaded, TInv
<1>1. /\ UNCHANGED <<mem, foo, cell, version, updater, callbacks, main>>
      /\ \A d \in Cells : d # c => reader'[d] = reader[d]
  BY <1>0 DEF ReadLock, ReadDereference, ReadField, heapVars, cellVars, Types
<1>2. Ownership' /\ Accounted' /\ Replaces' /\ CellsMade'
  BY <1>0, <1>1 DEF Ownership, Accounted, Replaces, CellsMade, HasNew, HasOld
<1>3. CASE ReadLock(c)
  <2>1. reader'[c].pc = "locked"
    BY <1>0, <1>3 DEF ReadLock, Types, ReaderType
  <2>2. Protected'
    BY <1>0, <1>1, <2>1 DEF Protected
  <2>3. Contents'
    BY <1>0, <1>1, <2>1 DEF Contents
  <2> QED
    BY <1>2, <2>2, <2>3 DEF Loaded
<1>4. CASE ReadDereference(c)
  <2>1. /\ reader'[c].pc = "reading" /\ reader'[c].p = cell[c] /\ cell[c] # NULL
        /\ reader'[c].base = reader[c].base /\ reader'[c].seen = <<>>
    BY <1>0, <1>4 DEF ReadDereference, ReaderAt, Types, ReaderType, Entered
  <2>2. Protected'
    BY <1>0, <1>1, <2>1 DEF Protected
  <2>3. version[c] \in reader[c].base..version[c]
    BY <1>0 DEF Types, Entered, ReaderType, Version
  <2>4. /\ \A f \in Fields : foo[cell[c]][f] = version[c]
        /\ DOMAIN reader'[c].seen = {}
    BY <1>0, <2>1 DEF Contents
  <2>5. Contents'
    BY <1>0, <1>1, <2>1, <2>3, <2>4 DEF Contents
  <2> QED
    BY <1>2, <2>2, <2>5 DEF Loaded
<1>5. CASE ReadField(c)
  <2>1. reader[c].pc = "reading"
    BY <1>5 DEF ReadField, ReaderAt
  <2>2. reader[c].p \in mem
    BY <2>1, ReadersBlock
  <2>3. PICK f \in Fields \ DOMAIN reader[c].seen :
          LET v == IF fault' THEN Garbage ELSE foo[reader[c].p][f]
          IN  reader' = [reader EXCEPT ![c].seen =
                           [g \in DOMAIN @ \cup {f} |-> IF g = f THEN v ELSE @[g]]]
    BY <1>5 DEF ReadField
  <2>4. ~fault'
    BY <1>5, <2>2 DEF ReadField
  <2> DEFINE s == [g \in DOMAIN reader[c].seen \cup {f} |->
                     IF g = f THEN foo[reader[c].p][f] ELSE reader[c].seen[g]]
  <2>5. reader' = [reader EXCEPT ![c].seen = s]
    BY <2>3, <2>4
  <2>6. /\ DOMAIN s = DOMAIN reader[c].seen \cup {f}
        /\ \A g \in DOMAIN s : s[g] = IF g = f THEN foo[reader[c].p][f]
                                               ELSE reader[c].seen[g]
    OBVIOUS
  <2> HIDE DEF s
  <2>7. /\ reader'[c].pc = "reading" /\ reader'[c].p = reader[c].p
        /\ reader'[c].base = reader[c].base /\ reader'[c].seen = s
    BY <1>0, <2>1, <2>5 DEF Types, ReaderType
  <2>8. Protected'
    BY <1>0, <1>1, <2>1, <2>7 DEF Protected
  <2>9. PICK v \in reader[c].base..version[c] :
          /\ \A g \in Fields : foo[reader[c].p][g] = v
          /\ \A g \in DOMAIN reader[c].seen : reader[c].seen[g] = v
    BY <1>0, <2>1 DEF Contents
  <2>10. \A g \in DOMAIN s : s[g] = v
    BY <2>3, <2>6, <2>9
  <2>11. Contents'
    BY <1>0, <1>1, <2>7, <2>9, <2>10 DEF Contents
  <2> QED
    BY <1>2, <2>8, <2>11 DEF Loaded
<1> QED
  BY <1>3, <1>4, <1>5

\* rcu_read_unlock takes a reader out of every grace period and touches no
\* block.
LEMMA ReaderLeaves ==
  ASSUME LoadedIInv, NEW c \in Cells, ReadUnlock(c) \/ ReadNull(c)
  PROVE  Loaded'
<1>0. /\ Types /\ Ownership /\ Accounted /\ Replaces /\ Protected
      /\ CellsMade /\ Contents
  BY DEF LoadedIInv, Loaded, TInv
<1>1. UNCHANGED <<mem, foo, cell, version, main>>
  BY DEF ReadUnlock, ReadNull, heapVars, cellVars
<1>2. /\ \A d \in Cells : d # c => reader'[d] = reader[d]
      /\ reader'[c].pc # "reading"
  BY <1>0 DEF ReadUnlock, ReadNull, LeaveSection, Types, ReaderType
<1>3. \A d \in Cells : /\ updater'[d].pc = updater[d].pc
                       /\ updater'[d].old = updater[d].old
                       /\ updater'[d].new = updater[d].new
                       /\ updater'[d].waits = updater[d].waits \ {c}
  BY <1>0 DEF ReadUnlock, ReadNull, RcuReadUnlock, Types, UpdaterType
<1>4. /\ \A b \in callbacks' : \E a \in callbacks : b = [a EXCEPT !.waits = @ \ {c}]
      /\ \A a \in callbacks : [a EXCEPT !.waits = @ \ {c}] \in callbacks'
  BY DEF ReadUnlock, ReadNull, RcuReadUnlock
<1>5. \A a \in callbacks : LET b == [a EXCEPT !.waits = @ \ {c}]
                           IN  b.obj = a.obj /\ b.waits = a.waits \ {c}
  BY <1>0 DEF Types
<1>6. Ownership'
  <2>1. \A d \in Cells : (HasNew(d)' <=> HasNew(d)) /\ (HasOld(d)' <=> HasOld(d))
    BY <1>3 DEF HasNew, HasOld
  <2>2. \A b \in callbacks' : \E a \in callbacks : b.obj = a.obj
    BY <1>4, <1>5
  <2>3. \A a, b \in callbacks' : a.obj = b.obj => a = b
    <3> SUFFICES ASSUME NEW a \in callbacks', NEW b \in callbacks', a.obj = b.obj
                 PROVE  a = b
      OBVIOUS
    <3>1. PICK x \in callbacks, y \in callbacks :
            a = [x EXCEPT !.waits = @ \ {c}] /\ b = [y EXCEPT !.waits = @ \ {c}]
      BY <1>4
    <3>2. x.obj = y.obj
      BY <1>5, <3>1
    <3> QED
      BY <1>0, <3>1, <3>2 DEF Ownership
  <2>4. /\ \A d \in Cells : cell'[d] # NULL => cell'[d] \in mem'
        /\ \A d \in Cells : HasNew(d)' => updater'[d].new \in mem'
                                          /\ \A e \in Cells : updater'[d].new # cell'[e]
    BY <1>0, <1>1, <1>3, <2>1 DEF Ownership
  <2>5. \A d \in Cells : HasOld(d)' =>
          /\ updater'[d].old \in mem'
          /\ \A e \in Cells : /\ updater'[d].old # cell'[e]
                              /\ HasNew(e)' => updater'[d].old # updater'[e].new
    BY <1>0, <1>1, <1>3, <2>1 DEF Ownership
  <2>6. \A b \in callbacks' :
          /\ b.obj \in mem'
          /\ \A d \in Cells : /\ b.obj # cell'[d]
                              /\ HasNew(d)' => b.obj # updater'[d].new
                              /\ HasOld(d)' => b.obj # updater'[d].old
    BY <1>0, <1>1, <1>3, <2>1, <2>2 DEF Ownership
  <2>7. \A d, e \in Cells : d # e =>
          /\ cell'[d] # NULL => cell'[d] # cell'[e]
          /\ HasNew(d)' /\ HasNew(e)' => updater'[d].new # updater'[e].new
          /\ HasOld(d)' /\ HasOld(e)' => updater'[d].old # updater'[e].old
    BY <1>0, <1>1, <1>3, <2>1 DEF Ownership
  <2> QED
    BY <2>3, <2>4, <2>5, <2>6, <2>7 DEF Ownership
<1>7. Accounted'
  <2>1. \A o : (\E a \in callbacks : o = a.obj) => \E b \in callbacks' : o = b.obj
    BY <1>4, <1>5
  <2> QED
    BY <1>0, <1>1, <1>3, <2>1 DEF Accounted, HasNew, HasOld
<1>8. Replaces' /\ CellsMade'
  BY <1>0, <1>1, <1>3 DEF Replaces, CellsMade
<1>9. Protected'
  <2> SUFFICES ASSUME NEW d \in Cells, reader'[d].pc = "reading"
               PROVE  LET p == reader'[d].p IN
                      /\ p # NULL
                      /\ \/ p = cell'[d]
                         \/ updater'[d].pc = "reclaim" /\ p = updater'[d].old
                         \/ /\ updater'[d].pc = "synchronize" /\ p = updater'[d].old
                            /\ d \in updater'[d].waits
                         \/ \E b \in callbacks' : p = b.obj /\ d \in b.waits
    BY DEF Protected
  <2>1. d # c /\ reader'[d] = reader[d]
    BY <1>2
  <2>2. (\E a \in callbacks : reader[d].p = a.obj /\ d \in a.waits)
          => \E b \in callbacks' : reader[d].p = b.obj /\ d \in b.waits
    BY <1>4, <1>5, <2>1
  <2> QED
    BY <1>0, <1>1, <1>3, <2>1, <2>2 DEF Protected
<1>10. Contents'
  BY <1>0, <1>1, <1>2, <1>3 DEF Contents
<1> QED
  BY <1>6, <1>7, <1>8, <1>9, <1>10 DEF Loaded

\* A new block is in nobody's hands.
LEMMA UpdateAllocKeeps ==
  ASSUME LoadedIInv, NEW c \in Cells, UpdateAlloc(c)
  PROVE  Loaded'
<1>0. /\ Types /\ Ownership /\ Accounted /\ Replaces /\ Protected
      /\ CellsMade /\ Contents
  BY DEF LoadedIInv, Loaded, TInv
<1>1. PICK o \in Objs : /\ Alloc(o)
                        /\ updater' = [updater EXCEPT ![c].pc = "copy", ![c].cnt = @ - 1,
                                                      ![c].new = o]
  BY DEF UpdateAlloc
<1>2. /\ updater[c].pc = "sleep"
      /\ UNCHANGED <<cell, version, reader, callbacks, main>>
  BY DEF UpdateAlloc, UpdaterAt, cellVars
<1>3. /\ o \notin mem /\ mem' = mem \cup {o}
      /\ \A q \in mem : q \in Objs /\ foo'[q] = foo[q]
  BY <1>0, <1>1 DEF Alloc, Types
<1>4. /\ updater'[c].pc = "copy" /\ updater'[c].new = o
      /\ \A d \in Cells : d # c => updater'[d] = updater[d]
  BY <1>0, <1>1 DEF Types, UpdaterType
<1>5. o # NULL
  BY RcuAssumption
<1>6. Ownership'
  <2>1. /\ \A d \in Cells : d # c => (HasNew(d)' <=> HasNew(d)) /\ (HasOld(d)' <=> HasOld(d))
        /\ HasNew(c)' /\ ~HasOld(c)' /\ ~HasNew(c) /\ ~HasOld(c)
    BY <1>2, <1>4 DEF HasNew, HasOld
  <2>2. \A d \in Cells : o # cell[d] /\ (HasNew(d) => o # updater[d].new)
                         /\ (HasOld(d) => o # updater[d].old)
    BY <1>0, <1>3, <1>5 DEF Ownership
  <2>3. \A b \in callbacks : b.obj # o
    BY <1>0, <1>3 DEF Ownership
  <2>4. /\ \A d \in Cells : cell'[d] # NULL => cell'[d] \in mem'
        /\ \A d \in Cells : HasNew(d)' => updater'[d].new \in mem'
                                          /\ \A e \in Cells : updater'[d].new # cell'[e]
    BY <1>0, <1>2, <1>3, <1>4, <2>1, <2>2 DEF Ownership
  <2>5. \A d \in Cells : HasOld(d)' =>
          /\ updater'[d].old \in mem'
          /\ \A e \in Cells : /\ updater'[d].old # cell'[e]
                              /\ HasNew(e)' => updater'[d].old # updater'[e].new
    BY <1>0, <1>2, <1>3, <1>4, <2>1, <2>2 DEF Ownership
  <2>6. \A b \in callbacks' :
          /\ b.obj \in mem'
          /\ \A d \in Cells : /\ b.obj # cell'[d]
                              /\ HasNew(d)' => b.obj # updater'[d].new
                              /\ HasOld(d)' => b.obj # updater'[d].old
    BY <1>0, <1>2, <1>3, <1>4, <2>1, <2>3 DEF Ownership
  <2>7. \A d, e \in Cells : d # e =>
          /\ cell'[d] # NULL => cell'[d] # cell'[e]
          /\ HasNew(d)' /\ HasNew(e)' => updater'[d].new # updater'[e].new
          /\ HasOld(d)' /\ HasOld(e)' => updater'[d].old # updater'[e].old
    BY <1>0, <1>2, <1>4, <2>1, <2>2 DEF Ownership
  <2>8. \A a, b \in callbacks' : a.obj = b.obj => a = b
    BY <1>0, <1>2 DEF Ownership
  <2> QED
    BY <2>4, <2>5, <2>6, <2>7, <2>8 DEF Ownership
<1>7. Accounted'
  BY <1>0, <1>2, <1>3, <1>4 DEF Accounted, HasNew, HasOld
<1>8. Replaces' /\ CellsMade' /\ Protected'
  BY <1>0, <1>2, <1>4 DEF Replaces, CellsMade, Protected
<1>9. Contents'
  <2>1. \A d \in Cells : cell[d] # NULL => foo'[cell[d]] = foo[cell[d]]
    BY <1>0, <1>3 DEF Ownership
  <2>2. \A d \in Cells : updater'[d].pc = "publish" =>
          /\ updater[d].pc = "publish" /\ updater'[d].new = updater[d].new
          /\ foo'[updater[d].new] = foo[updater[d].new]
    BY <1>0, <1>3, <1>4 DEF Ownership, HasNew
  <2>3. \A d \in Cells : reader[d].pc = "reading" => foo'[reader[d].p] = foo[reader[d].p]
    BY <1>3, ReadersBlock
  <2> QED
    BY <1>0, <1>2, <2>1, <2>2, <2>3 DEF Contents
<1> QED
  BY <1>6, <1>7, <1>8, <1>9 DEF Loaded

\* An updater writes only into its new object, which nobody else can reach.
LEMMA UpdateWriteKeeps ==
  ASSUME LoadedIInv, NEW c \in Cells, UpdateCopy(c) \/ UpdateSet(c) \/ UpdateNull(c)
  PROVE  Loaded'
<1>0. /\ Types /\ Equipped /\ Ownership /\ Accounted /\ Replaces /\ Protected
      /\ CellsMade /\ Contents
  BY DEF LoadedIInv, Loaded, TInv
<1>1. /\ UNCHANGED <<mem, cell, version, reader, callbacks, main>>
      /\ updater[c].pc \in {"copy", "set"} /\ updater'[c].pc \in {"set", "publish", "dead"}
      /\ updater'[c].new = updater[c].new
      /\ \A d \in Cells : d # c => updater'[d] = updater[d]
      /\ \A q \in Objs : q # updater[c].new => foo'[q] = foo[q]
  BY <1>0 DEF UpdateCopy, UpdateSet, UpdateNull, SetFields, UpdaterAt, cellVars, heapVars,
              Types, UpdaterType
<1>2. \A d \in Cells : (HasNew(d)' <=> HasNew(d)) /\ (HasOld(d)' <=> HasOld(d))
                       /\ updater'[d].new = updater[d].new
                       /\ (HasOld(d) => updater'[d] = updater[d])
  BY <1>1 DEF HasNew, HasOld
<1>3. HasNew(c)
  BY <1>1 DEF HasNew
<1>4. Ownership'
  BY <1>0, <1>1, <1>2 DEF Ownership
<1>5. Accounted'
  BY <1>0, <1>1, <1>2 DEF Accounted
<1>6. CellsMade'
  BY <1>0, <1>1 DEF CellsMade
<1>7. Replaces'
  <2>1. updater'[c].pc \in {"set", "publish"} => updater'[c].old = cell[c]
    BY <1>0 DEF UpdateCopy, UpdateSet, UpdateNull, SetFields, UpdaterAt, Types, UpdaterType,
                Replaces
  <2> QED
    BY <1>0, <1>1, <2>1 DEF Replaces
<1>8. Protected'
  BY <1>0, <1>1, <1>2 DEF Protected, HasOld
<1>9. Contents'
  <2>1. \A d \in Cells : cell[d] # NULL => foo'[cell[d]] = foo[cell[d]]
    BY <1>0, <1>1, <1>3 DEF Ownership, Types
  <2>2. \A d \in Cells \ {c} : updater[d].pc = "publish" =>
          foo'[updater[d].new] = foo[updater[d].new]
    BY <1>0, <1>1, <1>3 DEF Ownership, HasNew, Equipped
  <2>3. updater'[c].pc = "publish" => \A f \in Fields : foo'[updater[c].new][f] = version[c] + 1
    <3>1. updater'[c].pc = "publish" =>
            foo' = [foo EXCEPT ![updater[c].new] = [f \in Fields |-> version[c] + 1]]
      BY <1>0 DEF UpdateCopy, UpdateSet, UpdateNull, SetFields, UpdaterAt, Types, UpdaterType
    <3>2. updater[c].new \in Objs
      BY <1>0, <1>3 DEF Equipped
    <3> QED
      BY <1>0, <3>1, <3>2 DEF Types
  <2>4. \A d \in Cells : reader[d].pc = "reading" => foo'[reader[d].p] = foo[reader[d].p]
    <3>1. \A d \in Cells : reader[d].pc = "reading" =>
            reader[d].p \in mem /\ reader[d].p # updater[c].new
      BY <1>3, ReadersBlock
    <3> QED
      BY <1>0, <1>1, <3>1 DEF Types
  <2> QED
    BY <1>0, <1>1, <2>1, <2>2, <2>3, <2>4 DEF Contents
<1> QED
  BY <1>4, <1>5, <1>6, <1>7, <1>8, <1>9 DEF Loaded

\* The new object takes the place of the old one, which readers may still hold.
LEMMA UpdatePublishKeeps ==
  ASSUME LoadedIInv, NEW c \in Cells, UpdatePublish(c)
  PROVE  Loaded'
<1>0. /\ Types /\ Equipped /\ Ownership /\ Accounted /\ Replaces /\ Protected
      /\ CellsMade /\ Contents
  BY DEF LoadedIInv, Loaded, TInv
<1>1. /\ updater[c].pc = "publish"
      /\ UNCHANGED <<mem, foo, reader, callbacks, main>>
      /\ updater' = [updater EXCEPT ![c].pc = "reclaim"]
      /\ cell' = [cell EXCEPT ![c] = updater[c].new]
      /\ version' = [version EXCEPT ![c] = @ + 1]
  BY DEF UpdatePublish, UpdaterAt, heapVars
<1>2. /\ updater'[c].pc = "reclaim" /\ updater'[c].new = updater[c].new
      /\ updater'[c].old = updater[c].old
      /\ \A d \in Cells : d # c => updater'[d] = updater[d]
  BY <1>0, <1>1 DEF Types, UpdaterType
<1>3. /\ cell'[c] = updater[c].new /\ version'[c] = version[c] + 1
      /\ \A d \in Cells : d # c => cell'[d] = cell[d] /\ version'[d] = version[d]
  BY <1>0, <1>1 DEF Types
<1>4. /\ updater[c].old = cell[c] /\ cell[c] \in Objs /\ updater[c].new \in Objs
      /\ cell[c] # NULL /\ updater[c].new # NULL
  BY <1>0, <1>1, RcuAssumption DEF Replaces, Equipped, HasNew
<1>5. /\ \A d \in Cells : d # c => (HasNew(d)' <=> HasNew(d)) /\ (HasOld(d)' <=> HasOld(d))
      /\ HasNew(c) /\ ~HasOld(c) /\ ~HasNew(c)' /\ HasOld(c)'
  BY <1>1, <1>2 DEF HasNew, HasOld
<1>6. Ownership'
  <2>1. /\ \A d \in Cells : cell'[d] # NULL => cell'[d] \in mem'
        /\ \A d \in Cells : HasNew(d)' => updater'[d].new \in mem'
                                          /\ \A e \in Cells : updater'[d].new # cell'[e]
    BY <1>0, <1>1, <1>2, <1>3, <1>5 DEF Ownership
  <2>2. \A d \in Cells : HasOld(d)' =>
          /\ updater'[d].old \in mem'
          /\ \A e \in Cells : /\ updater'[d].old # cell'[e]
                              /\ HasNew(e)' => updater'[d].old # updater'[e].new
    BY <1>0, <1>1, <1>2, <1>3, <1>4, <1>5 DEF Ownership
  <2>3. \A b \in callbacks' :
          /\ b.obj \in mem'
          /\ \A d \in Cells : /\ b.obj # cell'[d]
                              /\ HasNew(d)' => b.obj # updater'[d].new
                              /\ HasOld(d)' => b.obj # updater'[d].old
    BY <1>0, <1>1, <1>2, <1>3, <1>4, <1>5 DEF Ownership
  <2>4. \A d, e \in Cells : d # e =>
          /\ cell'[d] # NULL => cell'[d] # cell'[e]
          /\ HasNew(d)' /\ HasNew(e)' => updater'[d].new # updater'[e].new
          /\ HasOld(d)' /\ HasOld(e)' => updater'[d].old # updater'[e].old
    BY <1>0, <1>1, <1>2, <1>3, <1>4, <1>5 DEF Ownership
  <2>5. \A a, b \in callbacks' : a.obj = b.obj => a = b
    BY <1>0, <1>1 DEF Ownership
  <2> QED
    BY <2>1, <2>2, <2>3, <2>4, <2>5 DEF Ownership
<1>7. Accounted'
  <2> SUFFICES ASSUME NEW o \in mem
               PROVE  \/ \E d \in Cells : o = cell'[d]
                      \/ \E d \in Cells : HasNew(d)' /\ o = updater'[d].new
                      \/ \E d \in Cells : HasOld(d)' /\ o = updater'[d].old
                      \/ \E b \in callbacks : o = b.obj
    BY <1>1 DEF Accounted
  <2>1. CASE \E d \in Cells : o = cell[d]
    BY <1>2, <1>3, <1>4, <1>5, <2>1
  <2>2. CASE \E d \in Cells : HasNew(d) /\ o = updater[d].new
    BY <1>2, <1>3, <1>5, <2>2
  <2>3. CASE \E d \in Cells : HasOld(d) /\ o = updater[d].old
    BY <1>2, <1>5, <2>3
  <2> QED
    BY <1>0, <2>1, <2>2, <2>3 DEF Accounted
<1>8. Replaces'
  BY <1>0, <1>2, <1>3 DEF Replaces
<1>9. CellsMade'
  <2>1. main \notin {"kthread_run", "g_pfoo"}
    BY <1>0, <1>4 DEF CellsMade
  <2>2. main = "g_rcu_list" => c # "g_rcu_list"
    BY <1>0, <1>4 DEF CellsMade
  <2> QED
    BY <1>0, <1>1, <1>3, <1>4, <2>1, <2>2 DEF CellsMade
<1>10. Protected'
  BY <1>0, <1>1, <1>2, <1>3, <1>4 DEF Protected
<1>11. Contents'
  <2>1. \A d \in Cells : cell'[d] # NULL => \A f \in Fields : foo[cell'[d]][f] = version'[d]
    BY <1>0, <1>1, <1>3 DEF Contents
  <2>2. \A d \in Cells : updater'[d].pc = "publish" =>
          \A f \in Fields : foo[updater'[d].new][f] = version'[d] + 1
    BY <1>0, <1>2, <1>3 DEF Contents
  <2>3. \A d \in Cells : reader[d].base..version[d] \subseteq reader[d].base..version'[d]
    BY <1>0, <1>3 DEF Types, ReaderType, Version
  <2>4. \A d \in Cells : reader[d].pc = "reading" =>
          \E v \in reader[d].base..version'[d] :
            /\ \A f \in Fields : foo[reader[d].p][f] = v
            /\ \A f \in DOMAIN reader[d].seen : reader[d].seen[f] = v
    BY <1>0, <2>3 DEF Contents
  <2> QED
    BY <1>1, <2>1, <2>2, <2>4 DEF Contents
<1> QED
  BY <1>6, <1>7, <1>8, <1>9, <1>10, <1>11 DEF Loaded

\* call_rcu: the old object becomes the callback's, which waits for every
\* reader that holds it.
LEMMA CallRcuKeeps ==
  ASSUME LoadedIInv, NEW c \in Cells, CallRcu(c)
  PROVE  Loaded'
<1>0. /\ Types /\ Equipped /\ Ownership /\ Accounted /\ Replaces /\ Protected
      /\ CellsMade /\ Contents
  BY DEF LoadedIInv, Loaded, TInv
<1> DEFINE o == updater[c].old
           new == [obj |-> o, waits |-> Readers]
<1>1. /\ updater[c].pc = "reclaim"
      /\ UNCHANGED <<mem, foo, cell, version, reader, main>>
      /\ callbacks' = callbacks \cup {new}
  BY DEF CallRcu, HandOver, UpdaterAt, UpdateDone, heapVars, cellVars
<1>u. updater' = [updater EXCEPT ![c].pc = "sleep", ![c].old = NULL, ![c].new = NULL]
  BY DEF CallRcu, HandOver, UpdaterAt, UpdateDone, heapVars, cellVars
<1>2. /\ updater'[c].pc = "sleep"
      /\ \A d \in Cells : d # c => updater'[d] = updater[d]
  BY <1>0, <1>1, <1>u DEF Types, UpdaterType
<1>3. /\ \A d \in Cells : d # c => (HasNew(d)' <=> HasNew(d)) /\ (HasOld(d)' <=> HasOld(d))
      /\ ~HasNew(c) /\ HasOld(c) /\ ~HasNew(c)' /\ ~HasOld(c)'
  BY <1>1, <1>2 DEF HasNew, HasOld
<1>4. Ownership'
  <2>1. /\ \A d \in Cells : cell'[d] # NULL => cell'[d] \in mem'
        /\ \A d \in Cells : HasNew(d)' => updater'[d].new \in mem'
                                          /\ \A e \in Cells : updater'[d].new # cell'[e]
    BY <1>0, <1>1, <1>2, <1>3 DEF Ownership
  <2>2. \A d \in Cells : HasOld(d)' =>
          /\ updater'[d].old \in mem'
          /\ \A e \in Cells : /\ updater'[d].old # cell'[e]
                              /\ HasNew(e)' => updater'[d].old # updater'[e].new
    BY <1>0, <1>1, <1>2, <1>3 DEF Ownership
  <2>3. \A d \in Cells : /\ o # cell[d] /\ (HasNew(d) => o # updater[d].new)
                         /\ d # c /\ HasOld(d) => o # updater[d].old
    BY <1>0, <1>3 DEF Ownership
  <2>4. o \in mem /\ \A b \in callbacks : b.obj # o
    BY <1>0, <1>3 DEF Ownership
  <2>5. ASSUME NEW b \in callbacks'
        PROVE  /\ b.obj \in mem'
               /\ \A d \in Cells : /\ b.obj # cell'[d]
                                   /\ HasNew(d)' => b.obj # updater'[d].new
                                   /\ HasOld(d)' => b.obj # updater'[d].old
    <3>1. CASE b \in callbacks
      BY <1>0, <1>1, <1>2, <1>3, <3>1 DEF Ownership
    <3>2. CASE b.obj = o
      BY <1>1, <1>2, <1>3, <2>3, <2>4, <3>2
    <3> QED
      BY <1>1, <3>1, <3>2
  <2>6. \A d, e \in Cells : d # e =>
          /\ cell'[d] # NULL => cell'[d] # cell'[e]
          /\ HasNew(d)' /\ HasNew(e)' => updater'[d].new # updater'[e].new
          /\ HasOld(d)' /\ HasOld(e)' => updater'[d].old # updater'[e].old
    BY <1>0, <1>1, <1>2, <1>3 DEF Ownership
  <2>7. \A a, b \in callbacks' : a.obj = b.obj => a = b
    BY <1>0, <1>1, <2>4 DEF Ownership
  <2> QED
    BY <2>1, <2>2, <2>5, <2>6, <2>7 DEF Ownership
<1>5. Accounted'
  <2> SUFFICES ASSUME NEW q \in mem
               PROVE  \/ \E d \in Cells : q = cell[d]
                      \/ \E d \in Cells : HasNew(d)' /\ q = updater'[d].new
                      \/ \E d \in Cells : HasOld(d)' /\ q = updater'[d].old
                      \/ \E b \in callbacks' : q = b.obj
    BY <1>1 DEF Accounted
  <2>1. CASE q = o
    <3>1. new \in callbacks' /\ new.obj = o
      BY <1>1
    <3> HIDE DEF new
    <3> QED
      BY <2>1, <3>1
  <2>2. CASE q # o
    <3>1. \/ \E d \in Cells : q = cell[d]
          \/ \E d \in Cells : HasNew(d) /\ q = updater[d].new
          \/ \E d \in Cells : HasOld(d) /\ q = updater[d].old
          \/ \E b \in callbacks : q = b.obj
      BY <1>0 DEF Accounted
    <3>2. (\E d \in Cells : HasNew(d) /\ q = updater[d].new)
            => \E d \in Cells : HasNew(d)' /\ q = updater'[d].new
      BY <1>2, <1>3
    <3>3. (\E d \in Cells : HasOld(d) /\ q = updater[d].old)
            => \E d \in Cells : HasOld(d)' /\ q = updater'[d].old
      BY <1>2, <1>3, <2>2
    <3> QED
      BY <1>1, <3>1, <3>2, <3>3
  <2> QED
    BY <2>1, <2>2
<1>6. Replaces' /\ CellsMade' /\ Contents'
  BY <1>0, <1>1, <1>2 DEF Replaces, CellsMade, Contents
<1>7. Protected'
  <2> SUFFICES ASSUME NEW d \in Cells, reader[d].pc = "reading"
               PROVE  LET p == reader[d].p IN
                      /\ p # NULL
                      /\ \/ p = cell[d]
                         \/ updater'[d].pc = "reclaim" /\ p = updater'[d].old
                         \/ /\ updater'[d].pc = "synchronize" /\ p = updater'[d].old
                            /\ d \in updater'[d].waits
                         \/ \E b \in callbacks' : p = b.obj /\ d \in b.waits
    BY <1>1 DEF Protected
  <2>1. d \in Readers
    BY DEF Readers
  <2>2. CASE reader[d].p = o
    <3>1. new \in callbacks' /\ new.obj = o /\ d \in new.waits
      BY <1>1, <2>1
    <3>2. o # NULL
      BY <1>0, <2>2 DEF Protected
    <3> HIDE DEF new
    <3> QED
      BY <2>2, <3>1, <3>2
  <2>3. CASE reader[d].p # o
    BY <1>0, <1>1, <1>2, <2>3 DEF Protected
  <2> QED
    BY <2>2, <2>3
<1> QED
  BY <1>4, <1>5, <1>6, <1>7 DEF Loaded

\* synchronize_rcu begins and waits for every reader that holds the old object.
LEMMA SynchronizeKeeps ==
  ASSUME LoadedIInv, NEW c \in Cells, SynchronizeRcu(c)
  PROVE  Loaded'
<1>0. /\ Types /\ Ownership /\ Accounted /\ Replaces /\ Protected
      /\ CellsMade /\ Contents
  BY DEF LoadedIInv, Loaded, TInv
<1>1. /\ updater[c].pc = "reclaim"
      /\ UNCHANGED <<mem, foo, cell, version, reader, callbacks, main>>
  BY DEF SynchronizeRcu, UpdaterAt, heapVars, cellVars
<1>u. updater' = [updater EXCEPT ![c].pc = "synchronize", ![c].waits = Readers]
  BY DEF SynchronizeRcu, UpdaterAt, heapVars, cellVars
<1>2. /\ updater'[c].pc = "synchronize" /\ updater'[c].waits = Readers
      /\ updater'[c].old = updater[c].old /\ updater'[c].new = updater[c].new
      /\ \A d \in Cells : d # c => updater'[d] = updater[d]
  BY <1>0, <1>1, <1>u DEF Types, UpdaterType
<1>3. \A d \in Cells : (HasNew(d)' <=> HasNew(d)) /\ (HasOld(d)' <=> HasOld(d))
                       /\ updater'[d].old = updater[d].old
                       /\ updater'[d].new = updater[d].new
  BY <1>1, <1>2 DEF HasNew, HasOld
<1>4. Ownership'
  BY <1>0, <1>1, <1>3 DEF Ownership
<1>5. Accounted'
  BY <1>0, <1>1, <1>3 DEF Accounted
<1>6. Replaces' /\ CellsMade' /\ Contents'
  BY <1>0, <1>1, <1>2 DEF Replaces, CellsMade, Contents
<1>7. \A d \in Cells : reader[d].pc = "reading" => d \in Readers
  BY DEF Readers
<1>8. Protected'
  BY <1>0, <1>1, <1>2, <1>7 DEF Protected
<1> QED
  BY <1>4, <1>5, <1>6, <1>8 DEF Loaded

\* The old object is freed when nobody holds it.
LEMMA SynchronizedFreeKeeps ==
  ASSUME LoadedIInv, NEW c \in Cells, SynchronizedFree(c)
  PROVE  Loaded'
<1>0. /\ Types /\ Ownership /\ Accounted /\ Replaces /\ Protected
      /\ CellsMade /\ Contents
  BY DEF LoadedIInv, Loaded, TInv
<1> DEFINE o == updater[c].old
<1>1. /\ updater[c].pc = "synchronize" /\ updater[c].waits = {}
      /\ UNCHANGED <<foo, cell, version, reader, callbacks, main>>
      /\ mem' = mem \ {o}
  BY DEF SynchronizedFree, UpdaterAt, UpdateDone, Free, cellVars
<1>u. updater' = [updater EXCEPT ![c].pc = "sleep", ![c].old = NULL, ![c].new = NULL]
  BY DEF SynchronizedFree, UpdaterAt, UpdateDone, Free, cellVars
<1>2. /\ updater'[c].pc = "sleep"
      /\ \A d \in Cells : d # c => updater'[d] = updater[d]
  BY <1>0, <1>1, <1>u DEF Types, UpdaterType
<1>3. /\ \A d \in Cells : d # c => (HasNew(d)' <=> HasNew(d)) /\ (HasOld(d)' <=> HasOld(d))
      /\ ~HasNew(c) /\ HasOld(c) /\ ~HasNew(c)' /\ ~HasOld(c)'
  BY <1>1, <1>2 DEF HasNew, HasOld
<1>4. /\ \A d \in Cells : /\ o # cell[d] /\ (HasNew(d) => o # updater[d].new)
                          /\ d # c /\ HasOld(d) => o # updater[d].old
      /\ o \in mem /\ \A b \in callbacks : b.obj # o
  BY <1>0, <1>3 DEF Ownership
<1>5. Ownership'
  BY <1>0, <1>1, <1>2, <1>3, <1>4 DEF Ownership
<1>6. Accounted'
  BY <1>0, <1>1, <1>2, <1>3 DEF Accounted
<1>7. Replaces' /\ CellsMade' /\ Contents'
  BY <1>0, <1>1, <1>2 DEF Replaces, CellsMade, Contents
<1>8. Protected'
  BY <1>0, <1>1, <1>2 DEF Protected
<1> QED
  BY <1>5, <1>6, <1>7, <1>8 DEF Loaded

\* An object whose grace period is over is in no reader's hands.
LEMMA ReclaimerKeeps ==
  ASSUME LoadedIInv, Reclaimer
  PROVE  Loaded'
<1>0. /\ Types /\ Ownership /\ Accounted /\ Replaces /\ Protected
      /\ CellsMade /\ Contents
  BY DEF LoadedIInv, Loaded, TInv
<1>1. PICK b \in callbacks : /\ b.waits = {} /\ mem' = mem \ {b.obj}
                             /\ callbacks' = callbacks \ {b}
  BY DEF Reclaimer, Free
<1>2. UNCHANGED <<foo, cell, version, reader, updater, main>>
  BY DEF Reclaimer, Free, cellVars
<1>3. \A a \in callbacks' : a \in callbacks /\ a.obj # b.obj
  BY <1>0, <1>1 DEF Ownership
<1>4. Ownership'
  BY <1>0, <1>1, <1>2, <1>3 DEF Ownership, HasNew, HasOld
<1>5. Accounted'
  BY <1>0, <1>1, <1>2 DEF Accounted, HasNew, HasOld
<1>6. Replaces' /\ CellsMade' /\ Contents'
  BY <1>0, <1>2 DEF Replaces, CellsMade, Contents
<1>7. Protected'
  BY <1>0, <1>1, <1>2 DEF Protected
<1> QED
  BY <1>4, <1>5, <1>6, <1>7 DEF Loaded

LEMMA StartThreadsKeeps ==
  ASSUME LoadedIInv, StartThreads
  PROVE  Loaded'
<1>0. /\ Types /\ NotStarted /\ Ownership /\ Accounted /\ Replaces /\ Protected
      /\ CellsMade /\ Contents
  BY DEF LoadedIInv, Loaded, TInv
<1>1. /\ main = "kthread_run" /\ main' = "g_pfoo"
      /\ reader' = [c \in Cells |-> [reader[c] EXCEPT !.pc = "sleep"]]
      /\ updater' = [c \in Cells |-> [updater[c] EXCEPT !.pc = "sleep"]]
      /\ UNCHANGED <<mem, foo, cell, version, callbacks>>
  BY DEF StartThreads, Main, heapVars, cellVars
<1>2. \A c \in Cells : /\ updater[c].pc = "none"
                       /\ reader'[c].pc = "sleep" /\ updater'[c].pc = "sleep"
  BY <1>0, <1>1 DEF NotStarted, Types, ReaderType, UpdaterType
<1>3. \A c \in Cells : ~HasNew(c) /\ ~HasOld(c) /\ ~HasNew(c)' /\ ~HasOld(c)'
  BY <1>2 DEF HasNew, HasOld
<1>4. Ownership' /\ Accounted'
  BY <1>0, <1>1, <1>3 DEF Ownership, Accounted
<1>5. Replaces' /\ CellsMade' /\ Protected' /\ Contents'
  BY <1>0, <1>1, <1>2 DEF Replaces, CellsMade, Protected, Contents
<1> QED
  BY <1>4, <1>5 DEF Loaded

\* A cell is filled once, with a new block.
LEMMA InitCellKeeps ==
  ASSUME LoadedIInv, NEW c \in Cells, InitCell(c)
  PROVE  Loaded'
<1>0. /\ Types /\ Ownership /\ Accounted /\ Replaces /\ Protected
      /\ CellsMade /\ Contents
  BY DEF LoadedIInv, Loaded, TInv
<1>1. PICK o \in Objs : Alloc(o) /\ cell' = [cell EXCEPT ![c] = o]
  BY DEF InitCell
<1>2. UNCHANGED <<version, reader, updater, callbacks>>
  BY DEF InitCell
<1>3. /\ o \notin mem /\ mem' = mem \cup {o} /\ o # NULL
      /\ \A q \in mem : q \in Objs /\ foo'[q] = foo[q]
      /\ \A f \in Fields : foo'[o][f] = 0
  BY <1>0, <1>1, RcuAssumption DEF Alloc, Types
<1>4. cell[c] = NULL /\ version[c] = 0
  BY <1>0 DEF InitCell, Main, CellsMade, Cells
<1>5. cell'[c] = o /\ \A d \in Cells : d # c => cell'[d] = cell[d]
  BY <1>0, <1>1 DEF Types
<1>6. \A d \in Cells : (HasNew(d)' <=> HasNew(d)) /\ (HasOld(d)' <=> HasOld(d))
  BY <1>2 DEF HasNew, HasOld
<1>7. Ownership'
  BY <1>0, <1>2, <1>3, <1>5, <1>6 DEF Ownership
<1>8. Accounted'
  <2>1. o = cell'[c]
    BY <1>5
  <2>2. \A q \in mem : (\E d \in Cells : q = cell[d]) => \E d \in Cells : q = cell'[d]
    BY <1>0, <1>4, <1>5, RcuAssumption DEF Types
  <2> QED
    BY <1>0, <1>2, <1>3, <1>6, <2>1, <2>2 DEF Accounted
<1>9. \A d \in Cells : updater[d].pc \in {"set", "publish"} => d # c
  <2>1. \A d \in Cells : updater[d].pc \in {"set", "publish"} => cell[d] # NULL
    BY <1>0, RcuAssumption DEF Replaces, LoadedIInv, TInv, Equipped
  <2> QED
    BY <1>4, <2>1
<1>10. Replaces'
  BY <1>0, <1>2, <1>5, <1>9 DEF Replaces
<1>11. Protected'
  BY <1>0, <1>2, <1>4, <1>5 DEF Protected
<1>12. CellsMade'
  BY <1>0, <1>2, <1>3, <1>5 DEF CellsMade, InitCell, Main, Cells
<1>13. Contents'
  <2>1. \A d \in Cells : cell'[d] # NULL => \A f \in Fields : foo'[cell'[d]][f] = version[d]
    BY <1>0, <1>3, <1>4, <1>5 DEF Contents, Ownership
  <2>2. \A d \in Cells : updater[d].pc = "publish" => foo'[updater[d].new] = foo[updater[d].new]
    BY <1>0, <1>3 DEF Ownership, HasNew
  <2>3. \A d \in Cells : reader[d].pc = "reading" => foo'[reader[d].p] = foo[reader[d].p]
    BY <1>3, ReadersBlock
  <2> QED
    BY <1>0, <1>2, <2>1, <2>2, <2>3 DEF Contents
<1> QED
  BY <1>7, <1>8, <1>10, <1>11, <1>12, <1>13 DEF Loaded

LEMMA LoadedKept ==
  ASSUME LoadedIInv, [Next]_vars, ~Unloading'
  PROVE  Loaded'
<1>1. ASSUME NEW c \in Cells, Reader(c) PROVE Loaded'
  BY <1>1, ReaderStaysInside, ReaderLeaves DEF Reader
<1>2. ASSUME NEW c \in Cells, Updater(c) PROVE Loaded'
  BY <1>2, UpdateAllocKeeps, UpdateWriteKeeps, UpdatePublishKeeps, CallRcuKeeps,
     SynchronizeKeeps, SynchronizedFreeKeeps
     DEF Updater
<1>3. CASE Reclaimer
  BY <1>3, ReclaimerKeeps
<1>4. CASE ReclaimerGone
  BY <1>4 DEF ReclaimerGone, Unloading
<1>5. CASE Loader
  <2>1. ~(\E c \in Cells : ExitFree(c)) /\ ~ExitStop
    BY DEF ExitFree, ExitStop, Main, Unloading
  <2> QED
    BY <1>5, <2>1, StartThreadsKeeps, InitCellKeeps DEF Loader
<1>6. CASE UNCHANGED vars
  BY <1>6 DEF vars, heapVars, cellVars, LoadedIInv, Loaded, Ownership, Accounted, Replaces,
              Protected, CellsMade, Contents, HasNew, HasOld
<1> QED
  BY <1>1, <1>2, <1>3, <1>4, <1>5, <1>6 DEF Next

LEMMA HeapKept == IInv /\ [Next]_vars => IInv'
<1> SUFFICES ASSUME IInv, [Next]_vars PROVE IInv'
  OBVIOUS
<1>1. TInv /\ TInv'
  BY TypesKept DEF IInv
<1>2. ASSUME ~Unloading' PROVE Loaded'
  <2>1. ~Unloading
    BY <1>2 DEF Unloading, Next, Reader, ReadLock, ReadDereference, ReadField, ReadUnlock,
                ReadNull, Updater, UpdateAlloc, UpdateCopy, UpdateNull, UpdateSet, SetFields,
                UpdatePublish, CallRcu, HandOver, SynchronizeRcu, SynchronizedFree,
                Reclaimer, ReclaimerGone, Loader, StartThreads, InitCell, ExitFree, ExitStop,
                Main, vars
  <2>2. LoadedIInv
    BY <1>1, <2>1 DEF IInv, HInv, LoadedIInv, Loaded
  <2> QED
    BY <1>2, <2>2, LoadedKept
<1> QED
  BY <1>1, <1>2 DEF IInv, HInv, Loaded

LEMMA HeapAlways == Spec => []IInv
<1>1. Init => IInv
  BY TypesInitially, LoadedInitially DEF IInv, HInv, Loaded
<1> QED
  BY <1>1, HeapKept, PTL DEF Spec

-----------------------------------------------------------------------------
\* Until the module is unloaded, no reader and no updater holds an object whose
\* memory rcu_reclaimer or kfree has given back (rcu_demo.c).
THEOREM RcuNoUseAfterFree == Spec => []NoUseAfterFree
<1>1. IInv => NoUseAfterFree
  <2> SUFFICES ASSUME IInv, ~Unloading, NEW c \in Cells
               PROVE  /\ reader[c].pc = "reading" => reader[c].p \in mem
                      /\ updater[c].pc \in {"set", "publish", "reclaim", "synchronize"}
                           => updater[c].old \in mem
    BY DEF NoUseAfterFree
  <2>1. LoadedIInv
    BY DEF IInv, HInv, LoadedIInv, Loaded
  <2>2. reader[c].pc = "reading" => reader[c].p \in mem
    BY <2>1, ReadersBlock
  <2>3. updater[c].pc \in {"set", "publish"} => updater[c].old \in mem
    BY <2>1, RcuAssumption DEF LoadedIInv, Loaded, Replaces, Ownership, TInv, Equipped
  <2>4. updater[c].pc \in {"reclaim", "synchronize"} => updater[c].old \in mem
    BY <2>1 DEF LoadedIInv, Loaded, Ownership, HasOld
  <2> QED
    BY <2>2, <2>3, <2>4
<1> QED
  BY <1>1, HeapAlways, PTL

\* Until the module is unloaded, what a reader prints is one version, no older
\* than its section (rcu_reader and rcu_reader_list against their updaters).
THEOREM RcuOldOrNew == Spec => []LoadedOldOrNew
<1>1. IInv => LoadedOldOrNew
  <2> SUFFICES ASSUME IInv, ~Unloading, NEW c \in Cells
               PROVE  \E v \in reader[c].base..version[c] :
                        \A f \in DOMAIN reader[c].seen : reader[c].seen[f] = v
    BY DEF LoadedOldOrNew, OldOrNew
  <2>1. Types /\ Entered /\ Contents
    BY DEF IInv, TInv, HInv
  <2>2. CASE reader[c].pc = "reading"
    BY <2>1, <2>2 DEF Contents
  <2>3. CASE reader[c].pc # "reading"
    <3>1. DOMAIN reader[c].seen = {}
      BY <2>1, <2>3 DEF Entered
    <3>2. version[c] \in reader[c].base..version[c]
      BY <2>1 DEF Types, Entered, ReaderType, Version
    <3> QED
      BY <3>1, <3>2
  <2> QED
    BY <2>2, <2>3
<1> QED
  BY <1>1, HeapAlways, PTL

\* Objects and callbacks are as many as each other.
LEMMA CallbacksCounted ==
  ASSUME Types, Ownership
  PROVE  LET waiting == {b.obj : b \in callbacks}
         IN  IsFiniteSet(waiting) /\ Cardinality(waiting) = Cardinality(callbacks)
<1> DEFINE waiting == {b.obj : b \in callbacks}
           f == [b \in callbacks |-> b.obj]
<1>1. waiting \subseteq Objs
  BY DEF Types
<1>2. IsFiniteSet(waiting)
  BY <1>1, RcuAssumption, FS_Subset
<1>3. f \in Bijection(callbacks, waiting)
  <2>1. f \in [callbacks -> waiting]
    OBVIOUS
  <2>2. \A a, b \in callbacks : f[a] = f[b] => a = b
    BY DEF Ownership
  <2>3. \A q \in waiting : \E b \in callbacks : f[b] = q
    OBVIOUS
  <2> HIDE DEF f, waiting
  <2> QED
    BY <2>1, <2>2, <2>3 DEF Bijection, Injection, Surjection, IsInjective
<1>4. f \in Injection(callbacks, waiting) /\ f \in Surjection(callbacks, waiting)
  BY <1>3 DEF Bijection
<1> HIDE DEF f, waiting
<1>5. Cardinality(callbacks) = Cardinality(waiting)
  BY <1>2, <1>4, FS_Injection
<1> QED
  BY <1>2, <1>5 DEF waiting

\* Until the module is unloaded, every allocated block is published, in an
\* updater's hands or waiting for its grace period, and in one way only: the
\* demonstration leaks nothing and frees nothing twice (rcu_demo.c).
THEOREM RcuMemoryAccounted == Spec => []MemoryAccounted
<1>1. IInv => MemoryAccounted
  <2> SUFFICES ASSUME IInv, ~Unloading PROVE MemoryAccounted
    BY DEF MemoryAccounted
  <2>1. Types /\ Equipped /\ Ownership /\ Accounted
    BY DEF IInv, TInv, HInv
  <2> DEFINE published == {cell[c] : c \in Cells} \ {NULL}
             held      == UNION {Held(c) : c \in Cells}
             waiting   == {b.obj : b \in callbacks}
  <2>2. \A q : q \in held <=> \E c \in Cells : \/ HasNew(c) /\ q = updater[c].new
                                               \/ HasOld(c) /\ q = updater[c].old
    BY DEF Held, HasNew, HasOld
  <2>3. mem = published \cup held \cup waiting
    <3>1. mem \subseteq published \cup held \cup waiting
      BY <2>1, <2>2, RcuAssumption DEF Accounted, Types
    <3>2. published \subseteq mem /\ waiting \subseteq mem
      BY <2>1 DEF Ownership
    <3>3. held \subseteq mem
      BY <2>1, <2>2 DEF Ownership
    <3> QED
      BY <3>1, <3>2, <3>3
  <2>4. published \cap held = {} /\ (published \cup held) \cap waiting = {}
    BY <2>1, <2>2 DEF Ownership
  <2>5. IsFiniteSet(mem)
    BY <2>1, RcuAssumption, FS_Subset DEF Types
  <2>6. IsFiniteSet(waiting) /\ Cardinality(waiting) = Cardinality(callbacks)
    BY <2>1, CallbacksCounted
  <2> HIDE DEF published, held, waiting
  <2>7. IsFiniteSet(published) /\ IsFiniteSet(held) /\ IsFiniteSet(published \cup held)
    BY <2>3, <2>5, FS_Subset
  <2>8. /\ Cardinality(published) \in Nat /\ Cardinality(held) \in Nat
        /\ Cardinality(waiting) \in Nat /\ Cardinality(published \cup held) \in Nat
    BY <2>6, <2>7, FS_CardinalityType
  <2>9. Cardinality({}) = 0
    BY FS_EmptySet
  <2>10. Cardinality(published \cup held) = Cardinality(published) + Cardinality(held)
    <3>1. Cardinality(published \cup held)
            = Cardinality(published) + Cardinality(held) - Cardinality(published \cap held)
      BY <2>7, FS_Union
    <3>2. Cardinality(published \cap held) = 0
      BY <2>4, <2>9
    <3> QED
      BY <2>8, <3>1, <3>2
  <2>11. Cardinality((published \cup held) \cup waiting)
           = Cardinality(published \cup held) + Cardinality(waiting)
    <3> DEFINE used == published \cup held
    <3>1. IsFiniteSet(used) /\ used \cap waiting = {} /\ Cardinality(used) \in Nat
      BY <2>4, <2>7, <2>8
    <3> HIDE DEF used
    <3>2. Cardinality(used \cup waiting)
            = Cardinality(used) + Cardinality(waiting) - Cardinality(used \cap waiting)
      BY <2>6, <3>1, FS_Union
    <3>3. Cardinality(used \cup waiting) = Cardinality(used) + Cardinality(waiting)
      BY <2>8, <2>9, <3>1, <3>2
    <3> QED
      BY <3>3 DEF used
  <2>12. Cardinality(mem) = Cardinality(published) + Cardinality(held)
                            + Cardinality(callbacks)
    BY <2>3, <2>6, <2>8, <2>10, <2>11
  <2> QED
    BY <2>3, <2>12 DEF MemoryAccounted, published, held, waiting
<1> QED
  BY <1>1, HeapAlways, PTL
=============================================================================
