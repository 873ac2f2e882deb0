------------------------------- MODULE TheDma -------------------------------
(***************************************************************************)
(* The DMA driver the_dma.c and the processes of dma_test.c that call it:  *)
(* its ioctl, which copies one buffer to the other by itself or by channel *)
(* 2 of the DMA controller, the channel's interrupt, and the module's init *)
(* and exit.  The kernel calls .ioctl under the big kernel lock, which a   *)
(* process gives up while it sleeps.                                       *)
(***************************************************************************)
EXTENDS Integers, FiniteSets

CONSTANTS Callers,      \* processes
          NoCaller,
          Units,        \* units of TRANS_SIZE, moved one by one
          DmaCalls      \* bound on the calls of ioctl

ASSUME DmaAssumption == /\ NoCaller \notin Callers
                        /\ Units \in Nat \ {0} /\ DmaCalls \in Nat

VARIABLES dmaAt,        \* how far init and exit have come
          dmaNode,      \* "none", "there", "missing", or "no class"
          memory,       \* my_src and my_dst: "none", "live", "null" or "freed"
          irqOn,        \* my_dma_func is requested
          caller,       \* where each process is
          cmd,          \* what each process asks for
          bkl,          \* who holds the big kernel lock
          calls,
          my_dst,       \* my_dst[i]: has unit i been copied since the memset
          expert,
          moving,       \* units the running transfer has moved, or Stopped
          again,        \* a second request is waiting in the channel
          results,      \* the lines printed: the pairs of cmd and verdict
          interfered,   \* a caller came while another slept, or got a signal
          early,        \* a process opened the device before init was through
          dmaFault

callVars == <<caller, cmd, bkl, calls>>
chanVars == <<moving, again>>
loadVars == <<dmaAt, dmaNode, memory, irqOn>>
noteVars == <<interfered, early>>
dmaVars  == <<loadVars, callVars, my_dst, expert, chanVars, results, noteVars,
              dmaFault>>

Stopped == -1
Cmds == {"MEM_NO_DMA", "MEM_DMA", "other"}
Reset == [i \in 1..Units |-> FALSE]
Copied == [i \in 1..Units |-> TRUE]

\* A fault is recorded by what it is, and DmaNext ends the execution there.
DmaFaulty(cond, kind) == dmaFault' = IF cond THEN dmaFault \cup {kind} ELSE dmaFault
Sleeping == {p \in Callers : caller[p] = "asleep"}

-----------------------------------------------------------------------------
(* The DMA channel.                                                        *)

\* One unit is moved; the buffers may be gone by now.
MoveUnit ==
  /\ moving \in 0 .. Units - 1
  /\ my_dst' = [my_dst EXCEPT ![moving + 1] = TRUE]
  /\ moving' = moving + 1
  /\ DmaFaulty(memory # "live", "transfer into freed memory")
  /\ UNCHANGED <<loadVars, callVars, expert, again, results, noteVars>>

\* The count reaches zero: the channel interrupts, and goes on with a second
\* request if it has one.  my_dma_func sets expert and wakes who sleeps.
my_dma_func ==
  /\ moving = Units
  /\ moving' = IF again THEN 0 ELSE Stopped
  /\ again' = FALSE
  /\ IF irqOn
     THEN /\ expert' = TRUE
          /\ caller' = [p \in Callers |-> IF p \in Sleeping THEN "awake" ELSE caller[p]]
     ELSE UNCHANGED <<expert, caller>>
  /\ DmaFaulty(irqOn /\ dmaAt = "failed", "code gone")
  /\ UNCHANGED <<loadVars, cmd, bkl, calls, my_dst, results, noteVars>>

-----------------------------------------------------------------------------
(* A process.                                                              *)

OpenDma(p) ==
  /\ dmaAt \in {"node", "memory", "irq", "loaded"} /\ dmaNode = "there"
  /\ caller[p] = "out"
  /\ caller' = [caller EXCEPT ![p] = "open"]
  /\ early' = (early \/ dmaAt # "loaded")
  /\ UNCHANGED <<loadVars, cmd, bkl, calls, my_dst, expert, chanVars, results,
                 interfered, dmaFault>>

CloseDma(p) ==
  /\ caller[p] = "open"
  /\ caller' = [caller EXCEPT ![p] = "out"]
  /\ DmaFaulty(dmaAt = "failed", "code gone")
  /\ UNCHANGED <<loadVars, cmd, bkl, calls, my_dst, expert, chanVars, results,
                 noteVars>>

\* my_ioctl up to the switch.  It fills the buffers whether they are there or not.
my_ioctl(p, c) ==
  /\ caller[p] = "open" /\ bkl = NoCaller /\ calls < DmaCalls
  /\ bkl' = p /\ calls' = calls + 1
  /\ cmd' = [cmd EXCEPT ![p] = c]
  /\ caller' = [caller EXCEPT ![p] = "switch"]
  /\ my_dst' = Reset
  /\ expert' = FALSE
  /\ interfered' = (interfered \/ \E q \in Callers : caller[q] \in {"asleep", "awake"})
  /\ DmaFaulty(memory # "live", IF memory = "null" THEN "null buffer" ELSE "no memory")
  /\ UNCHANGED <<loadVars, chanVars, results, early>>

CopyByCpu(p) ==
  /\ caller[p] = "switch" /\ cmd[p] = "MEM_NO_DMA"
  /\ my_dst' = Copied
  /\ caller' = [caller EXCEPT ![p] = "compare"]
  /\ UNCHANGED <<loadVars, cmd, bkl, calls, expert, chanVars, results, noteVars,
                 dmaFault>>

\* The channel is programmed and triggered.  A request to a channel that is
\* running waits there or is lost.
StartDma(p) ==
  /\ caller[p] = "switch" /\ cmd[p] = "MEM_DMA"
  /\ IF moving = Stopped
     THEN moving' = 0 /\ UNCHANGED again
     ELSE UNCHANGED moving /\ again' \in {again, TRUE}
  /\ caller' = [caller EXCEPT ![p] = "wait"]
  /\ DmaFaulty(dmaAt # "loaded", "no registers")
  /\ UNCHANGED <<loadVars, cmd, bkl, calls, my_dst, expert, results, noteVars>>

WrongCmd(p) ==
  /\ caller[p] = "switch" /\ cmd[p] = "other"
  /\ caller' = [caller EXCEPT ![p] = "open"]
  /\ bkl' = NoCaller
  /\ UNCHANGED <<loadVars, cmd, calls, my_dst, expert, chanVars, results, noteVars,
                 dmaFault>>

\* wait_event_interruptible finds the condition true or sleeps without the lock.
WaitEvent(p) ==
  /\ caller[p] = "wait"
  /\ IF expert
     THEN caller' = [caller EXCEPT ![p] = "compare"] /\ UNCHANGED bkl
     ELSE caller' = [caller EXCEPT ![p] = "asleep"] /\ bkl' = NoCaller
  /\ UNCHANGED <<loadVars, cmd, calls, my_dst, expert, chanVars, results, noteVars,
                 dmaFault>>

\* It takes the lock back before it looks at the condition again.
Reacquire(p) ==
  /\ caller[p] = "awake" /\ bkl = NoCaller
  /\ bkl' = p
  /\ caller' = [caller EXCEPT ![p] = "wait"]
  /\ UNCHANGED <<loadVars, cmd, calls, my_dst, expert, chanVars, results, noteVars,
                 dmaFault>>

\* The only way to end dma_test is a signal, and its result is ignored.
Signal(p) ==
  /\ caller[p] = "asleep" /\ bkl = NoCaller
  /\ bkl' = p
  /\ caller' = [caller EXCEPT ![p] = "compare"]
  /\ interfered' = TRUE
  /\ UNCHANGED <<loadVars, cmd, calls, my_dst, expert, chanVars, results, early,
                 dmaFault>>

Compare(p) ==
  /\ caller[p] = "compare"
  /\ results' = results \cup {<<cmd[p], IF my_dst = Copied THEN "OK" ELSE "ERROR">>}
  /\ caller' = [caller EXCEPT ![p] = "open"]
  /\ bkl' = NoCaller
  /\ UNCHANGED <<loadVars, cmd, calls, my_dst, expert, chanVars, noteVars, dmaFault>>

-----------------------------------------------------------------------------
(* Module init and exit.                                                   *)

DmaLoad(from, to) == dmaAt = from /\ dmaAt' = to

\* What init and exit do not touch.
loadRest == <<callVars, my_dst, expert, chanVars, results, noteVars>>

\* register_chrdev, class_create and device_create, of which init checks none:
\* from here on the device can be opened if all have worked, and my_class is an
\* error code if the second has not.
InitNode == /\ DmaLoad("none", "node")
            /\ dmaNode' \in {"there", "missing", "no class"}
            /\ UNCHANGED <<memory, irqOn, loadRest, dmaFault>>

\* Nor does it check the two allocations: either may have given NULL.
InitMemory == /\ DmaLoad("node", "memory")
              /\ memory' \in {"live", "null"}
              /\ UNCHANGED <<dmaNode, irqOn, loadRest, dmaFault>>

InitIrq == /\ DmaLoad("memory", "irq")
           /\ irqOn' = TRUE
           /\ UNCHANGED <<dmaNode, memory, loadRest, dmaFault>>

InitRegs == /\ DmaLoad("irq", "loaded")
            /\ UNCHANGED <<dmaNode, memory, irqOn, loadRest, dmaFault>>

\* The buffers are freed (NULL is not one of the allocator's, which it says and
\* goes on), then the device, the class and the major number are given back.
\* device_destroy looks into my_class.
GiveBack == /\ memory' = "freed"
            /\ DmaFaulty(dmaNode = "no class", "destroyed an error")

\* my_out: reached when request_irq or ioremap fails; the interrupt stays.
InitFails == /\ dmaAt \in {"memory", "irq"} /\ dmaAt' = "failed"
             /\ GiveBack
             /\ UNCHANGED <<dmaNode, irqOn, loadRest>>

\* Mutation of ExitAllowed: the file operations have no owner.
ExitAnyTime == dmaAt = "loaded"

\* A module with open files is not unloaded.
ExitAllowed == dmaAt = "loaded" /\ \A p \in Callers : caller[p] = "out"

\* my_dma_exit: iounmap and free_irq ...
ExitIrq == /\ ExitAllowed /\ DmaLoad("loaded", "stopping")
           /\ irqOn' = FALSE
           /\ UNCHANGED <<dmaNode, memory, loadRest, dmaFault>>

\* ... then what my_out gives back as well
ExitMemory == /\ DmaLoad("stopping", "gone")
              /\ GiveBack
              /\ UNCHANGED <<dmaNode, irqOn, loadRest>>

-----------------------------------------------------------------------------
DmaInit ==
  /\ dmaAt = "none" /\ dmaNode = "none" /\ memory = "none" /\ irqOn = FALSE
  /\ caller = [p \in Callers |-> "out"] /\ cmd = [p \in Callers |-> "other"]
  /\ bkl = NoCaller /\ calls = 0
  /\ my_dst = Reset /\ expert = FALSE
  /\ moving = Stopped /\ again = FALSE
  /\ results = {} /\ dmaFault = {}
  /\ interfered = FALSE /\ early = FALSE

CallerStep(p) == \/ CopyByCpu(p) \/ StartDma(p) \/ WrongCmd(p) \/ WaitEvent(p)
                 \/ Reacquire(p) \/ Compare(p)

\* The execution is followed up to the first fault.
DmaNext ==
  /\ dmaFault = {}
  /\ \/ MoveUnit \/ my_dma_func
     \/ \E p \in Callers : \/ OpenDma(p) \/ CloseDma(p) \/ Signal(p)
                           \/ \E c \in Cmds : my_ioctl(p, c)
                           \/ CopyByCpu(p) \/ StartDma(p) \/ WrongCmd(p)
                           \/ WaitEvent(p) \/ Reacquire(p) \/ Compare(p)
     \/ InitNode \/ InitMemory \/ InitIrq \/ InitRegs \/ InitFails
     \/ ExitIrq \/ ExitMemory

\* The channel moves on, and every process runs.
DmaFairness == /\ WF_dmaVars(dmaFault = {} /\ (MoveUnit \/ my_dma_func))
               /\ \A p \in Callers : WF_dmaVars(dmaFault = {} /\ CallerStep(p))

-----------------------------------------------------------------------------
DmaTypeOK ==
  /\ dmaAt \in {"none", "node", "memory", "irq", "loaded", "failed", "stopping", "gone"}
  /\ dmaNode \in {"none", "there", "missing", "no class"}
  /\ memory \in {"none", "live", "null", "freed"} /\ irqOn \in BOOLEAN
  /\ caller \in [Callers -> {"out", "open", "switch", "wait", "asleep", "awake",
                             "compare"}]
  /\ cmd \in [Callers -> Cmds]
  /\ bkl \in Callers \cup {NoCaller} /\ calls \in 0..DmaCalls
  /\ my_dst \in [1..Units -> BOOLEAN] /\ expert \in BOOLEAN
  /\ moving \in 0..Units \cup {Stopped} /\ again \in BOOLEAN
  /\ results \subseteq Cmds \X {"OK", "ERROR"}
  /\ interfered \in BOOLEAN /\ early \in BOOLEAN

\* A transfer is reported as failed only when a signal cut a wait short or a
\* second caller came into the wait of the first; a copy by the processor never
\* is, since whatever transfer still runs moves the same bytes.
ErrorsExplained ==
  /\ <<"MEM_DMA", "ERROR">> \in results => interfered
  /\ <<"MEM_NO_DMA", "ERROR">> \notin results

\* Buffers, registers and code are used only while they are there, unless the
\* device was opened while init was still running, or a transfer outlived the
\* call that started it, which takes a signal or a second caller: the interrupt
\* of the first transfer sends both home while the second transfer begins.  What
\* init does not check shows later: a NULL buffer in the first call of ioctl
\* (the_dma.c:53, 54), and a class that could not be created when the module or
\* a failing init gives it back (:145, :157).
DmaFaultsExplained ==
  dmaFault # {} =>
    \/ early
    \/ interfered /\ dmaFault = {"transfer into freed memory"}
    \/ memory = "null" /\ dmaFault = {"null buffer"}
    \/ dmaNode = "no class" /\ dmaFault = {"destroyed an error"}

\* A caller that nobody interferes with wakes up when its transfer is done.
TransferEnds ==
  \A p \in Callers : caller[p] = "asleep" ~> (caller[p] # "asleep" \/ interfered)

DmaAloneWorks == [](ErrorsExplained /\ DmaFaultsExplained) /\ TransferEnds
=============================================================================
