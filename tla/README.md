# A TLA+ model of linux_share

The repository is a collection of Linux examples: four user-space network
programs, a note on counter wraparound, an RCU kernel module and two dozen
device drivers. With few exceptions its parts do not call each other; each is a
program or a kernel module of its own, and each is concurrent (or fallible)
against its *environment*: the kernel, the USB core, interrupts, other
processes. So the project has one module per program, and each module contains
the part of the environment that the program's correctness depends on.

The five larger programs (lists, event server, USB skeleton, RCU, socket
options) are specifications of their own. The smaller ones are modules with an
`Init`, a `Next` and fairness of their own, put together in `Demos`. Where parts
of the repository do share something the model has them together: two drivers
with the same GPIO pins, six modules on one I2C bus with one class name between
two of them, two processes on one 1-wire bus.

## Inventory

`NL/` stands for
`src/linux应用/网络高级编程/网络事件通知-网络接口信息及路由信息-netlink方式/`,
`DRV/` for `src/linux驱动/`, `APP/` for `src/linux应用/`.

| component | state it keeps | operations | hard about it | what makes it correct |
|---|---|---|---|---|
| **lists** `NL/src/list_op.c`, `NL/include/list_op.h` | `next`/`prev` of every node | add, add_tail, del, del_init, splice, init, empty, for_each, free_list | pointer order; several lists in one heap; deleted nodes keep their pointers | each ring stays closed and separate; the lists are the sequences one thinks of; `COMMON_FREE_LIST` ends |
| **netlink event server** `NL/src/netif_event.c`, `NL/src/netif_list.c` | socket, receive buffer, `buff`, the interface list, each node's flags, address and last event | start-up of `main`, event loop, link and address handlers | thread started before its list is initialised; dump and events interleave; overruns and truncation lose messages; `malloc` fails | having caught up without loss, the list agrees with the kernel; it does catch up |
| **USB skeleton driver** `DRV/7-usb/usb_skeleton.c` | `limit_sem`, `io_mutex`, `err_lock`, `errors`, read buffer bookkeeping, `kref`, URBs | open, read, write, flush, release, two completions, suspend, reset, disconnect | every one of them against every other | slots conserved, no use after free, no URB to a gone device, one owner of the read buffer, errors reported once |
| **RCU demonstration** `src/linux内核/rcu机制/rcu_demo.c` | `g_pfoo`, `g_rcu_list` and the objects | two readers, two updaters, reclaimer, load, unload | publication and reclamation under readers; unloading under all of them | a reader sees one whole version; nothing is freed early or leaks |
| **socket options** `APP/网络高级编程/SOL_SOCKET…/src/socket_op.c` | three variables holding descriptor numbers | some 90 system calls in a fixed order | void functions close on failure and the caller goes on; numbers are given out again | no half-configured listener; nobody closes another's socket |
| interface ioctls `…/网络接口操作示例/src/netif_op.c`, `…/ethtool/src/ethtool_op.c` | a socket; the kernel's settings | one ioctl after the other: set, then print | flags and MAC read, then written back; one setting resets others; calls fail | what was set stays set and is printed; another program's change is kept |
| wraparound `APP/变量溢出问题/main.c` | – | `time_after` | exactly half the range | total order inside a window |
| buttons and pins `DRV/3-input_event/key_input`, `DRV/1-character_device/HwControl` | `irq_info`, timer; port F | interrupt, timer, init, exit; open, write, close | one variable for four buttons; exit order; the two drivers share pins | no press lost, no use after free, pins at the written level |
| touch screen `DRV/3-input_event/touch_screen` | `count`, `xp`, `yp`, panel mode, timer | pen interrupt, ADC interrupt, timer, init, exit | pen lifted mid-sample; exit order; timer at a wrapped time | never stuck; reports average four samples |
| USB mice `DRV/7-usb/usb_mid`, `usb_hard` | one URB and its buffer in globals | probe, completion, disconnect, exit | self-resubmission against kill; two mice | buffer not used after it is freed |
| DMA `DRV/5-dma/the_dma` | `expert`, two buffers, one channel | open, ioctl, interrupt, init, exit | concurrent ioctls, signals, a transfer that outlives its caller | a call compares its own finished transfer |
| block drivers `DRV/2-block_device` | 2 MB buffer, major number, disk | requests, bios, init, exit | concurrent bios; pages that do not adjoin; what exit forgets | reads see writes |
| thermometer `DRV/1-character_device/ds18b20` | wire, `tl`, `th` | open, read | two readers on one wire; carry of a negative number | the printed number is the measured one |
| humidity `DRV/1-character_device/am2305` | wire | open, read | unbounded busy loops; delays | five bytes of one measurement; loops are left |
| I2C `DRV/4-iic` | devices, drivers, class, nodes | load and unload of each, open, read, write | any load order; two drivers create one class; no `remove` | a driver finds its chip; nothing is left behind |
| small modules: am2305, hw_control, ds18b20, lcd, nandflash, norflash, usb_simp | what init has taken | init, exit | a failure in the middle of init | nothing left, nothing used that is not there |
| virtual NIC, EHCI glue, i2c-tools, hello, log helpers | – | – | – | not modelled, see below |

`PROJECT.json` lists every component with its status, and under `hazards` the
places where each of them can go wrong in a way a test would hardly reach.

## Modules

| module | what it is | code |
|---|---|---|
| `SeqLists` | abstract lists of entries: what the list primitives promise | – |
| `ListOp` | the pointers, one action per primitive | `list_op.c`, `list_op.h` |
| `ListOpProofs` | type correctness and ring integrity | |
| `ListTraversalProofs` | traversals agree; the primitives implement `SeqLists` | |
| `NetifEvent` | event server and the kernel's rtnetlink side | `netif_event.c`, `netif_list.c`, `common_create_thread` |
| `NetifEventProofs` | type correctness, no missed address, nodes kept | |
| `NetifCurrentProofs` | the list agrees with the kernel's links and addresses | |
| `UsbSkel` | driver, completions, USB core | `usb_skeleton.c` |
| `UsbSkelProofs` | all the safety properties of `UsbSkel` that its run checks | |
| `RcuDemo` | threads, reclaimer, loader, grace periods | `rcu_demo.c` |
| `RcuDemoProofs` | all the safety properties of `RcuDemo` that its run checks | |
| `SocketOp` | descriptor table and the calls in order | `socket_op.c` |
| `SocketOpProofs` | all the properties of `SocketOp` that its run checks | |
| `Demos` | one of the demonstrations below, chosen at the start | – |
| `DemosProofs` | the types and the safety of all the small demonstrations | |
| `TouchScreen` | pen, converter, timer, init and exit on one core | `my_ts.c` |
| `TimeAfter` | `time_after` on a counter of any width | `变量溢出问题/main.c`; the kernel's comparison of jiffies, as `my_ts.c` relies on it |
| `KeyInput`, `HwControl` | buttons and output pins of GPIO port F | `key_input.c`, `hw_control.c` |
| `UsbMouse` | URB, buffer and USB core of both mouse drivers | `usb_mid.c`, `usb_hard.c` |
| `TheDma` | callers, big kernel lock, channel, interrupt | `the_dma.c`, `dma_test.c` |
| `RamDisk` | three drivers of a disk in memory | `blk_simp.c`, `blk_mid.c`, `blk_hard.c` |
| `NetifOp` | the ioctls in order, an administrator in between | `netif_op.c`, `ethtool_op.c` |
| `I2cDevices` | three pairs of device and driver modules on one bus | `i2c_dev.c` … `bh1750_drv.c` |
| `Ds18b20`, `Am2305` | one-wire sensors and their readers | `ds18b20.c`; `am2305.c` and its test |
| `ModuleLife` | init and exit of seven modules, step by step | `am2305.c`, `hw_control.c`, `ds18b20.c`, `lcd`, `nandflash`, `norflash`, `usb_simp` |
| `MC…` | constants for TLC | |

### ListOp

The cells are list heads and entries; `next`, `prev` are the code's pointers and
the assignments of `__list_add`, `__list_del`, `__list_splice` are made in the
code's order (visible when two of the cells are one: `LinkBetween` nests its
EXCEPTs). `owner` is a ghost: on whose ring a cell is. It gives the guards that
are the callers' obligations: an entry is added only when it is on no list, a
head that was spliced away is initialised before it is used again (the code
leaves it pointing into the other list). `common_list_del` and
`common_list_del_init` differ exactly as in the code: the first leaves the
removed entry's pointers alone. `COMMON_FREE_LIST` is a loop, so it is a start,
one step per node, and an end.

`Lists` maps the pointers to sequences by walking them; `ImplementsSeqLists` says
that each primitive is some step of `SeqLists` under that map, and `PrimitivesKeepOrder`
that it is the one its name promises (an `AddTail` that adds in front would still
be a step of `SeqLists`).

### NetifEvent

`main` is a sequence of steps (`mpc`), because the order is the point: socket and
`bind` (joining the groups), dump request, `pthread_create`, and only then the
mutex and `COMMON_INIT_LIST_HEAD`. The thread (`tpc`) waits in `epoll_wait`, then
never leaves `netlink_event_handle`; each `recvfrom` takes one datagram, cuts it
at the size of `buff`, and each message is dispatched as one step that contains
find-or-add, the attribute, and `net_event_notify`. `WalkUninitialisedList` is
the crash of a thread that walks the list head before `main` has initialised it.

The kernel changes links and addresses at any time, multicasts into a receive
buffer of `RcvBuf` datagrams that drops what does not fit and then reports
`ENOBUFS`, answers the dump in any order, and waits with the dump when there is
no room. `lost` and `announced` are history.

### UsbSkel

A process's `pc` names the place in `skel_open`, `skel_write`, `skel_read`,
`skel_flush`, `skel_release`; steps are cut at every lock operation and between
the unlocked accesses to `dev->errors` (read at line 268, cleared at 271). The
core's `cpc` runs suspend, reset and disconnect one after the other, as the
device lock of the USB core has it. `skel_probe` is over when the model starts.
Whether `copy_to_user` has worked changes only what `skel_read` returns: the bytes
count as copied and the next read is started all the same (lines 304 to 318), so
`ReadCopy` stands for both outcomes, and no property claims that the caller got
all bytes.

`ErrorLostOnlyInRace` says when an error may go unreported. `skel_post_reset` takes
`io_mutex` but not `err_lock`, so a `skel_write` that is between its read and its
clearing of `dev->errors` erases the notification of the reset; `skel_read` takes
`io_mutex` but not `err_lock`, so it erases the failure of a write that completes
between the two. The property leaves these two races and no other.

Assumed of the USB core, none of it visible in this file: `usb_open` holds
`minor_rwsem` around `skel_open`, so `usb_deregister_dev` waits for it; the
endpoints are disabled before `skel_disconnect`, so submissions fail and pending
URBs are given back; `usb_kill_urb` and `usb_kill_anchored_urbs` return only
after the completion has run; user processes are frozen during suspend.

### RcuDemo

A cell is `g_pfoo` or the one list entry. Readers take their arguments of
`pr_info` one field at a time, updaters allocate, copy, set, publish and hand
over in the code's order. A grace period is the set of readers that were inside
their sections when it began; `call_rcu` puts an object into `callbacks` with
that set, `synchronize_rcu` holds the updater. The fields of an object hold the
number of the update that set them, which makes "one whole version" checkable.
`Alloc` never returns a block something still points to, so that a use after
free shows as such instead of as an unrelated object. `fault` ends the run: what
follows is undefined. Failing `kthread_run` and `kzalloc` are left out. The
threads can run before `module_init` has made the objects (`ReadNull`,
`UpdateNull`).

### SocketOp

The program is data: the demo functions in the order in which they are called,
each a sequence of calls with the variable they go through and what the code does
when they fail (close and leave, report and leave, close and return -1, return
-1). The actions interpret that table on the descriptor table of the process:
`socket` gives the lowest free number, `close` of a number that is not open does
nothing, a call on a closed number fails, any call may fail. `getsockopt` gets an
uninitialised `len`, so a query can fail on a healthy socket; that is one of the
outcomes of `Fails`.

### Demos

An execution of `Demos` is one demonstration (`demo`, chosen at the start) while
the variables of the others rest: they share nothing, so their product would
only multiply the states. The parts:

* **TouchScreen.** `tsAt` is the place in init and exit; an interrupt handler is
  one step and goes before everything else, the timer function is two (it reads
  the pen, then acts, and an interrupt may come in between), init and exit are
  cut wherever an interrupt makes a difference. The timer is set to the *absolute*
  time `HZ/100`, as the code has it, so `jiffies` is a counter that wraps round
  and `TimeAfter` decides what is due.
* **KeyInput** and **HwControl.** The handler stores the pin in the one
  `irq_info` and sets the one timer; the timer function reads the pin (one step)
  and reports (another). `pinFn` and `latch` are the registers of port F, which
  open and close of `hw_control` rewrite under the buttons' feet. `alone` is
  history: the key pressed last, until another event disturbs it. Init checks
  none of its calls: `request_irq` may leave a button silent (`keyIrqs`), a device
  that is not registered hears nothing (`keyListed`), and to set bits in one that
  was not allocated, or to unregister one that is not registered, ends the
  execution. Exit puts the device twice, since `input_unregister_device` is
  followed by `input_free_device`: "put twice" is recorded at every unload, and
  the exit followed further, as the second put may go unseen.
* **UsbMouse.** `driver` is the one of the two that is loaded. Both are one set
  of actions: they differ in the input device and in what the end of probe
  returns. `my_urb`, `my_buffer` are the globals; `killing` is the URB that a
  disconnect has read from them.
* **TheDma.** `my_ioctl` is cut at the places where it sleeps and so gives up the
  big kernel lock (`bkl`). The channel moves a unit at a time and takes one
  request more while it works (`again`). `results` are the lines printed. Of
  init's calls only `request_irq` and `ioremap` are checked: the node may be
  missing and the class an error code (`dmaNode`), the buffers NULL (`memory`);
  the first `ioctl` then fills NULL, and `device_destroy` looks into an error code.
* **RamDisk.** A request of `blk_simp` is emptied under the queue's lock in one
  step and copies everything from or to its *first* page; a bio of the other two
  is copied segment by segment by the process that sent it. `cells` is memory,
  `Pages` says which cells each process uses, `stored` is the abstract disk that
  takes a whole request at a time, `scattered` that pages did not adjoin. The
  kernel locks the pages it does I/O with, so those of a request are distinct and
  no other process's; that is `PagesAssumption`.
* **NetifOp.** `about_set` and `about_get` are the code's lists of calls; each is
  an action. `eth` holds the kernel's settings, where a new address resets what
  is derived from it. An administrator may change any of them, take the interface
  away, or pull the cable between two calls.
* **I2cDevices.** Loading, unloading, probing and removing of three pairs of
  modules, with the class, the node and the character device each creates.
  `chip` is who answers on the bus.
* **Ds18b20.** A read is a series of exchanges on the wire, one step each, and
  nothing keeps two of them apart; `wire` is what the chip expects next. The
  conversion of the two bytes is `Shown`, with `unsigned char` arithmetic;
  `Actual` is the reference.
* **Am2305.** The sensor gives one of five bytes after the other, to everyone who
  reads. A delay is a byte that nobody took; who misses it then waits in a loop
  that has no bound.
* **ModuleLife.** Init and exit of each module are data, as in `SocketOp`: what is
  taken, whether its failure is noticed, what is given back. Any call may fail.

## Runs

| run | module, configuration | question | bounds |
|---|---|---|---|
| `list_op` | `MCListOp` | do the primitives keep the rings and implement `SeqLists`, does `COMMON_FREE_LIST` end | 2 heads, 3 entries |
| `netif` | `MCNetifEvent.cfg` | does a server that has caught up agree with the kernel, and does it catch up | 1 interface, 2 addresses of which it has at most one, 4 changes, buffer of 3, failures |
| `netif_multi` | `MCNetifMulti.cfg` | is what a node shows after a new address one the interface has | 2 interfaces, 2 addresses on each, 2 changes |
| `usb_skel` | `MCUsbSkel.cfg` | safety of all calls against each other | 2 processes, 2 writes in flight, buffer of 2, 1 fault |
| `usb_unplug` | `MCUsbUnplug.cfg` | does disconnect end | 2 processes, 1 write in flight |
| `rcu` | `MCRcuDemo.cfg` | whole versions, no early free, no leak while loaded | 1 read per reader, 2 updates per updater, 5 blocks, 2 fields |
| `sockets` | `MCSocketOp.cfg` | what failures leave behind | all of the program; 3 descriptors |
| `demos` | `MCDemos.cfg` | each small demonstration with its interrupts, timers, processes, failing calls and unloading | below |
| `usb_errors` | violation | "any error is reported once" (`usb_skeleton.c:270`, `:393`) | |
| `usb_unlink` | violation | "sync/async unlink faults aren't errors" | |
| `rcu_exit` | violation | "either before the update or after it" (`rcu概述.txt:14`) | |
| `ds18b20` | violation, `MCDs18b20.cfg` | "if the low eight bits exceed 255, carry one into the high eight" (`ds18b20.c:192`) | two temperatures below zero |

Why the bounds are enough. Three entries and two heads contain every way in which
the neighbours of a list operation coincide (empty, one entry, head and entry on
either side) and a splice between non-empty lists. Four kernel changes fill the
receive buffer, overrun it, and still change the kernel after the overrun. In
`netif` the longest datagram, a dump of one address and DONE, just fits
`RecvMsgs` = 2, so that messages are lost only to the overrun and to failures; in
`netif_multi` a dump of three addresses and DONE does not fit `RecvMsgs` = 3, and
its end is cut off. With two processes every
pair of USB calls overlaps while the core does its part; one slot that two
writers want, one read that two readers want, one fault that two calls could
return are all reached. Two updates suffice for an object that is replaced while
its replacement is replaced; one read per reader spans both. Five blocks are the
two published ones, one new one for each updater, and one that waits; an updater
that finds no block waits, as `kzalloc(GFP_KERNEL)` does.

In `demos`: the pen moves three times (put down, lifted while it is sampled, put
down again) and `jiffies` has four values, started just before it wraps; two
buttons of which one is also an output of `hw_control`, three moves, two open files;
two mice; two callers with two ioctls in all, two units a transfer (the first can
be interrupted between them); two sectors, five cells, one process whose pages
adjoin and one whose pages do not, two requests, and one load after the first; the
administrator moves once; five I2C modules are loaded, in every order, and one
chip falls silent; a small module is loaded twice while two of its calls fail; two
readers of each sensor, two reads and one event for the thermometer, four calls
and two disturbances for the humidity sensor. Each bound is the least that lets
every pair of actors meet and every fault of the properties' escape clauses
happen: without the clause (`overlapped`, `interfered`, `scattered`, `raced`,
`stray`, `slipped`, `disturbed`, the NULL buffer, the class that is an error code,
the device put twice, not allocated or not registered) TLC finds the property
violated.

Deadlock is checked for `list_op` and `sockets`. The others really stop: the
bounded kernel with nothing to do, an unplugged device, an unloaded module.

### What the violations show

* `usb_errors`: `skel_read` reads and clears `dev->errors` without `err_lock`. A
  writer that takes the error under the lock in between returns the same fault.
* `usb_unlink`: the comments at lines 168 and 339 of `usb-skeleton` say that an
  unlinked URB is not an error, but only the message is suppressed for
  `-ENOENT`, `-ECONNRESET` and `-ESHUTDOWN`: both callbacks go on to store the
  status in `dev->errors` (lines 177, 349), and the next call returns `-EIO`.
* `rcu_exit`: `rcu_test_exit` frees the two objects before it stops the threads
  and without a grace period; a reader inside its section reads freed memory.
* `ds18b20`: `tltemp` is an `unsigned char`, so `tltemp > 255` never holds and the
  carry of lines 191 and 192 never happens. For a negative temperature whose low
  byte is zero the two's complement needs it: -16 degrees are shown as -0.0.
  `ShowsMeasured` says that these are the only temperatures shown wrongly.

## Fairness

* `ListOp`: weak fairness of the `COMMON_FREE_LIST` loop. It is a loop of the
  calling thread, and nothing else runs on its list meanwhile.
* `NetifEvent`: weak fairness of `main` and of the event thread. They are threads
  of one process; neither waits for anything but what its guard says. None for
  the kernel's changes: they are bounded, and the property holds if they stop.
* `UsbSkel`: strong fairness for each process's call in progress and for the
  core, because kernel mutexes, spinlocks and semaphores serve their waiters in
  turn, so what is free again and again for a waiter is granted; for URBs only
  the giveback of those being killed. No process has to make a call, and no URB
  has to complete by itself.

* `Demos`: the touch screen's interrupts, clock and timer; the button driver's
  interrupts and timer function; the DMA channel with its interrupt, and each
  process inside `my_ioctl`; each process inside a read of a sensor, and the end
  of a conversion of the thermometer. These are processors, clocks and hardware
  that have begun something. Nobody has to load a module, open a file or call
  anything, and nothing that only the environment can do (press, plug, fail) has
  to happen.

## Proofs

Checked by TLAPS for every value of the constants that the modules' assumptions
allow.

* `ListOpProofs`. `ListTypeCorrect` and `ListRingsIntact`. `RingsIntact` alone is
  not inductive: it speaks of linked cells only, and the primitives also need
  that heads own themselves or nobody and that `freeing` names a linked head.
  The strengthening adds that, and every action is shown to keep each conjunct;
  the case distinctions are the coincidences of neighbouring cells.
* `ListTraversalProofs`. `ListTraversalsAgree` (the property `TraversalsAgree`) and
  `ListsImplemented` (`ListsAsNamed`: the abstract specification is implemented,
  and by the operation that each primitive is named for). Ring integrity does not
  say that a ring is *one* ring, so the invariant names the sequence: for each
  initialised head there is a sequence of distinct entries that `next` and `prev`
  spell out in both directions (`IsRing`), its entries are those the head owns,
  and so those of two heads are disjoint. Each primitive is shown to turn the
  sequences into the ones that `SeqLists` computes. `WalkMeets` says that
  `common_list_for_each` meets just that sequence. It is an induction over the
  number of rounds, made without the library's rule for it: were the claim
  false, there would be a least round that refutes it. The entries have to be
  finitely many (`MemoryFinite`), for the walk is cut off after as many rounds as
  there are cells.
* `NetifEventProofs`. `NetifTypeCorrect`, `NetifNoAddressMissed`,
  `NetifNodesKept`. The argument for the second: an interface with an address is
  either already on the list, or some message about it is in `buff` or in the
  receive buffer, or the dump that will contain it is still to be built (not
  requested yet, or waiting for room), or something was lost, or the process is
  gone. `bind` before the dump request is what keeps this true for addresses
  that appear in between. At a state that has caught up only the first disjunct
  is left. `NodesKept` rests on "no node before the head is initialised", which
  in turn rests on the crash.
* `NetifCurrentProofs`. `NetifLinksCurrent`, `NetifAddressesCurrent`,
  `NetifNewAddressCurrent`. The messages in `buff` and in the datagrams behind it
  are taken as one sequence, the *pipe*: the kernel appends to it, `recvfrom` only
  moves the border between the two buffers, a handler takes its head. The
  invariant says, for each interface, that the last message about it in the pipe
  agrees with the kernel, and that where the pipe has none its node does. For
  addresses that is not inductive, because `net_event_notify` ignores a deletion
  that follows a deletion: with one address per interface the invariant adds that
  in the pipe, read on from the state of the node, every deletion comes after a
  new address or finds a node that is not in `IF_DELADDR`. That is the proof that
  the early copy of the address in `ifaddrmsg_handle` is always undone. With
  several addresses it is false, and only the weaker `NewAddressCurrent` is left.

* `RcuDemoProofs`. `RcuTypeCorrect`, `RcuNoUseAfterFree`, `RcuWaitsForReaders`,
  `RcuOldOrNew` (the property `LoadedOldOrNew`) and `RcuMemoryAccounted`. Two
  facts carry them. *Ownership*: while the module is loaded every allocated block
  has exactly one role: it is published, held by one updater who has not
  published it yet or has just replaced it, or queued for the reclaimer.
  *Protection*: a block that a reader has in its hands is published, or about to
  be handed over by the updater that replaced it, or waits for a grace period
  among whose readers this reader is. Neither is inductive without the other:
  reclaiming is safe because of the second, and the second is kept by publishing
  only because a block has no second role.
* `UsbSkelProofs`. `UsbTypeCorrect`, `UsbSlotsConserved`, `UsbNoUseAfterFree`,
  `UsbNoSubmitWhenDisconnected`, `UsbReadUrbIdle`, `UsbQuietDuringReset`,
  `UsbLockedCallsReportOnce` and `UsbErrorLostOnlyInRace`. The inductive
  invariant says of each lock that it is held exactly while somebody is at a
  place inside it, counts slots and references as cardinalities of the sets of
  processes and URBs that have one, and says what the core has established at
  each place of suspend, reset and disconnect. That a fault is reported once
  under the lock needs more than the reports: each fault in `errors` or in a
  caller's hand is one the device has had, and no earlier report carries it.
  That an error goes unreported only in the two races the code leaves open is an
  action property; it rests on `Noticed`: a writer about to clear `errors` finds
  there what it has read, nothing, or a reset, and a reader finds a reset there
  only if it has read it.
  The proofs are laid out in two layers: first, for each action, lemmas that say
  which variables a step changes and how; then one lemma per conjunct of the
  invariant, which uses only those.
* `SocketOpProofs`. `SocketTypesHold`, `ListenersConfigured`,
  `OpenSocketsReachable`, `OnlyFdIsStale` and `ForeignStaysOpen`, for any set of
  descriptor numbers. The program is a table of calls, so the first half are
  lemmas about the table: which variable each call goes through, what its failure
  does, and that every required option is tried before `listen`. The
  second half follows the program through it. `Phases` says which of the three
  sockets can be open in which part and that the number in `fd` may by
  then belong to another one. `Configured` says that the TCP socket, as long as
  it is open, has had every required option that lies behind it: whoever goes on
  after a failure goes on with a closed socket, on which `bind` and `listen` fail.
* `DemosProofs`. Only the demonstration that was chosen moves, so each has an
  inductive invariant of its own, and the steps of the others leave its variables
  alone. `DemosTypesHold` takes the ten together; then, for any constants:
  * `MouseAlone` (`MouseSafeAlone`). The property excuses what happens once two
    mice have overlapped, so the invariant says what their not overlapping is
    worth: the only mouse the driver has is the one that `my_urb` and `my_buffer`
    mean, with both allocated; what `usb_kill_urb` waits for is that mouse's URB;
    `usb_mid` has an URB on its way only for a mouse it listens to or is
    disconnecting.
  * `DmaExplained`. While nobody interferes and nothing has faulted there is one
    call at a time, and the channel moves for that call alone and has copied what
    lies behind it. Once somebody has interfered only the copy by the processor
    is still claimed to be right: whatever transfer still runs moves the same bytes.
  * `DiskDataKept` (`DiskKeepsData`). Of each request in progress: what it has
    copied was met on the disk at some time while it ran, and as long as pages
    adjoined, the pages it writes are as they were, because they are nobody else's.
  * `SettingsStay` (`SettingsStick`). Between the ioctl that reads the flags or the
    MAC and the one that writes them back, what was read is what the interface has,
    unless the administrator came in between.
  * `ModulesComeAndGoHolds` (`ModulesComeAndGo`). On the I2C bus, who is bound to
    what and which nodes there are for each load order; for the small modules,
    that init and exit hold just what the calls behind them have taken (`Due`,
    `Accounted`), which rests on the order of the calls in each module's table.
  * `PortSafe`. What the button driver's timer does outside of the driver's life
    is the work of an interrupt that came before it was up or after `del_timer`.
  * `TouchSafeHolds`. The sums are of as many samples as `count` says, and a timer
    pending from `del_timer` on was armed after it.
  * `TimesInOrder`, about `TimeAfter` alone: for a counter of any width,
    `time_after` orders two times less than half the range apart.
  * `SensorsShow`. For the thermometer: the wire is where an undisturbed reader
    has brought it, and the arithmetic on two `unsigned char`s is right for
    every temperature of the chip's range (-880 to 2000 sixteenths) but for those
    below zero with a zero low byte. For the humidity sensor: an undisturbed
    reader is at the byte the sensor gives. The attempt to prove that refuted an
    earlier form of the model, in which a delay was charged to one of two readers
    only; it is now a byte lost to all of them.

  `DmaExplained`, `PortSafe`, `TouchSafeHolds` and `SensorsShow` are the safety
  halves of `DmaAloneWorks`, `KeysFollowButtons`, `TouchWorks` and `SensorsRead`.

The assumptions are those named in the modules: the constants are sets with the
distinguished values outside, and the bounds are natural numbers; for `UsbSkel`
the processes are finitely many, since they are counted, and for `ListOp` the
entries are (`MemoryFinite`); for `RamDisk` the pages of a request are the
process's own (`PagesAssumption`); for `Ds18b20` the temperatures are in the
chip's range.

Every invariant and every action property that a passing run checks is proved, and the
refinement of `SeqLists`. Left to TLC, being out of the prover's reach, is what
needs fairness: `FreeListTerminates`, `CatchesUp`, `DisconnectCompletes`, and the
liveness halves of `TouchWorks`, `KeysFollowButtons`, `DmaAloneWorks` and
`SensorsRead`.

## Not modelled, and why

* `vir_net` (its own directory name says that it does not run) and
  `ehci-npcm7xx.c` (platform glue of a vendor's host controller): no state of
  their own beyond what the kernel frameworks keep.
* `i2c-tools-3.1.0`: a third-party package.
* `common_popen_return_result`, the log helpers, `hello` and the driver template:
  I/O and boilerplate.
* The LCD and flash drivers are modelled in their init and exit only. The rest
  sets registers and has no sequence to go wrong. Two observations from reading:
  `lcd` computes the size of its frame as `480*272*16/2` bytes, and frees it under
  another address than it allocated it (`lcd.c:177`), which the model has as
  "not given back".
* In `NetifEvent`: `mtu` and `hwaddr`, the `debug_*` printing and the inside of
  the attribute parser. `netif_node_del` and `netif_list_print`: nothing calls them.
* In `SocketOp`: the values of options. In `RcuDemo`: failing `kthread_run` and
  `kzalloc`.
* `my_read` of the I2C and light sensor drivers stores an error in an
  `unsigned char`, so that a failed read looks like a byte. `WritesReported` in
  `I2cDevices` is about writes for this reason.
* `time_after` holds both ways round when two times are exactly half the range
  apart (`TimesInOrder`), where the note beside it calls them equal; `my_ts.c`
  only needs the order inside the window.

Two hazards have no property. `close()` waits for `io_mutex` behind a blocking
read (`usb_skeleton.c:146`): the wait ends when the device answers, and nothing in
the code says when that is. The RCU threads may run before their objects exist
(`rcu_demo.c:142`): the model has the steps (`ReadNull`, `UpdateNull`), and what
the machine does then is undefined.

## Plan

Done, in this order: `SeqLists` and `ListOp`; `NetifEvent`, which uses the lists;
`UsbSkel`, `RcuDemo`, `SocketOp`; the small demonstrations and `Demos`; proofs of
the rings, of the event server's completeness and of its agreement with the
kernel, of RCU, of the USB driver; then of the traversals and the refinement of
the lists, of the socket options, and of all the small demonstrations.

Left: theorems that say of the event server and of the USB driver what no run
states yet, such as how many nodes the list can have and which locks are taken in
which order.
