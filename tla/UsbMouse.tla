------------------------------ MODULE UsbMouse ------------------------------
(***************************************************************************)
(* The two USB mouse drivers usb_mid.c and usb_hard.c.  Each keeps one     *)
(* URB, one buffer (and usb_hard one input device) in global variables,    *)
(* however many mice there are.  What the USB core does is external:       *)
(* probes come one at a time and never while the module is being removed;  *)
(* disconnect comes for a mouse that is unplugged and, when the module is  *)
(* removed, for every mouse that is bound; usb_kill_urb rejects            *)
(* submissions and waits until the URB is back.                            *)
(***************************************************************************)
EXTENDS Integers, FiniteSets

CONSTANTS Mice,         \* each is plugged in once
          NoMouse       \* no URB, no buffer: a NULL pointer

ASSUME MouseAssumption == NoMouse \notin Mice

VARIABLES driver,       \* "mid" or "hard", or "none" before one is loaded
          exiting,      \* "no", "disconnecting" or "gone"
          mouse,        \* where each mouse is between its probe and its end
          attached,     \* mice the core has not yet given up
          flying,       \* URBs the host controller has
          held,         \* URBs the driver's own reference keeps
          rejecting,    \* URBs usb_kill_urb is at work on
          buffer,       \* the DMA buffer allocated for each mouse
          my_urb, my_buffer,
          killing,      \* the URB that each disconnect is killing
          overlapped,   \* a mouse was probed while another was there
          refused,      \* a submission failed for want of memory
          mouseFault

usbVars   == <<flying, held, rejecting>>
ptrVars   == <<buffer, my_urb, my_buffer>>
histVars  == <<overlapped, refused>>
mouseVars == <<driver, exiting, mouse, attached, usbVars, ptrVars, killing, histVars,
               mouseFault>>

Live(u) == u \in held \cup flying
Unbinding == \E m \in Mice : mouse[m] \in {"kill", "wait", "free"}
Probing   == \E m \in Mice : mouse[m] = "submit"
CodeGone == exiting = "gone"
TakesMice == driver # "none" /\ exiting = "no"

Faulty(kinds) == mouseFault' = mouseFault \cup kinds

-----------------------------------------------------------------------------
(* The USB core, as the drivers rely on it.                                *)

\* usb_submit_urb: refused while the URB is being killed, when its mouse is
\* given up and when the host controller still has it.
usb_submit_urb(u) ==
  /\ Faulty(IF Live(u) THEN {} ELSE {"urb freed"})
  /\ \/ /\ flying' = IF Live(u) /\ u \notin rejecting /\ u \in attached
                     THEN flying \cup {u} ELSE flying
        /\ UNCHANGED refused
     \/ flying' = flying /\ refused' = TRUE

PlugIn(m) ==
  /\ TakesMice /\ mouse[m] = "absent"
  /\ mouse' = [mouse EXCEPT ![m] = "plugged"]
  /\ attached' = attached \cup {m}
  /\ UNCHANGED <<driver, exiting, usbVars, ptrVars, killing, histVars, mouseFault>>

\* khubd gives the mouse up and calls disconnect if a driver is bound to it.
Unplug(m) ==
  /\ m \in attached /\ mouse[m] \in {"plugged", "failed", "bound"}
  /\ attached' = attached \ {m}
  /\ mouse' = [mouse EXCEPT ![m] = IF mouse[m] = "bound" THEN "kill" ELSE "gone"]
  /\ UNCHANGED <<driver, exiting, usbVars, ptrVars, killing, histVars, mouseFault>>

-----------------------------------------------------------------------------
(* The drivers.                                                            *)

\* my_usb_complete_fn, in interrupt context: prints what is in my_buffer and
\* submits my_urb, whichever URB has come back, and whatever its status.
my_usb_complete_fn(u) ==
  /\ u \in flying
  /\ IF CodeGone
     THEN Faulty({"code gone"}) /\ flying' = flying \ {u} /\ UNCHANGED refused
     ELSE LET live  == held \cup (flying \ {u})
              goes  == my_urb \in live /\ my_urb \notin rejecting
                       /\ my_urb \in attached
          IN  /\ Faulty((IF buffer[my_buffer] = "live" THEN {} ELSE {"buffer freed"})
                        \cup (IF my_urb \in live THEN {} ELSE {"urb freed"}))
              /\ \/ flying' = (flying \ {u}) \cup (IF goes THEN {my_urb} ELSE {})
                    /\ UNCHANGED refused
                 \/ flying' = flying \ {u} /\ refused' = TRUE
  /\ UNCHANGED <<driver, exiting, mouse, attached, held, rejecting, ptrVars, killing,
                 overlapped>>

\* my_usb_probe up to the submission
my_usb_probe(m) ==
  /\ TakesMice /\ mouse[m] = "plugged" /\ ~Probing /\ ~Unbinding
  /\ mouse' = [mouse EXCEPT ![m] = "submit"]
  /\ buffer' = [buffer EXCEPT ![m] = "live"] /\ my_buffer' = m
  /\ held' = held \cup {m} /\ my_urb' = m
  /\ overlapped' = (overlapped \/ \E n \in Mice : mouse[n] \in {"failed", "bound"})
  /\ UNCHANGED <<driver, exiting, attached, flying, rejecting, killing, refused, mouseFault>>

\* ... and the submission; usb_hard's probe has no return statement, so that
\* its result may be taken for a failure.
my_usb_probe_submit(m) ==
  /\ mouse[m] = "submit"
  /\ usb_submit_urb(my_urb)
  /\ \/ mouse' = [mouse EXCEPT ![m] = "bound"]
     \/ driver = "hard" /\ mouse' = [mouse EXCEPT ![m] = "failed"]
  /\ UNCHANGED <<driver, exiting, attached, held, rejecting, ptrVars, killing, overlapped>>

\* my_usb_disconnect: usb_kill_urb begins ...
my_usb_disconnect(m) ==
  /\ mouse[m] = "kill"
  /\ Faulty(IF Live(my_urb) THEN {} ELSE {"urb freed"})
  /\ killing' = [killing EXCEPT ![m] = my_urb]
  /\ rejecting' = rejecting \cup {my_urb}
  /\ mouse' = [mouse EXCEPT ![m] = "wait"]
  /\ UNCHANGED <<driver, exiting, attached, flying, held, ptrVars, histVars>>

\* Mutation of Killed: usb_unlink_urb, which does not wait.
KilledAtOnce(m) == mouse[m] = "wait"

\* ... and ends when the host controller has given the URB back.
Killed(m) == mouse[m] = "wait" /\ killing[m] \notin flying

my_usb_killed(m) ==
  /\ Killed(m)
  /\ rejecting' = rejecting \ {killing[m]}
  /\ mouse' = [mouse EXCEPT ![m] = "free"]
  /\ UNCHANGED <<driver, exiting, attached, flying, held, ptrVars, killing, histVars,
                 mouseFault>>

\* The rest of my_usb_disconnect: usb_hard frees no URB, and puts its input
\* device once more after input_unregister_device has put it.
my_usb_free(m) ==
  /\ mouse[m] = "free"
  /\ held' = IF driver = "hard" THEN held ELSE held \ {my_urb}
  /\ buffer' = [buffer EXCEPT ![my_buffer] = "freed"]
  /\ Faulty((IF driver = "hard" THEN {"put twice"}
             ELSE IF my_urb \in held THEN {} ELSE {"urb freed"})
            \cup (IF buffer[my_buffer] = "live" THEN {} ELSE {"buffer freed"}))
  /\ mouse' = [mouse EXCEPT ![m] = "gone"]
  /\ UNCHANGED <<driver, exiting, attached, flying, rejecting, my_urb, my_buffer, killing,
                 histVars>>

-----------------------------------------------------------------------------
(* Module init and exit.                                                   *)

my_usb_init ==
  /\ driver = "none"
  /\ driver' \in {"mid", "hard"}
  /\ UNCHANGED <<exiting, mouse, attached, usbVars, ptrVars, killing, histVars,
                 mouseFault>>

\* my_usb_exit: usb_deregister disconnects every mouse that is bound ...
my_usb_exit ==
  /\ TakesMice /\ ~Probing
  /\ exiting' = "disconnecting"
  /\ mouse' = [m \in Mice |-> IF mouse[m] = "bound" THEN "kill" ELSE mouse[m]]
  /\ UNCHANGED <<driver, attached, usbVars, ptrVars, killing, histVars, mouseFault>>

\* ... and returns; then the module's code is freed.
my_usb_exited ==
  /\ exiting = "disconnecting" /\ ~Unbinding
  /\ exiting' = "gone"
  /\ UNCHANGED <<driver, mouse, attached, usbVars, ptrVars, killing, histVars,
                 mouseFault>>

-----------------------------------------------------------------------------
MouseInit ==
  /\ driver = "none" /\ exiting = "no"
  /\ mouse = [m \in Mice |-> "absent"] /\ attached = {}
  /\ flying = {} /\ held = {} /\ rejecting = {}
  /\ buffer = [m \in Mice \cup {NoMouse} |-> "none"]
  /\ my_urb = NoMouse /\ my_buffer = NoMouse
  /\ killing = [m \in Mice |-> NoMouse]
  /\ overlapped = FALSE /\ refused = FALSE
  /\ mouseFault = {}

\* The execution is followed up to the first fault.
MouseNext ==
  /\ mouseFault = {}
  /\ \/ \E m \in Mice : \/ PlugIn(m) \/ Unplug(m) \/ my_usb_complete_fn(m)
                         \/ my_usb_probe(m) \/ my_usb_probe_submit(m)
                         \/ my_usb_disconnect(m) \/ my_usb_killed(m)
                         \/ my_usb_free(m)
     \/ my_usb_init \/ my_usb_exit \/ my_usb_exited

-----------------------------------------------------------------------------
MouseTypeOK ==
  /\ driver \in {"none", "mid", "hard"}
  /\ exiting \in {"no", "disconnecting", "gone"}
  /\ mouse \in [Mice -> {"absent", "plugged", "submit", "bound", "failed", "kill",
                         "wait", "free", "gone"}]
  /\ attached \subseteq Mice /\ flying \subseteq Mice
  /\ held \subseteq Mice /\ rejecting \subseteq Mice
  /\ buffer \in [Mice \cup {NoMouse} -> {"none", "live", "freed"}]
  /\ my_urb \in Mice \cup {NoMouse} /\ my_buffer \in Mice \cup {NoMouse}
  /\ killing \in [Mice -> Mice \cup {NoMouse}]
  /\ overlapped \in BOOLEAN /\ refused \in BOOLEAN
  /\ mouseFault \subseteq {"urb freed", "buffer freed", "put twice", "code gone"}

\* With one mouse at a time usb_mid uses no freed URB or buffer and leaves no
\* URB to a module that is gone, although its completion submits the URB again
\* while disconnect kills it; usb_hard's only faults are the input device it
\* puts twice and the URB of a probe whose missing result was taken as failure.
FaultsExplained ==
  mouseFault # {} =>
    \/ overlapped
    \/ driver = "hard" /\ mouseFault = {"put twice"}
    \/ driver = "hard" /\ mouseFault = {"code gone"}
         /\ \E m \in Mice : mouse[m] \in {"failed", "gone"}

\* ... and once a mouse is gone nothing is left of it in usb_mid.
NothingLeft ==
  \A m \in Mice : mouse[m] = "gone" /\ driver = "mid" /\ ~overlapped =>
    m \notin flying \cup held \cup rejecting /\ buffer[m] # "live"

\* A mouse that is bound is listened to until a submission is refused (the
\* completion ignores that) or a second mouse takes the global URB.
MouseHeard ==
  \A m \in Mice : mouse[m] = "bound" /\ ~overlapped /\ ~refused => m \in flying

MouseSafeAlone == FaultsExplained /\ NothingLeft /\ MouseHeard
=============================================================================
