---------------------------- MODULE DemosProofs ----------------------------
(***************************************************************************)
(* For any instance of the demonstrations that stand alone: the types of   *)
(* their variables, and the safety properties the runs check.              *)
(*                                                                         *)
(* Only the demonstration that was chosen moves, so each has an inductive  *)
(* invariant of its own: MouseInv, OpInv, I2cInv, LifeInv, DiskInv,        *)
(* DmaInv, PortInv, AmInv, TsInv and DsInv.  Each is stated and proved in  *)
(* a section of its own; the last one says what follows for Demos.         *)
(***************************************************************************)
EXTENDS Demos, SequenceTheorems, WellFoundedInduction, TLAPS

-----------------------------------------------------------------------------
(* The USB mouse drivers keep their URB and their buffer in global         *)
(* variables, which is sound as long as only one mouse at a time is        *)
(* theirs.  OneMouse says what that is worth: while no mouse was probed    *)
(* beside another one, the mouse the driver has is the one the variables   *)
(* mean, with its URB and its buffer, and what has not come or is gone has *)
(* left nothing behind.                                                    *)

\* The driver has mouse m.
Has(m) == mouse[m] \in {"submit", "bound", "failed", "kill", "wait", "free"}

\* The variables mean the mouse the driver has ...
Meant == \A m \in Mice : Has(m) =>
           m = my_urb /\ m = my_buffer /\ m \in held /\ buffer[m] = "live"

\* ... a mouse it never had left no trace ...
Untouched == \A m \in Mice : mouse[m] \in {"absent", "plugged"} =>
               m \notin flying \cup held \cup rejecting

\* ... usb_kill_urb is at work for a disconnect that waits, on its own URB ...
KillsOwn == /\ \A m \in rejecting : mouse[m] = "wait"
            /\ \A m \in Mice : mouse[m] = "wait" => killing[m] = m

\* ... usb_mid's URB is on its way only for a mouse it listens to, and it
\* frees what it had ...
MidClean == driver = "mid" =>
              /\ \A m \in flying : mouse[m] \in {"bound", "kill", "wait"}
              /\ \A m \in Mice : mouse[m] = "gone" => m \notin held /\ buffer[m] # "live"
              /\ \A m \in Mice : mouse[m] # "failed"

\* ... usb_hard frees nothing before its first fault ...
HardKeeps == driver = "hard" /\ mouseFault = {} /\ flying # {} =>
               my_urb \in held /\ buffer[my_buffer] = "live"

\* ... and the mice follow the core's and the module's coming and going.
Following ==
  /\ exiting # "no" => \A m \in Mice : mouse[m] \notin {"submit", "bound"}
  /\ exiting = "gone" => \A m \in Mice : mouse[m] \notin {"kill", "wait", "free"}
  /\ \A m \in Mice : mouse[m] \in {"plugged", "submit", "bound", "failed"} => m \in attached
  /\ driver = "none" => \A m \in Mice : mouse[m] = "absent"
  /\ \A m \in Mice : mouse[m] \in {"absent", "plugged"} => buffer[m] = "none"

OneMouse ==
  ~overlapped => Meant /\ Untouched /\ KillsOwn /\ MidClean /\ HardKeeps /\ Following

\* In any case the driver's URB is one it allocated.
Named == (\E m \in Mice : Has(m)) => my_urb \in Mice

MouseInv == MouseTypeOK /\ Named /\ OneMouse /\ MouseSafeAlone

-----------------------------------------------------------------------------
LEMMA InitInv == MouseInit => MouseInv
<1> SUFFICES ASSUME MouseInit PROVE MouseInv
  OBVIOUS
<1> USE DEF MouseInit
<1>1. MouseTypeOK
  BY DEF MouseTypeOK
<1>2. Named /\ Meant /\ Untouched
  BY DEF Named, Meant, Untouched, Has
<1>3. KillsOwn /\ MidClean /\ HardKeeps /\ Following
  BY DEF KillsOwn, MidClean, HardKeeps, Following
<1>4. MouseSafeAlone
  BY DEF MouseSafeAlone, FaultsExplained, NothingLeft, MouseHeard
<1> QED
  BY <1>1, <1>2, <1>3, <1>4 DEF MouseInv, OneMouse

\* A mouse is plugged in.
LEMMA PlugIn_Inv == ASSUME MouseInv, mouseFault = {}, NEW m \in Mice, PlugIn(m)
      PROVE  MouseInv'
<1> USE DEF MouseInv, MouseTypeOK, PlugIn, usbVars, ptrVars, histVars
<1>1. MouseTypeOK' /\ Named'
  BY DEF Named, Has, TakesMice
<1>2. CASE overlapped'
  BY <1>1, <1>2 DEF OneMouse, MouseSafeAlone, FaultsExplained, NothingLeft, MouseHeard
<1>3. CASE ~overlapped'
  <2>1. ~overlapped /\ OneMouse /\ MouseSafeAlone
    BY <1>3
  <2>2. Meant /\ Untouched /\ KillsOwn /\ MidClean /\ HardKeeps /\ Following
    BY <2>1 DEF OneMouse
  <2>3. Meant'
    BY <1>1, <1>3, <2>1, <2>2 DEF Has, Meant, TakesMice
  <2>4. Untouched'
    BY <1>1, <1>3, <2>1, <2>2 DEF Has, Meant, Untouched, TakesMice
  <2>5. KillsOwn'
    BY <1>1, <1>3, <2>1, <2>2 DEF Has, Meant, KillsOwn, Untouched, TakesMice
  <2>6. MidClean'
    BY <1>1, <1>3, <2>1, <2>2 DEF Has, Meant, MidClean, Untouched, Following, TakesMice
  <2>7. HardKeeps'
    BY <1>1, <1>3, <2>1, <2>2 DEF Has, Meant, Untouched, HardKeeps, Following, TakesMice
  <2>8. Following'
    BY <1>1, <1>3, <2>1, <2>2 DEF Has, Following, TakesMice
  <2>9. FaultsExplained'
    BY <1>1, <1>3, <2>1, <2>2 DEF Has, Meant, Untouched, MidClean, HardKeeps, Following,
                                  MouseSafeAlone, FaultsExplained, TakesMice
  <2>10. NothingLeft'
    BY <1>1, <1>3, <2>1, <2>2 DEF Has, Meant, Untouched, KillsOwn, MidClean,
                                  MouseSafeAlone, NothingLeft, Following, TakesMice
  <2>11. MouseHeard'
    BY <1>1, <1>3, <2>1, <2>2 DEF Has, Meant, KillsOwn, Following, MouseSafeAlone,
                                  MouseHeard, TakesMice
  <2> QED
    BY <1>1, <2>3, <2>4, <2>5, <2>6, <2>7, <2>8, <2>9, <2>10, <2>11
    DEF OneMouse, MouseSafeAlone
<1> QED
  BY <1>2, <1>3

\* A mouse is unplugged: a bound one is one to disconnect.
LEMMA Unplug_Inv == ASSUME MouseInv, mouseFault = {}, NEW m \in Mice, Unplug(m)
      PROVE  MouseInv'
<1> USE DEF MouseInv, MouseTypeOK, Unplug, usbVars, ptrVars, histVars
<1>1. MouseTypeOK' /\ Named'
  BY DEF Named, Has
<1>2. CASE overlapped'
  BY <1>1, <1>2 DEF OneMouse, MouseSafeAlone, FaultsExplained, NothingLeft, MouseHeard
<1>3. CASE ~overlapped'
  <2>1. ~overlapped /\ OneMouse /\ MouseSafeAlone
    BY <1>3
  <2>2. Meant /\ Untouched /\ KillsOwn /\ MidClean /\ HardKeeps /\ Following
    BY <2>1 DEF OneMouse
  <2>3. Meant'
    BY <1>1, <1>3, <2>1, <2>2 DEF Has, Meant
  <2>4. Untouched'
    BY <1>1, <1>3, <2>1, <2>2 DEF Has, Meant, Untouched
  <2>5. KillsOwn'
    BY <1>1, <1>3, <2>1, <2>2 DEF Has, Meant, KillsOwn, Untouched
  <2>6. MidClean'
    BY <1>1, <1>3, <2>1, <2>2 DEF Has, Meant, MidClean, Untouched, Following
  <2>7. HardKeeps'
    BY <1>1, <1>3, <2>1, <2>2 DEF Has, Meant, Untouched, HardKeeps, Following
  <2>8. Following'
    BY <1>1, <1>3, <2>1, <2>2 DEF Has, Following
  <2>9. FaultsExplained'
    BY <1>1, <1>3, <2>1, <2>2 DEF Has, Meant, Untouched, MidClean, HardKeeps, Following,
                                  MouseSafeAlone, FaultsExplained
  <2>10. NothingLeft'
    BY <1>1, <1>3, <2>1, <2>2 DEF Has, Meant, Untouched, KillsOwn, MidClean,
                                  MouseSafeAlone, NothingLeft, Following
  <2>11. MouseHeard'
    BY <1>1, <1>3, <2>1, <2>2 DEF Has, Meant, KillsOwn, Following, MouseSafeAlone,
                                  MouseHeard
  <2> QED
    BY <1>1, <2>3, <2>4, <2>5, <2>6, <2>7, <2>8, <2>9, <2>10, <2>11
    DEF OneMouse, MouseSafeAlone
<1> QED
  BY <1>2, <1>3

\* A URB comes back: it is submitted again as long as its mouse is there.
LEMMA my_usb_complete_fn_Inv ==
  ASSUME MouseInv, mouseFault = {}, NEW m \in Mice, my_usb_complete_fn(m)
  PROVE  MouseInv'
<1>1. MouseTypeOK' /\ Named'
  <2>1. MouseTypeOK'
    BY DEF MouseInv, MouseTypeOK, Named, Has, my_usb_complete_fn, usbVars, ptrVars,
           histVars, Faulty, CodeGone
  <2>2. Named'
    BY DEF MouseInv, MouseTypeOK, Named, Has, my_usb_complete_fn, usbVars, ptrVars,
           histVars, Faulty, CodeGone
  <2> QED
    BY <2>1, <2>2
<1>2. CASE overlapped'
  BY <1>1, <1>2 DEF MouseInv, OneMouse, MouseSafeAlone, FaultsExplained, NothingLeft,
                    MouseHeard
<1>3. CASE ~overlapped'
  <2>1. ~overlapped /\ MouseSafeAlone
    BY <1>3 DEF MouseInv, my_usb_complete_fn, histVars
  <2>2. Meant /\ Untouched /\ KillsOwn /\ MidClean /\ HardKeeps /\ Following
    BY <2>1 DEF OneMouse, MouseInv
  <2>3. UNCHANGED <<driver, exiting, mouse, attached, held, rejecting, buffer, my_urb, my_buffer,
                   killing>>
    BY DEF my_usb_complete_fn, ptrVars
  <2>4. m \in flying /\ mouse[m] \notin {"absent", "plugged"} /\ driver # "none"
    BY <2>2 DEF my_usb_complete_fn, Untouched, Following
  <2>5. flying' \subseteq flying \cup held
    BY DEF my_usb_complete_fn, Faulty, CodeGone
  <2>6. driver = "mid" => ~CodeGone /\ m = my_urb /\ m = my_buffer /\ m \in held
                              /\ buffer[m] = "live"
    BY <2>2, <2>4 DEF Meant, MidClean, Following, Has, CodeGone
  <2>7. driver = "mid" => mouseFault' = {}
    BY <2>4, <2>6 DEF my_usb_complete_fn, Faulty
  <2>8. driver = "mid" => flying' \subseteq flying
    BY <2>4, <2>6 DEF my_usb_complete_fn
  <2>9. driver = "hard" => mouseFault' = {} \/ (CodeGone /\ mouseFault' = {"code gone"})
    BY <2>2, <2>4 DEF my_usb_complete_fn, Faulty, HardKeeps
  <2>10. CodeGone => mouse[m] \in {"failed", "gone"}
    BY <2>2, <2>4 DEF MouseInv, MouseTypeOK, Following, CodeGone
  <2>11. driver = "hard" /\ mouseFault' = {} => my_urb \in held /\ buffer[my_buffer] = "live"
    BY <2>2, <2>4 DEF HardKeeps
  <2>12. \A n \in Mice : mouse[n] = "bound" /\ ~refused' =>
          n = my_urb /\ n \in held \ rejecting /\ n \in attached /\ ~CodeGone /\ ~refused
    BY <2>2 DEF my_usb_complete_fn, Meant, Has, KillsOwn, Following, CodeGone, Faulty
  <2>13. \A n \in Mice : mouse[n] = "bound" /\ ~refused' => n \in flying'
    BY <2>12 DEF my_usb_complete_fn, Faulty
  <2>14. Meant'
    BY <2>1, <2>2, <2>3, <2>4, <2>5, <2>6, <2>7, <2>8, <2>9, <2>10, <2>11, <2>12, <2>13,
       <1>1 DEF Meant, Has, MouseTypeOK
  <2>15. Untouched'
    BY <2>1, <2>2, <2>3, <2>4, <2>5, <2>6, <2>7, <2>8, <2>9, <2>10, <2>11, <2>12, <2>13,
       <1>1 DEF Untouched, MouseTypeOK
  <2>16. KillsOwn'
    BY <2>1, <2>2, <2>3, <2>4, <2>5, <2>6, <2>7, <2>8, <2>9, <2>10, <2>11, <2>12, <2>13,
       <1>1 DEF KillsOwn, Has, MouseTypeOK
  <2>17. MidClean'
    BY <2>1, <2>2, <2>3, <2>4, <2>5, <2>6, <2>7, <2>8, <2>9, <2>10, <2>11, <2>12, <2>13,
       <1>1 DEF MidClean, MouseTypeOK
  <2>18. HardKeeps'
    BY <2>1, <2>2, <2>3, <2>4, <2>5, <2>6, <2>7, <2>8, <2>9, <2>10, <2>11, <2>12, <2>13,
       <1>1 DEF HardKeeps, MouseTypeOK
  <2>19. Following'
    BY <2>2, <2>3 DEF Following, MouseTypeOK
  <2>20. FaultsExplained'
    BY <2>1, <2>2, <2>3, <2>4, <2>5, <2>6, <2>7, <2>8, <2>9, <2>10, <2>11, <2>12, <2>13,
       <1>1 DEF FaultsExplained, MouseTypeOK
  <2>21. NothingLeft'
    BY <2>1, <2>2, <2>3, <2>4, <2>5, <2>6, <2>7, <2>8, <2>9, <2>10, <2>11, <2>12, <2>13,
       <1>1 DEF NothingLeft, MouseSafeAlone, MouseTypeOK
  <2>22. MouseHeard'
    BY <2>1, <2>2, <2>3, <2>4, <2>5, <2>6, <2>7, <2>8, <2>9, <2>10, <2>11, <2>12, <2>13,
       <1>1 DEF Has, MouseHeard, MouseSafeAlone, MouseTypeOK
  <2> QED
    BY <1>1, <2>14, <2>15, <2>16, <2>17, <2>18, <2>19, <2>20, <2>21, <2>22
    DEF MouseInv, OneMouse, MouseSafeAlone
<1> QED
  BY <1>2, <1>3

\* A probe gives the global variables to the new mouse, and no other has them.
LEMMA my_usb_probe_Inv ==
  ASSUME MouseInv, mouseFault = {}, NEW m \in Mice, my_usb_probe(m)
  PROVE  MouseInv'
<1>1. MouseTypeOK' /\ Named'
  <2>1. MouseTypeOK'
    BY DEF MouseInv, MouseTypeOK, Named, Has, my_usb_probe, usbVars, ptrVars, histVars,
           TakesMice
  <2>2. Named'
    BY DEF MouseInv, MouseTypeOK, Named, Has, my_usb_probe, usbVars, ptrVars, histVars,
           TakesMice
  <2> QED
    BY <2>1, <2>2
<1>2. CASE overlapped'
  BY <1>1, <1>2 DEF MouseInv, OneMouse, MouseSafeAlone, FaultsExplained, NothingLeft,
                    MouseHeard
<1>3. CASE ~overlapped'
  <2>1. ~overlapped /\ MouseSafeAlone
    BY <1>3 DEF MouseInv, my_usb_probe, histVars
  <2>2. Meant /\ Untouched /\ KillsOwn /\ MidClean /\ HardKeeps /\ Following
    BY <2>1 DEF OneMouse, MouseInv
  <2>3. UNCHANGED <<driver, exiting, attached, flying, rejecting, killing, refused, mouseFault>>
    BY DEF my_usb_probe
  <2>4. mouse[m] = "plugged" /\ driver # "none" /\ exiting = "no"
    BY DEF my_usb_probe, TakesMice
  <2>5. mouse'[m] = "submit" /\ (\A n \in Mice \ {m} : mouse'[n] = mouse[n])
    BY DEF my_usb_probe, MouseInv, MouseTypeOK
  <2>6. \A n \in Mice : ~Has(n)
    BY <1>3 DEF my_usb_probe, Probing, Unbinding, Has
  <2>7. my_urb' = m /\ my_buffer' = m /\ held' = held \cup {m}
    BY DEF my_usb_probe
  <2>8. buffer'[m] = "live" /\ \A n \in Mice \ {m} : buffer'[n] = buffer[n]
    BY DEF my_usb_probe, MouseInv, MouseTypeOK
  <2>9. Meant'
    BY <2>1, <2>2, <2>3, <2>4, <2>5, <2>6, <2>7, <2>8, <1>1 DEF Meant, Has, MouseTypeOK
  <2>10. Untouched'
    BY <2>1, <2>2, <2>3, <2>4, <2>5, <2>6, <2>7, <2>8, <1>1 DEF Untouched, MouseTypeOK
  <2>11. KillsOwn'
    BY <2>1, <2>2, <2>3, <2>4, <2>5, <2>6, <2>7, <2>8, <1>1 DEF KillsOwn, Has, MouseTypeOK
  <2>12. MidClean'
    BY <2>1, <2>2, <2>3, <2>4, <2>5, <2>6, <2>7, <2>8, <1>1 DEF MidClean, MouseTypeOK
  <2>13. HardKeeps'
    BY <2>1, <2>2, <2>3, <2>4, <2>5, <2>6, <2>7, <2>8, <1>1 DEF HardKeeps, MouseTypeOK
  <2>14. Following'
    BY <2>1, <2>2, <2>3, <2>4, <2>5, <2>6, <2>7, <2>8, <1>1 DEF Following, MouseTypeOK
  <2>15. FaultsExplained'
    BY <2>1, <2>2, <2>3, <2>4, <2>5, <2>6, <2>7, <2>8, <1>1 DEF FaultsExplained,
                                                                MouseTypeOK
  <2>16. NothingLeft'
    BY <2>1, <2>2, <2>3, <2>4, <2>5, <2>6, <2>7, <2>8, <1>1 DEF NothingLeft,
                                                                MouseSafeAlone,
                                                                   MouseTypeOK
  <2>17. MouseHeard'
    BY <2>1, <2>2, <2>3, <2>4, <2>5, <2>6, <2>7, <2>8, <1>1 DEF Has, MouseHeard,
                                                                MouseSafeAlone,
                                                                   MouseTypeOK
  <2> QED
    BY <1>1, <2>9, <2>10, <2>11, <2>12, <2>13, <2>14, <2>15, <2>16, <2>17
    DEF MouseInv, OneMouse, MouseSafeAlone
<1> QED
  BY <1>2, <1>3

\* The probe submits the URB of its mouse.
LEMMA my_usb_probe_submit_Inv ==
  ASSUME MouseInv, mouseFault = {}, NEW m \in Mice, my_usb_probe_submit(m)
  PROVE  MouseInv'
<1>1. MouseTypeOK' /\ Named'
  <2>1. MouseTypeOK'
    BY DEF MouseInv, MouseTypeOK, Named, Has, my_usb_probe_submit, usbVars, ptrVars,
           histVars, usb_submit_urb, Faulty
  <2>2. Named'
    BY DEF MouseInv, MouseTypeOK, Named, Has, my_usb_probe_submit, usbVars, ptrVars,
           histVars, usb_submit_urb, Faulty
  <2> QED
    BY <2>1, <2>2
<1>2. CASE overlapped'
  BY <1>1, <1>2 DEF MouseInv, OneMouse, MouseSafeAlone, FaultsExplained, NothingLeft,
                    MouseHeard
<1>3. CASE ~overlapped'
  <2>1. ~overlapped /\ MouseSafeAlone
    BY <1>3 DEF MouseInv, my_usb_probe_submit, histVars
  <2>2. Meant /\ Untouched /\ KillsOwn /\ MidClean /\ HardKeeps /\ Following
    BY <2>1 DEF OneMouse, MouseInv
  <2>3. m = my_urb /\ m = my_buffer /\ m \in held /\ buffer[m] = "live"
    BY <2>2 DEF my_usb_probe_submit, Meant, Has
  <2>4. \A n \in Mice : Has(n) => n = m
    BY <2>2, <2>3 DEF Meant
  <2>5. UNCHANGED <<driver, exiting, attached, held, rejecting, buffer, my_urb, my_buffer,
                   killing>>
    BY DEF my_usb_probe_submit, ptrVars
  <2>6. m \notin rejecting /\ m \in attached /\ driver # "none" /\ exiting = "no"
    BY <2>2 DEF my_usb_probe_submit, KillsOwn, Following, MouseInv, MouseTypeOK
  <2>7. mouseFault' = {}
    BY <2>3 DEF my_usb_probe_submit, usb_submit_urb, Live, Faulty
  <2>8. refused' \in {refused, TRUE}
    BY DEF my_usb_probe_submit, usb_submit_urb
  <2>9. flying' = flying \cup {m} \/ (flying' = flying /\ refused')
    BY <2>3, <2>6 DEF my_usb_probe_submit, usb_submit_urb, Live
  <2>10. mouse'[m] \in {"bound", "failed"} /\ (\A n \in Mice \ {m} : mouse'[n] = mouse[n])
    BY DEF my_usb_probe_submit, MouseInv, MouseTypeOK
  <2>11. mouse'[m] = "failed" => driver = "hard"
    BY DEF my_usb_probe_submit, MouseInv, MouseTypeOK
  <2>12. Meant'
    BY <2>1, <2>2, <2>3, <2>4, <2>5, <2>6, <2>7, <2>8, <2>9, <2>10, <2>11,
       <1>1 DEF Meant, Has, MouseTypeOK
  <2>13. Untouched'
    BY <2>1, <2>2, <2>3, <2>4, <2>5, <2>6, <2>7, <2>8, <2>9, <2>10, <2>11,
       <1>1 DEF Untouched, MouseTypeOK
  <2>14. KillsOwn'
    BY <2>1, <2>2, <2>3, <2>4, <2>5, <2>6, <2>7, <2>8, <2>9, <2>10, <2>11,
       <1>1 DEF KillsOwn, Has, MouseTypeOK
  <2>15. MidClean'
    BY <2>1, <2>2, <2>3, <2>4, <2>5, <2>6, <2>7, <2>8, <2>9, <2>10, <2>11,
       <1>1 DEF MidClean, MouseTypeOK
  <2>16. HardKeeps'
    BY <2>1, <2>2, <2>3, <2>4, <2>5, <2>6, <2>7, <2>8, <2>9, <2>10, <2>11,
       <1>1 DEF HardKeeps, MouseTypeOK
  <2>17. Following'
    BY <2>1, <2>2, <2>3, <2>4, <2>5, <2>6, <2>7, <2>8, <2>9, <2>10, <2>11,
       <1>1 DEF Following, MouseTypeOK
  <2>18. FaultsExplained'
    BY <2>1, <2>2, <2>3, <2>4, <2>5, <2>6, <2>7, <2>8, <2>9, <2>10, <2>11,
       <1>1 DEF FaultsExplained, MouseTypeOK
  <2>19. NothingLeft'
    BY <2>1, <2>2, <2>3, <2>4, <2>5, <2>6, <2>7, <2>8, <2>9, <2>10, <2>11,
       <1>1 DEF NothingLeft, MouseSafeAlone, MouseTypeOK
  <2>20. MouseHeard'
    BY <2>1, <2>2, <2>3, <2>4, <2>5, <2>6, <2>7, <2>8, <2>9, <2>10, <2>11, <1>1 DEF Has,
       MouseHeard, MouseSafeAlone, MouseTypeOK
  <2> QED
    BY <1>1, <2>12, <2>13, <2>14, <2>15, <2>16, <2>17, <2>18, <2>19, <2>20
    DEF MouseInv, OneMouse, MouseSafeAlone
<1> QED
  BY <1>2, <1>3

\* usb_kill_urb begins ...
LEMMA my_usb_disconnect_Inv ==
  ASSUME MouseInv, mouseFault = {}, NEW m \in Mice, my_usb_disconnect(m)
  PROVE  MouseInv'
<1>1. MouseTypeOK' /\ Named'
  <2>1. MouseTypeOK'
    BY DEF MouseInv, MouseTypeOK, Named, Has, my_usb_disconnect, usbVars, ptrVars,
           histVars, Faulty, Live
  <2>2. Named'
    BY DEF MouseInv, MouseTypeOK, Named, Has, my_usb_disconnect, usbVars, ptrVars,
           histVars, Faulty, Live
  <2> QED
    BY <2>1, <2>2
<1>2. CASE overlapped'
  BY <1>1, <1>2 DEF MouseInv, OneMouse, MouseSafeAlone, FaultsExplained, NothingLeft,
                    MouseHeard
<1>3. CASE ~overlapped'
  <2>1. ~overlapped /\ MouseSafeAlone
    BY <1>3 DEF MouseInv, my_usb_disconnect, histVars
  <2>2. Meant /\ Untouched /\ KillsOwn /\ MidClean /\ HardKeeps /\ Following
    BY <2>1 DEF OneMouse, MouseInv
  <2>3. m = my_urb /\ m = my_buffer /\ m \in held /\ buffer[m] = "live"
    BY <2>2 DEF my_usb_disconnect, Meant, Has
  <2>4. \A n \in Mice : Has(n) => n = m
    BY <2>2, <2>3 DEF Meant
  <2>5. UNCHANGED <<driver, exiting, attached, flying, held, buffer, my_urb, my_buffer, refused>>
    BY DEF my_usb_disconnect, ptrVars, histVars
  <2>6. mouseFault' = {}
    BY <2>3 DEF my_usb_disconnect, Live, Faulty
  <2>7. mouse[m] = "kill" /\ mouse'[m] = "wait" /\ (\A n \in Mice \ {m} : mouse'[n] = mouse[n])
    BY DEF my_usb_disconnect, MouseInv, MouseTypeOK
  <2>8. rejecting' = rejecting \cup {m} /\ killing'[m] = m
    BY <2>3 DEF my_usb_disconnect, MouseInv, MouseTypeOK
  <2>9. Meant'
    BY <2>1, <2>2, <2>3, <2>4, <2>5, <2>6, <2>7, <2>8, <1>1 DEF Meant, Has, MouseTypeOK
  <2>10. Untouched'
    BY <2>1, <2>2, <2>3, <2>4, <2>5, <2>6, <2>7, <2>8, <1>1 DEF Untouched, MouseTypeOK
  <2>11. KillsOwn'
    BY <2>1, <2>2, <2>3, <2>4, <2>5, <2>6, <2>7, <2>8, <1>1 DEF KillsOwn, Has, MouseTypeOK
  <2>12. MidClean'
    BY <2>1, <2>2, <2>3, <2>4, <2>5, <2>6, <2>7, <2>8, <1>1 DEF MidClean, MouseTypeOK
  <2>13. HardKeeps'
    BY <2>1, <2>2, <2>3, <2>4, <2>5, <2>6, <2>7, <2>8, <1>1 DEF HardKeeps, MouseTypeOK
  <2>14. Following'
    BY <2>1, <2>2, <2>3, <2>4, <2>5, <2>6, <2>7, <2>8, <1>1 DEF Following, MouseTypeOK
  <2>15. FaultsExplained'
    BY <2>1, <2>2, <2>3, <2>4, <2>5, <2>6, <2>7, <2>8, <1>1 DEF FaultsExplained,
                                                                MouseTypeOK
  <2>16. NothingLeft'
    BY <2>1, <2>2, <2>3, <2>4, <2>5, <2>6, <2>7, <2>8, <1>1 DEF NothingLeft,
                                                                MouseSafeAlone,
                                                                   MouseTypeOK
  <2>17. MouseHeard'
    BY <2>1, <2>2, <2>3, <2>4, <2>5, <2>6, <2>7, <2>8, <1>1 DEF Has, MouseHeard,
                                                                MouseSafeAlone,
                                                                   MouseTypeOK
  <2> QED
    BY <1>1, <2>9, <2>10, <2>11, <2>12, <2>13, <2>14, <2>15, <2>16, <2>17
    DEF MouseInv, OneMouse, MouseSafeAlone
<1> QED
  BY <1>2, <1>3

\* ... and ends with the URB in nobody's hands,
LEMMA my_usb_killed_Inv ==
  ASSUME MouseInv, mouseFault = {}, NEW m \in Mice, my_usb_killed(m)
  PROVE  MouseInv'
<1>1. MouseTypeOK' /\ Named'
  <2>1. MouseTypeOK'
    BY DEF MouseInv, MouseTypeOK, Named, Has, my_usb_killed, usbVars, ptrVars, histVars,
           Killed
  <2>2. Named'
    BY DEF MouseInv, MouseTypeOK, Named, Has, my_usb_killed, usbVars, ptrVars, histVars,
           Killed
  <2> QED
    BY <2>1, <2>2
<1>2. CASE overlapped'
  BY <1>1, <1>2 DEF MouseInv, OneMouse, MouseSafeAlone, FaultsExplained, NothingLeft,
                    MouseHeard
<1>3. CASE ~overlapped'
  <2>1. ~overlapped /\ MouseSafeAlone
    BY <1>3 DEF MouseInv, my_usb_killed, histVars
  <2>2. Meant /\ Untouched /\ KillsOwn /\ MidClean /\ HardKeeps /\ Following
    BY <2>1 DEF OneMouse, MouseInv
  <2>3. m = my_urb /\ m = my_buffer /\ m \in held /\ buffer[m] = "live"
    BY <2>2 DEF my_usb_killed, Killed, Meant, Has
  <2>4. \A n \in Mice : Has(n) => n = m
    BY <2>2, <2>3 DEF Meant
  <2>5. UNCHANGED <<driver, exiting, attached, flying, held, buffer, my_urb, my_buffer, killing,
                   refused, mouseFault>>
    BY DEF my_usb_killed, ptrVars, histVars
  <2>6. mouse[m] = "wait" /\ mouse'[m] = "free" /\ (\A n \in Mice \ {m} : mouse'[n] = mouse[n])
    BY DEF my_usb_killed, Killed, MouseInv, MouseTypeOK
  <2>7. killing[m] = m
    BY <2>2, <2>6 DEF KillsOwn
  <2>8. m \notin flying
    BY <2>7 DEF my_usb_killed, Killed
  <2>9. rejecting' = rejecting \ {m}
    BY <2>7 DEF my_usb_killed
  <2>10. rejecting \subseteq {m}
    BY <2>2, <2>4 DEF KillsOwn, Has, MouseInv, MouseTypeOK
  <2>11. Meant'
    BY <2>1, <2>2, <2>3, <2>4, <2>5, <2>6, <2>7, <2>8, <2>9, <2>10, <1>1 DEF Meant, Has,
       MouseTypeOK
  <2>12. Untouched'
    BY <2>1, <2>2, <2>3, <2>4, <2>5, <2>6, <2>7, <2>8, <2>9, <2>10, <1>1 DEF Untouched,
       MouseTypeOK
  <2>13. KillsOwn'
    BY <2>1, <2>2, <2>3, <2>4, <2>5, <2>6, <2>7, <2>8, <2>9, <2>10, <1>1 DEF KillsOwn,
       Has, MouseTypeOK
  <2>14. MidClean'
    BY <2>1, <2>2, <2>3, <2>4, <2>5, <2>6, <2>7, <2>8, <2>9, <2>10, <1>1 DEF MidClean,
       MouseTypeOK
  <2>15. HardKeeps'
    BY <2>1, <2>2, <2>3, <2>4, <2>5, <2>6, <2>7, <2>8, <2>9, <2>10, <1>1 DEF HardKeeps,
       MouseTypeOK
  <2>16. Following'
    BY <2>1, <2>2, <2>3, <2>4, <2>5, <2>6, <2>7, <2>8, <2>9, <2>10, <1>1 DEF Following,
       MouseTypeOK
  <2>17. FaultsExplained'
    BY <2>1, <2>2, <2>3, <2>4, <2>5, <2>6, <2>7, <2>8, <2>9, <2>10,
       <1>1 DEF FaultsExplained, MouseTypeOK
  <2>18. NothingLeft'
    BY <2>1, <2>2, <2>3, <2>4, <2>5, <2>6, <2>7, <2>8, <2>9, <2>10,
       <1>1 DEF NothingLeft, MouseSafeAlone, MouseTypeOK
  <2>19. MouseHeard'
    BY <2>1, <2>2, <2>3, <2>4, <2>5, <2>6, <2>7, <2>8, <2>9, <2>10, <1>1 DEF Has,
       MouseHeard, MouseSafeAlone, MouseTypeOK
  <2> QED
    BY <1>1, <2>11, <2>12, <2>13, <2>14, <2>15, <2>16, <2>17, <2>18, <2>19
    DEF MouseInv, OneMouse, MouseSafeAlone
<1> QED
  BY <1>2, <1>3

\* so that what is freed is what the mouse had.
LEMMA my_usb_free_Inv ==
  ASSUME MouseInv, mouseFault = {}, NEW m \in Mice, my_usb_free(m)
  PROVE  MouseInv'
<1>1. MouseTypeOK' /\ Named'
  <2>1. MouseTypeOK'
    BY DEF MouseInv, MouseTypeOK, Named, Has, my_usb_free, usbVars, ptrVars, histVars,
           Faulty
  <2>2. Named'
    BY DEF MouseInv, MouseTypeOK, Named, Has, my_usb_free, usbVars, ptrVars, histVars,
           Faulty
  <2> QED
    BY <2>1, <2>2
<1>2. CASE overlapped'
  BY <1>1, <1>2 DEF MouseInv, OneMouse, MouseSafeAlone, FaultsExplained, NothingLeft,
                    MouseHeard
<1>3. CASE ~overlapped'
  <2>1. ~overlapped /\ MouseSafeAlone
    BY <1>3 DEF MouseInv, my_usb_free, histVars
  <2>2. Meant /\ Untouched /\ KillsOwn /\ MidClean /\ HardKeeps /\ Following
    BY <2>1 DEF OneMouse, MouseInv
  <2>3. m = my_urb /\ m = my_buffer /\ m \in held /\ buffer[m] = "live"
    BY <2>2 DEF my_usb_free, Meant, Has
  <2>4. \A n \in Mice : Has(n) => n = m
    BY <2>2, <2>3 DEF Meant
  <2>5. UNCHANGED <<driver, exiting, attached, flying, rejecting, my_urb, my_buffer, killing,
                   refused>>
    BY DEF my_usb_free, histVars
  <2>6. mouse[m] = "free" /\ mouse'[m] = "gone" /\ (\A n \in Mice \ {m} : mouse'[n] = mouse[n])
    BY DEF my_usb_free, MouseInv, MouseTypeOK
  <2>7. driver # "none" /\ m \notin rejecting /\ (driver = "mid" => m \notin flying)
    BY <2>2, <2>6 DEF KillsOwn, Following, MidClean
  <2>8. mouseFault' = IF driver = "hard" THEN {"put twice"} ELSE {}
    BY <2>3 DEF my_usb_free, Faulty
  <2>9. held' = IF driver = "hard" THEN held ELSE held \ {m}
    BY <2>3 DEF my_usb_free
  <2>10. buffer'[m] = "freed" /\ \A n \in Mice \ {m} : buffer'[n] = buffer[n]
    BY <2>3 DEF my_usb_free, MouseInv, MouseTypeOK
  <2>11. Meant'
    BY <2>1, <2>2, <2>3, <2>4, <2>5, <2>6, <2>7, <2>8, <2>9, <2>10, <1>1 DEF Meant, Has,
       MouseTypeOK
  <2>12. Untouched'
    BY <2>1, <2>2, <2>3, <2>4, <2>5, <2>6, <2>7, <2>8, <2>9, <2>10, <1>1 DEF Untouched,
       MouseTypeOK
  <2>13. KillsOwn'
    BY <2>1, <2>2, <2>3, <2>4, <2>5, <2>6, <2>7, <2>8, <2>9, <2>10, <1>1, ZenonT(30) DEF KillsOwn,
       Has, MouseTypeOK
  <2>14. MidClean'
    BY <2>1, <2>2, <2>3, <2>4, <2>5, <2>6, <2>7, <2>8, <2>9, <2>10, <1>1 DEF MidClean,
       MouseTypeOK
  <2>15. HardKeeps'
    BY <2>1, <2>2, <2>3, <2>4, <2>5, <2>6, <2>7, <2>8, <2>9, <2>10, <1>1 DEF HardKeeps,
       MouseTypeOK
  <2>16. Following'
    BY <2>1, <2>2, <2>3, <2>4, <2>5, <2>6, <2>7, <2>8, <2>9, <2>10, <1>1 DEF Following,
       MouseTypeOK
  <2>17. FaultsExplained'
    BY <2>1, <2>2, <2>3, <2>4, <2>5, <2>6, <2>7, <2>8, <2>9, <2>10,
       <1>1 DEF FaultsExplained, MouseTypeOK
  <2>18. NothingLeft'
    BY <2>1, <2>2, <2>3, <2>4, <2>5, <2>6, <2>7, <2>8, <2>9, <2>10,
       <1>1 DEF NothingLeft, MouseSafeAlone, MouseTypeOK
  <2>19. MouseHeard'
    BY <2>1, <2>2, <2>3, <2>4, <2>5, <2>6, <2>7, <2>8, <2>9, <2>10, <1>1 DEF Has,
       MouseHeard, MouseSafeAlone, MouseTypeOK
  <2> QED
    BY <1>1, <2>11, <2>12, <2>13, <2>14, <2>15, <2>16, <2>17, <2>18, <2>19
    DEF MouseInv, OneMouse, MouseSafeAlone
<1> QED
  BY <1>2, <1>3

\* A driver is loaded before any mouse is there.
LEMMA my_usb_init_Inv == ASSUME MouseInv, mouseFault = {}, my_usb_init
      PROVE  MouseInv'
<1> USE DEF MouseInv, MouseTypeOK, my_usb_init, usbVars, ptrVars, histVars
<1>1. MouseTypeOK' /\ Named'
  BY DEF Named, Has
<1>2. CASE overlapped'
  BY <1>1, <1>2 DEF OneMouse, MouseSafeAlone, FaultsExplained, NothingLeft, MouseHeard
<1>3. CASE ~overlapped'
  <2>1. ~overlapped /\ OneMouse /\ MouseSafeAlone
    BY <1>3
  <2>2. Meant /\ Untouched /\ KillsOwn /\ MidClean /\ HardKeeps /\ Following
    BY <2>1 DEF OneMouse
  <2>3. Meant'
    BY <1>1, <1>3, <2>1, <2>2 DEF Has, Meant
  <2>4. Untouched'
    BY <1>1, <1>3, <2>1, <2>2 DEF Has, Meant, Untouched
  <2>5. KillsOwn'
    BY <1>1, <1>3, <2>1, <2>2 DEF Has, Meant, KillsOwn, Untouched
  <2>6. MidClean'
    BY <1>1, <1>3, <2>1, <2>2 DEF Has, Meant, MidClean, Untouched, Following
  <2>7. HardKeeps'
    BY <1>1, <1>3, <2>1, <2>2 DEF Has, Meant, Untouched, HardKeeps, Following
  <2>8. Following'
    BY <1>1, <1>3, <2>1, <2>2 DEF Has, Following
  <2>9. FaultsExplained'
    BY <1>1, <1>3, <2>1, <2>2 DEF Has, Meant, Untouched, MidClean, HardKeeps, Following,
                                  MouseSafeAlone, FaultsExplained
  <2>10. NothingLeft'
    BY <1>1, <1>3, <2>1, <2>2 DEF Has, Meant, Untouched, KillsOwn, MidClean,
                                  MouseSafeAlone, NothingLeft, Following
  <2>11. MouseHeard'
    BY <1>1, <1>3, <2>1, <2>2 DEF Has, Meant, KillsOwn, Following, MouseSafeAlone,
                                  MouseHeard
  <2> QED
    BY <1>1, <2>3, <2>4, <2>5, <2>6, <2>7, <2>8, <2>9, <2>10, <2>11
    DEF OneMouse, MouseSafeAlone
<1> QED
  BY <1>2, <1>3

\* usb_deregister disconnects what is bound ...
LEMMA my_usb_exit_Inv == ASSUME MouseInv, mouseFault = {}, my_usb_exit
      PROVE  MouseInv'
<1> USE DEF MouseInv, MouseTypeOK, my_usb_exit, usbVars, ptrVars, histVars
<1>1. MouseTypeOK' /\ Named'
  BY DEF Named, Has, TakesMice, Probing
<1>2. CASE overlapped'
  BY <1>1, <1>2 DEF OneMouse, MouseSafeAlone, FaultsExplained, NothingLeft, MouseHeard
<1>3. CASE ~overlapped'
  <2>1. ~overlapped /\ OneMouse /\ MouseSafeAlone
    BY <1>3
  <2>2. Meant /\ Untouched /\ KillsOwn /\ MidClean /\ HardKeeps /\ Following
    BY <2>1 DEF OneMouse
  <2>3. Meant'
    BY <1>1, <1>3, <2>1, <2>2 DEF Has, Meant, TakesMice, Probing
  <2>4. Untouched'
    BY <1>1, <1>3, <2>1, <2>2 DEF Has, Meant, Untouched, TakesMice, Probing
  <2>5. KillsOwn'
    BY <1>1, <1>3, <2>1, <2>2 DEF Has, Meant, KillsOwn, Untouched, TakesMice, Probing
  <2>6. MidClean'
    BY <1>1, <1>3, <2>1, <2>2 DEF Has, Meant, MidClean, Untouched, Following, TakesMice,
                                  Probing
  <2>7. HardKeeps'
    BY <1>1, <1>3, <2>1, <2>2 DEF Has, Meant, Untouched, HardKeeps, Following,
                                  TakesMice, Probing
  <2>8. Following'
    BY <1>1, <1>3, <2>1, <2>2 DEF Has, Following, TakesMice, Probing
  <2>9. FaultsExplained'
    BY <1>1, <1>3, <2>1, <2>2 DEF Has, Meant, Untouched, MidClean, HardKeeps, Following,
                                  MouseSafeAlone, FaultsExplained, TakesMice, Probing
  <2>10. NothingLeft'
    BY <1>1, <1>3, <2>1, <2>2 DEF Has, Meant, Untouched, KillsOwn, MidClean,
                                  MouseSafeAlone, NothingLeft, Following, TakesMice,
                                     Probing
  <2>11. MouseHeard'
    BY <1>1, <1>3, <2>1, <2>2 DEF Has, Meant, KillsOwn, Following, MouseSafeAlone,
                                  MouseHeard, TakesMice, Probing
  <2> QED
    BY <1>1, <2>3, <2>4, <2>5, <2>6, <2>7, <2>8, <2>9, <2>10, <2>11
    DEF OneMouse, MouseSafeAlone
<1> QED
  BY <1>2, <1>3

\* ... and the module goes when nothing is being disconnected.
LEMMA my_usb_exited_Inv == ASSUME MouseInv, mouseFault = {}, my_usb_exited
      PROVE  MouseInv'
<1> USE DEF MouseInv, MouseTypeOK, my_usb_exited, usbVars, ptrVars, histVars
<1>1. MouseTypeOK' /\ Named'
  BY DEF Named, Has, Unbinding
<1>2. CASE overlapped'
  BY <1>1, <1>2 DEF OneMouse, MouseSafeAlone, FaultsExplained, NothingLeft, MouseHeard
<1>3. CASE ~overlapped'
  <2>1. ~overlapped /\ OneMouse /\ MouseSafeAlone
    BY <1>3
  <2>2. Meant /\ Untouched /\ KillsOwn /\ MidClean /\ HardKeeps /\ Following
    BY <2>1 DEF OneMouse
  <2>3. Meant'
    BY <1>1, <1>3, <2>1, <2>2 DEF Has, Meant, Unbinding
  <2>4. Untouched'
    BY <1>1, <1>3, <2>1, <2>2 DEF Has, Meant, Untouched, Unbinding
  <2>5. KillsOwn'
    BY <1>1, <1>3, <2>1, <2>2 DEF Has, Meant, KillsOwn, Untouched, Unbinding
  <2>6. MidClean'
    BY <1>1, <1>3, <2>1, <2>2 DEF Has, Meant, MidClean, Untouched, Following, Unbinding
  <2>7. HardKeeps'
    BY <1>1, <1>3, <2>1, <2>2 DEF Has, Meant, Untouched, HardKeeps, Following, Unbinding
  <2>8. Following'
    BY <1>1, <1>3, <2>1, <2>2 DEF Has, Following, Unbinding
  <2>9. FaultsExplained'
    BY <1>1, <1>3, <2>1, <2>2 DEF Has, Meant, Untouched, MidClean, HardKeeps, Following,
                                  MouseSafeAlone, FaultsExplained, Unbinding
  <2>10. NothingLeft'
    BY <1>1, <1>3, <2>1, <2>2 DEF Has, Meant, Untouched, KillsOwn, MidClean,
                                  MouseSafeAlone, NothingLeft, Following, Unbinding
  <2>11. MouseHeard'
    BY <1>1, <1>3, <2>1, <2>2 DEF Has, Meant, KillsOwn, Following, MouseSafeAlone,
                                  MouseHeard, Unbinding
  <2> QED
    BY <1>1, <2>3, <2>4, <2>5, <2>6, <2>7, <2>8, <2>9, <2>10, <2>11
    DEF OneMouse, MouseSafeAlone
<1> QED
  BY <1>2, <1>3

LEMMA MouseNextInv == MouseInv /\ MouseNext => MouseInv'
<1> SUFFICES ASSUME MouseInv, MouseNext PROVE MouseInv'
  OBVIOUS
<1>1. mouseFault = {}
  BY DEF MouseNext
<1>2. CASE \E m \in Mice : PlugIn(m)
  BY <1>1, <1>2, PlugIn_Inv
<1>3. CASE \E m \in Mice : Unplug(m)
  BY <1>1, <1>3, Unplug_Inv
<1>4. CASE \E m \in Mice : my_usb_complete_fn(m)
  BY <1>1, <1>4, my_usb_complete_fn_Inv
<1>5. CASE \E m \in Mice : my_usb_probe(m)
  BY <1>1, <1>5, my_usb_probe_Inv
<1>6. CASE \E m \in Mice : my_usb_probe_submit(m)
  BY <1>1, <1>6, my_usb_probe_submit_Inv
<1>7. CASE \E m \in Mice : my_usb_disconnect(m)
  BY <1>1, <1>7, my_usb_disconnect_Inv
<1>8. CASE \E m \in Mice : my_usb_killed(m)
  BY <1>1, <1>8, my_usb_killed_Inv
<1>9. CASE \E m \in Mice : my_usb_free(m)
  BY <1>1, <1>9, my_usb_free_Inv
<1>10. CASE my_usb_init
  BY <1>1, <1>10, my_usb_init_Inv
<1>11. CASE my_usb_exit
  BY <1>1, <1>11, my_usb_exit_Inv
<1>12. CASE my_usb_exited
  BY <1>1, <1>12, my_usb_exited_Inv
<1> QED
  BY <1>2, <1>3, <1>4, <1>5, <1>6, <1>7, <1>8, <1>9, <1>10, <1>11, <1>12 DEF MouseNext

\* The demonstrations that are not chosen rest.
LEMMA MouseRests == MouseInv /\ UNCHANGED mouseVars => MouseInv'
<1> SUFFICES ASSUME MouseInv, UNCHANGED mouseVars PROVE MouseInv'
  OBVIOUS
<1> USE DEF mouseVars, usbVars, ptrVars, histVars
<1>1. MouseTypeOK'
  BY DEF MouseInv, MouseTypeOK
<1>2. Named' = Named /\ Meant' = Meant /\ Untouched' = Untouched /\ KillsOwn' = KillsOwn
  BY DEF Named, Meant, Has, Untouched, KillsOwn
<1>3. MidClean' = MidClean /\ HardKeeps' = HardKeeps
  BY DEF MidClean, HardKeeps
<1>4. Following' = Following
  BY DEF Following
<1>5. MouseSafeAlone'
  BY DEF MouseInv, MouseSafeAlone, FaultsExplained, NothingLeft, MouseHeard
<1> QED
  BY <1>1, <1>2, <1>3, <1>4, <1>5 DEF MouseInv, OneMouse

-----------------------------------------------------------------------------
(* netif_op and ethtool_op: the settings of the interface.                 *)

FlagNames == {"UP", "ALLMULTI", "PROMISC", "NOARP"}
Macs == [head : {"factory", "other"}, tail : {"factory", "87:88", "other"}]
Shows == {"name", "flags", "addr", "dst", "brd", "mask", "mtu", "mac", "qlen", "conf",
          "speed", "duplex", "link"}
Faces == [flags : SUBSET FlagNames, addr : {"none", "mine", "other"},
          dst : {"reset", "mine"}, brd : {"reset", "mine"}, mask : {"reset", "mine"},
          mtu : {"default", "mine"}, qlen : {"default", "mine"}, mac : Macs,
          link : {"up", "down"}, duplex : {"half", "full"}]

OpTyped ==
  /\ program \in {"none", "netif_op", "ethtool_op"} /\ step \in 1..21
  /\ eth \in Faces
  /\ req \in [flags : SUBSET FlagNames, mac : Macs]
  /\ wish \in [noarp : BOOLEAN, head : {"factory", "other"}]
  /\ DOMAIN shown = Shows
  /\ done \subseteq Settings \cup {"flags", "mac"}
  /\ touched \subseteq Settings \cup {"flags", "mac", "link"}
  /\ adminMoves \in 0..AdminMoves

\* What the address decides is set after it ...
AddressFirst == program # "netif_op" \/ step <= 3 => done \cap AddrSettings = {}

\* ... only netif_op sets anything, once it is started ...
OnlyItSets == /\ program # "netif_op" => done = {}
              /\ program = "none" => step = 1

\* ... the flags and the MAC address that were read are still the interface's
\* when they are written, as far as somebody else may change them ...
ReadIsFresh ==
  program = "netif_op" /\ ~raced =>
    /\ step = 2 => ("NOARP" \in req.flags <=> "NOARP" \in eth.flags)
    /\ step = 10 => req.mac.head = eth.mac.head

\* ... nothing is printed before all is set, the link not before the speed,
\* and until then the speed is the link's.
PrintedLast ==
  /\ program # "ethtool_op" /\ step <= 11 => \A f \in Shows : shown[f] = <<>>
  /\ program # "ethtool_op" \/ step <= 2 => shown.link = <<>>
  /\ program = "ethtool_op" /\ step = 2 /\ ~raced =>
       (shown.speed = <<"1000">> <=> eth.link = "up")

OpInv == OpTyped /\ AddressFirst /\ OnlyItSets /\ ReadIsFresh /\ PrintedLast /\
         SettingsStick

\* The order of demo_about_set and demo_about_get.
LEMMA Requests ==
  /\ Len(about_set) = 10 /\ Len(about_get) = 10
  /\ about_set[1] = "SIOCGIFFLAGS" /\ about_set[2] = "SIOCSIFFLAGS"
  /\ about_set[3] = "SIOCSIFADDR" /\ about_set[4] = "SIOCSIFDSTADDR"
  /\ about_set[5] = "SIOCSIFBRDADDR" /\ about_set[6] = "SIOCSIFNETMASK"
  /\ about_set[7] = "SIOCSIFMTU" /\ about_set[8] = "SIOCSIFTXQLEN"
  /\ about_set[9] = "SIOCGIFHWADDR" /\ about_set[10] = "SIOCSIFHWADDR"
  BY DEF about_set, about_get

\* Where each request of demo_about_set stands.
LEMMA RequestAt ==
  ASSUME NEW r, At(r), OpTyped
  PROVE  /\ program = "netif_op" /\ step <= 10
         /\ r = "SIOCGIFFLAGS" => step = 1
         /\ r = "SIOCSIFFLAGS" => step = 2
         /\ r = "SIOCSIFADDR" => step = 3
         /\ r \in {"SIOCSIFDSTADDR", "SIOCSIFBRDADDR", "SIOCSIFNETMASK",
                   "SIOCSIFMTU", "SIOCSIFTXQLEN"} => step \in 4..8
         /\ r = "SIOCGIFHWADDR" => step = 9
         /\ r = "SIOCSIFHWADDR" => step = 10
<1>1. program = "netif_op" /\ step \in 1..10 /\ about_set[step] = r
  BY Requests DEF At, Setting, OpTyped
<1>2. step = 1 \/ step = 2 \/ step = 3 \/ step = 4 \/ step = 5 \/ step = 6 \/ step = 7
      \/ step = 8 \/ step = 9 \/ step = 10
  BY <1>1
<1> QED
  BY <1>1, <1>2, Requests

LEMMA OpInitInv == OpInit => OpInv
<1> SUFFICES ASSUME OpInit PROVE OpInv
  OBVIOUS
<1>1. OpTyped
  BY NetifOpAssumption DEF OpInit, OpTyped, Factory, Faces, Macs, Shows, FlagNames, Settings,
       AddrSettings
<1>2. AddressFirst /\ OnlyItSets /\ ReadIsFresh /\ PrintedLast
  BY <1>1 DEF OpInit, AddressFirst, OnlyItSets, ReadIsFresh, PrintedLast, Shows
<1>3. SettingsStick
  BY <1>1 DEF OpInit, SettingsStick, Stuck, PrintedTrue, OthersSettingsKept, LinkAgrees,
              Factory, Shows
<1> QED
  BY <1>1, <1>2, <1>3 DEF OpInv

\* Reading the flags and the MAC address: what was read is fresh.
LEMMA OpReadInv == ASSUME OpInv, SIOCGIFFLAGS \/ SIOCGIFHWADDR PROVE OpInv'
<1> USE DEF OpInv, SIOCGIFFLAGS, SIOCGIFHWADDR, Next1, hostVars
<1>1. program = "netif_op" /\ step \in {1, 9} /\ step' \in {2, 3, 10, 11} /\ step' > step
  BY RequestAt DEF OpTyped
<1>2. step' = 2 => step = 1 /\ req'.flags = eth.flags
  BY <1>1, RequestAt DEF OpTyped
<1>3. step' = 10 => step = 9 /\ req'.mac = eth.mac
  BY <1>1, RequestAt DEF OpTyped
<1>4. OpTyped'
  <2>1. eth.flags \in SUBSET FlagNames /\ eth.mac \in Macs
    BY DEF OpTyped, Faces
  <2>2. req' \in [flags : SUBSET FlagNames, mac : Macs]
    BY <2>1 DEF OpTyped
  <2> QED
    BY <1>1, <2>2 DEF OpTyped
<1>5. AddressFirst' /\ OnlyItSets'
  BY <1>1, <1>4 DEF AddressFirst, OnlyItSets, OpTyped
<1>6. ReadIsFresh'
  BY <1>1, <1>2, <1>3 DEF ReadIsFresh
<1>7. PrintedLast'
  BY <1>1 DEF PrintedLast
<1>8. SettingsStick'
  BY DEF SettingsStick, Stuck, PrintedTrue, OthersSettingsKept, LinkAgrees
<1> QED
  BY <1>4, <1>5, <1>6, <1>7, <1>8

\* A request that sets leaves what has been printed alone.
LEMMA OpSetRest ==
  ASSUME OpInv, program = "netif_op", step \in 2..10, step \notin {1, 9}, step' = step + 1,
         UNCHANGED <<program, hostVars, req, shown, wish, raced, adminMoves>>,
         eth'.link = eth.link,
         done' \subseteq done \cup Settings \cup {"flags", "mac"}
  PROVE  ReadIsFresh' /\ PrintedLast' /\ OnlyItSets' /\ PrintedTrue' /\ LinkAgrees'
<1> USE DEF OpInv
<1>1. step <= 10 /\ step' <= 11 /\ step' \notin {1, 2, 10}
  OBVIOUS
<1>2. \A f \in Shows : shown[f] = <<>>
  BY <1>1 DEF PrintedLast
<1>3. shown' = shown /\ shown.link = <<>> /\ shown.conf = <<>>
  BY <1>2 DEF Shows
<1>4. \A f \in Settings : f \in Shows
  BY DEF Settings, AddrSettings, Shows
<1>5. ReadIsFresh' /\ OnlyItSets'
  BY <1>1 DEF ReadIsFresh, OnlyItSets
<1>6. PrintedLast'
  BY <1>1, <1>2, <1>3 DEF PrintedLast
<1>7. PrintedTrue'
  BY <1>2, <1>3, <1>4 DEF PrintedTrue
<1>8. LinkAgrees'
  BY <1>3 DEF LinkAgrees
<1> QED
  BY <1>5, <1>6, <1>7, <1>8

\* The flags are written as they were read, with three more: an absent
\* administrator's stay.
LEMMA OpFlagsInv == ASSUME OpInv, SIOCSIFFLAGS PROVE OpInv'
<1> USE DEF OpInv, SIOCSIFFLAGS, Next1
<1>1. program = "netif_op" /\ step = 2
  BY RequestAt
<1>2. CASE May
  <2>1. eth' = [eth EXCEPT !.flags = req.flags \cup {"UP", "ALLMULTI", "PROMISC"}]
        /\ done' = done \cup {"flags"} /\ touched' = touched \ {"flags"}
    BY <1>2
  <2>2. OpTyped'
    <3>1. req.flags \cup {"UP", "ALLMULTI", "PROMISC"} \in SUBSET FlagNames
      BY DEF OpTyped, FlagNames
    <3>2. eth' \in Faces
      BY <2>1, <3>1 DEF OpTyped, Faces
    <3> QED
      BY <1>1, <2>1, <3>2 DEF OpTyped
  <2>3. eth'.link = eth.link /\ eth'.mac = eth.mac
        /\ eth'.flags = req.flags \cup {"UP", "ALLMULTI", "PROMISC"}
        /\ \A f \in Settings : eth'[f] = eth[f]
    BY <2>1 DEF OpTyped, Faces, Settings, AddrSettings
  <2>4. ReadIsFresh' /\ PrintedLast' /\ OnlyItSets' /\ PrintedTrue' /\ LinkAgrees'
    BY <1>1, <2>1, <2>3, OpSetRest
  <2>5. AddressFirst'
    BY <1>1, <2>1 DEF AddressFirst, AddrSettings
  <2>6. Stuck'
    BY <2>1, <2>3 DEF SettingsStick, Stuck, Settings, AddrSettings
  <2>7. OthersSettingsKept'
    BY <1>1, <2>3 DEF SettingsStick, OthersSettingsKept, ReadIsFresh
  <2> QED
    BY <2>2, <2>4, <2>5, <2>6, <2>7 DEF SettingsStick
<1>3. CASE ~May
  <2>1. UNCHANGED <<eth, done, touched>>
    BY <1>3
  <2>2. OpTyped'
    BY <1>1, <2>1 DEF OpTyped
  <2>3. ReadIsFresh' /\ PrintedLast' /\ OnlyItSets' /\ PrintedTrue' /\ LinkAgrees'
    BY <1>1, <2>1, OpSetRest
  <2>4. AddressFirst' /\ Stuck' /\ OthersSettingsKept'
    BY <1>1, <2>1 DEF AddressFirst, SettingsStick, Stuck, OthersSettingsKept
  <2> QED
    BY <2>2, <2>3, <2>4 DEF SettingsStick
<1> QED
  BY <1>2, <1>3

\* A setting that takes keeps those that took before it.
LEMMA OpSetsInv ==
  ASSUME OpInv, program = "netif_op", step \in 3..10, step # 9,
         NEW f \in Settings \cup {"mac"}, NEW allowed, NEW result \in Faces,
         Sets(f, allowed, result),
         result.link = eth.link, result.flags = eth.flags,
         result.mac = eth.mac \/ (~raced => result.mac.head = eth.mac.head),
         "mac" \in (done \cup {f}) \ (touched \ {f}) => result.mac.tail = "87:88",
         f \in AddrSettings => step \in 3..6,
         step = 3 => f = "addr",
         \A g \in Settings : g \in done \ touched => result[g] = "mine",
         f \in Settings => result[f] = "mine"
  PROVE  OpInv'
<1> USE DEF OpInv, Sets, Next1
<1>1. CASE May /\ allowed
  <2>1. eth' = result /\ done' = done \cup {f} /\ touched' = touched \ {f}
    BY <1>1
  <2>2. OpTyped'
    BY <2>1 DEF OpTyped
  <2>3. ReadIsFresh' /\ PrintedLast' /\ OnlyItSets' /\ PrintedTrue' /\ LinkAgrees'
    BY <2>1, OpSetRest
  <2>4. AddressFirst'
    BY DEF AddressFirst
  <2>5. Stuck'
    <3>1. \A g \in (done' \cap Settings) \ touched' : eth'[g] = "mine"
      BY <2>1
    <3>2. "flags" \in done' \ touched' => {"UP", "ALLMULTI", "PROMISC"} \subseteq eth'.flags
      BY <2>1 DEF SettingsStick, Stuck, Settings, AddrSettings
    <3> QED
      BY <2>1, <3>1, <3>2 DEF Stuck
  <2>6. OthersSettingsKept'
    BY <2>1 DEF SettingsStick, OthersSettingsKept
  <2> QED
    BY <2>2, <2>3, <2>4, <2>5, <2>6 DEF SettingsStick
<1>2. CASE ~(May /\ allowed)
  <2>1. UNCHANGED <<eth, done, touched>>
    BY <1>2
  <2>2. OpTyped'
    BY <2>1 DEF OpTyped
  <2>3. ReadIsFresh' /\ PrintedLast' /\ OnlyItSets' /\ PrintedTrue' /\ LinkAgrees'
    BY <2>1, OpSetRest
  <2>4. AddressFirst' /\ Stuck' /\ OthersSettingsKept'
    BY <2>1 DEF AddressFirst, SettingsStick, Stuck, OthersSettingsKept
  <2> QED
    BY <2>2, <2>3, <2>4 DEF SettingsStick
<1> QED
  BY <1>1, <1>2

\* A new address resets what depends on it, none of which is set yet ...
LEMMA OpAddrInv == ASSUME OpInv, SIOCSIFADDR PROVE OpInv'
<1> DEFINE result == IF eth.addr = "mine" THEN eth ELSE Merge(Fresh, eth)
<1>1. program = "netif_op" /\ step = 3 /\ Sets("addr", TRUE, result)
  BY RequestAt DEF OpInv, SIOCSIFADDR
<1>2. eth \in Faces /\ done \cap AddrSettings = {}
  BY <1>1 DEF OpInv, OpTyped, AddressFirst
<1>3. result \in Faces /\ result.link = eth.link /\ result.flags = eth.flags
      /\ result.mac = eth.mac /\ result.addr = "mine" /\ result.mtu = eth.mtu
      /\ result.qlen = eth.qlen
  <2>1. CASE eth.addr = "mine"
    BY <1>2, <2>1
  <2>2. CASE eth.addr # "mine"
    BY <1>2, <2>2 DEF Merge, Fresh, Faces
  <2> QED
    BY <2>1, <2>2
<1>4. \A g \in Settings : g \in done \ touched => result[g] = "mine"
  BY <1>2, <1>3 DEF OpInv, SettingsStick, Stuck, Settings
<1>5. "mac" \in (done \cup {"addr"}) \ (touched \ {"addr"}) => result.mac.tail = "87:88"
  BY <1>3 DEF OpInv, SettingsStick, Stuck
<1> HIDE DEF result
<1>6. "addr" \in Settings /\ "addr" \in AddrSettings
  BY DEF Settings, AddrSettings
<1>7. result["addr"] = "mine"
  BY <1>3
<1>8. step \in 3..10 /\ step # 9 /\ step \in 3..6
  BY <1>1
<1>9. Sets("addr", TRUE, result) /\ result \in Faces /\ result.link = eth.link
      /\ result.flags = eth.flags /\ result.mac = eth.mac
  BY <1>1, <1>3
<1> QED
  BY <1>1, <1>4, <1>5, <1>6, <1>7, <1>8, <1>9, OpSetsInv

\* ... the others reset nothing ...
LEMMA OpFieldInv ==
  ASSUME OpInv, program = "netif_op", step \in 4..8,
         NEW f \in Settings \ {"addr"}, NEW allowed,
         f \in AddrSettings => step \in 4..6,
         NEW result \in Faces,
         \A g \in DOMAIN eth \ {f} : result[g] = eth[g],
         result[f] = "mine", Sets(f, allowed, result)
  PROVE  OpInv'
<1>1. eth \in Faces /\ f \in Settings
  BY DEF OpInv, OpTyped
<1>2. result.link = eth.link /\ result.flags = eth.flags /\ result.mac = eth.mac
  BY <1>1 DEF Faces, Settings, AddrSettings
<1>3. \A g \in Settings : g \in done \ touched => result[g] = "mine"
  BY <1>1 DEF OpInv, SettingsStick, Stuck, Settings, AddrSettings, Faces
<1>4. "mac" \in (done \cup {f}) \ (touched \ {f}) => result.mac.tail = "87:88"
  BY <1>2 DEF OpInv, SettingsStick, Stuck, Settings, AddrSettings
<1> QED
  BY <1>1, <1>2, <1>3, <1>4, OpSetsInv

LEMMA OpFieldsInv ==
  ASSUME OpInv,
         SIOCSIFDSTADDR \/ SIOCSIFBRDADDR \/ SIOCSIFNETMASK \/ SIOCSIFMTU \/ SIOCSIFTXQLEN
  PROVE  OpInv'
<1>0. eth \in Faces /\ OpTyped
  BY DEF OpInv, OpTyped
<1>s. {"dst", "brd", "mask", "mtu", "qlen"} \subseteq Settings \ {"addr"}
  BY DEF Settings, AddrSettings
<1>1. CASE SIOCSIFDSTADDR
  <2>1. At("SIOCSIFDSTADDR") /\ Sets("dst", eth.addr # "none", [eth EXCEPT !.dst = "mine"])
    BY <1>1 DEF SIOCSIFDSTADDR
  <2>2. program = "netif_op" /\ step \in 4..8 /\ step # 7 /\ step # 8
    BY <1>0, <2>1, Requests, RequestAt DEF At, OpTyped
  <2>3. [eth EXCEPT !.dst = "mine"] \in Faces
    BY <1>0 DEF Faces
  <2>4. \A g \in DOMAIN eth \ {"dst"} : [eth EXCEPT !.dst = "mine"][g] = eth[g]
    BY <1>0
  <2>5. [eth EXCEPT !.dst = "mine"]["dst"] = "mine"
    BY <1>0 DEF Faces
  <2>6. step \in 4..6
    BY <2>2
  <2> QED
    BY <1>s, <2>1, <2>2, <2>3, <2>4, <2>5, <2>6, OpFieldInv
<1>2. CASE SIOCSIFBRDADDR
  <2>1. At("SIOCSIFBRDADDR") /\ Sets("brd", eth.addr # "none", [eth EXCEPT !.brd = "mine"])
    BY <1>2 DEF SIOCSIFBRDADDR
  <2>2. program = "netif_op" /\ step \in 4..8 /\ step # 7 /\ step # 8
    BY <1>0, <2>1, Requests, RequestAt DEF At, OpTyped
  <2>3. [eth EXCEPT !.brd = "mine"] \in Faces
    BY <1>0 DEF Faces
  <2>4. \A g \in DOMAIN eth \ {"brd"} : [eth EXCEPT !.brd = "mine"][g] = eth[g]
    BY <1>0
  <2>5. [eth EXCEPT !.brd = "mine"]["brd"] = "mine"
    BY <1>0 DEF Faces
  <2>6. step \in 4..6
    BY <2>2
  <2> QED
    BY <1>s, <2>1, <2>2, <2>3, <2>4, <2>5, <2>6, OpFieldInv
<1>3. CASE SIOCSIFNETMASK
  <2>1. At("SIOCSIFNETMASK") /\ Sets("mask", eth.addr # "none", [eth EXCEPT !.mask = "mine"])
    BY <1>3 DEF SIOCSIFNETMASK
  <2>2. program = "netif_op" /\ step \in 4..8 /\ step # 7 /\ step # 8
    BY <1>0, <2>1, Requests, RequestAt DEF At, OpTyped
  <2>3. [eth EXCEPT !.mask = "mine"] \in Faces
    BY <1>0 DEF Faces
  <2>4. \A g \in DOMAIN eth \ {"mask"} : [eth EXCEPT !.mask = "mine"][g] = eth[g]
    BY <1>0
  <2>5. [eth EXCEPT !.mask = "mine"]["mask"] = "mine"
    BY <1>0 DEF Faces
  <2>6. step \in 4..6
    BY <2>2
  <2> QED
    BY <1>s, <2>1, <2>2, <2>3, <2>4, <2>5, <2>6, OpFieldInv
<1>4. CASE SIOCSIFMTU
  <2>1. At("SIOCSIFMTU") /\ Sets("mtu", TRUE, [eth EXCEPT !.mtu = "mine"])
    BY <1>4 DEF SIOCSIFMTU
  <2>2. program = "netif_op" /\ step \in 4..8
    BY <1>0, <2>1, RequestAt
  <2>3. [eth EXCEPT !.mtu = "mine"] \in Faces
    BY <1>0 DEF Faces
  <2>4. \A g \in DOMAIN eth \ {"mtu"} : [eth EXCEPT !.mtu = "mine"][g] = eth[g]
    BY <1>0
  <2>5. [eth EXCEPT !.mtu = "mine"]["mtu"] = "mine" /\ "mtu" \notin AddrSettings
    BY <1>0 DEF Faces, AddrSettings
  <2> QED
    BY <1>s, <2>1, <2>2, <2>3, <2>4, <2>5, OpFieldInv
<1>5. CASE SIOCSIFTXQLEN
  <2>1. At("SIOCSIFTXQLEN") /\ Sets("qlen", TRUE, [eth EXCEPT !.qlen = "mine"])
    BY <1>5 DEF SIOCSIFTXQLEN
  <2>2. program = "netif_op" /\ step \in 4..8
    BY <1>0, <2>1, RequestAt
  <2>3. [eth EXCEPT !.qlen = "mine"] \in Faces
    BY <1>0 DEF Faces
  <2>4. \A g \in DOMAIN eth \ {"qlen"} : [eth EXCEPT !.qlen = "mine"][g] = eth[g]
    BY <1>0
  <2>5. [eth EXCEPT !.qlen = "mine"]["qlen"] = "mine" /\ "qlen" \notin AddrSettings
    BY <1>0 DEF Faces, AddrSettings
  <2> QED
    BY <1>s, <2>1, <2>2, <2>3, <2>4, <2>5, OpFieldInv
<1> QED
  BY <1>1, <1>2, <1>3, <1>4, <1>5

\* ... and the MAC address is written as it was read but for its end.
LEMMA OpMacInv == ASSUME OpInv, SIOCSIFHWADDR PROVE OpInv'
<1> DEFINE result == [eth EXCEPT !.mac = [head |-> req.mac.head, tail |-> "87:88"]]
<1>1. program = "netif_op" /\ step = 10
      /\ Sets("mac", live \/ "UP" \notin eth.flags, result)
  BY RequestAt DEF OpInv, SIOCSIFHWADDR
<1>2. eth \in Faces /\ req.mac.head \in {"factory", "other"}
  BY DEF OpInv, OpTyped, Macs
<1>3. result \in Faces
  BY <1>2 DEF Faces, Macs
<1>4. result.link = eth.link /\ result.flags = eth.flags /\ result.mac.tail = "87:88"
      /\ result.mac.head = req.mac.head /\ \A g \in Settings : result[g] = eth[g]
  BY <1>2 DEF Faces, Settings, AddrSettings
<1>5. ~raced => result.mac.head = eth.mac.head
  BY <1>1, <1>4 DEF OpInv, ReadIsFresh
<1>6. \A g \in Settings : g \in done \ touched => result[g] = "mine"
  BY <1>4 DEF OpInv, SettingsStick, Stuck
<1>7. "mac" \notin Settings
  BY DEF Settings, AddrSettings
<1> HIDE DEF result
<1> QED
  BY <1>1, <1>3, <1>4, <1>5, <1>6, <1>7, OpSetsInv DEF AddrSettings

\* What is printed of a setting that took is what it was set to ...
LEMMA OpPrintsInv ==
  ASSUME OpInv, NEW f \in Shows, f # "link", NEW lines, Prints(f, lines),
         f \in (done \cap Settings) \ touched => lines \in {<<>>, <<"mine">>},
         f = "conf" /\ "addr" \in done \ touched => lines \in {<<>>, <<"mine">>}
  PROVE  OpInv'
<1> USE DEF OpInv, Prints, Next1, hostVars
<1>1. program = "netif_op" /\ step \in 11..20 /\ step' \in 12..21
  BY Requests DEF Getting, OpTyped
<1>2. shown' = [shown EXCEPT ![f] = lines] /\ DOMAIN shown = Shows
  BY DEF OpTyped
<1>3. DOMAIN shown' = Shows /\ shown'[f] = lines
      /\ \A g \in Shows : g # f => shown'[g] = shown[g]
  BY <1>2
<1>4. OpTyped'
  BY <1>1, <1>3 DEF OpTyped
<1>5. AddressFirst' /\ OnlyItSets' /\ ReadIsFresh'
  BY <1>1, <1>4 DEF AddressFirst, OnlyItSets, ReadIsFresh
<1>6. shown.link = <<>> /\ shown'.link = <<>>
  BY <1>1, <1>3 DEF PrintedLast, Shows
<1>7. PrintedLast'
  BY <1>1, <1>6 DEF PrintedLast
<1>8. LinkAgrees' /\ Stuck' /\ OthersSettingsKept'
  BY <1>6 DEF LinkAgrees, SettingsStick, Stuck, OthersSettingsKept
<1>9. PrintedTrue'
  <2> SUFFICES ASSUME NEW g \in (done \cap Settings) \ touched
               PROVE  /\ shown'[g] \in {<<>>, <<"mine">>}
                      /\ g = "addr" => shown'.conf \in {<<>>, <<"mine">>}
    BY DEF PrintedTrue
  <2>1. /\ shown[g] \in {<<>>, <<"mine">>}
        /\ g = "addr" => shown.conf \in {<<>>, <<"mine">>}
    BY DEF SettingsStick, PrintedTrue
  <2>2. g \in Shows /\ "conf" \in Shows
    BY DEF Shows, Settings, AddrSettings
  <2> QED
    BY <1>3, <2>1, <2>2
<1> QED
  BY <1>4, <1>5, <1>7, <1>8, <1>9 DEF SettingsStick

LEMMA OpGetInv ==
  ASSUME OpInv, SIOCGIFNAME \/ GetFlags \/ GetAddress \/ GetLink \/ SIOCGIFCONF
  PROVE  OpInv'
<1>1. ASSUME NEW f \in {"flags", "addr", "dst", "brd", "mask", "mtu", "mac", "qlen"},
             PrintsOf(f)
      PROVE  OpInv'
  <2> DEFINE lines == IF present THEN <<eth[f]>> ELSE <<>>
  <2>1. f \in Shows /\ f # "link" /\ f # "conf" /\ Prints(f, lines)
    BY <1>1 DEF PrintsOf, Shows
  <2>2. f \in (done \cap Settings) \ touched => eth[f] = "mine"
    BY DEF OpInv, SettingsStick, Stuck
  <2>3. f \in (done \cap Settings) \ touched => lines \in {<<>>, <<"mine">>}
    BY <2>2
  <2> QED
    BY <2>1, <2>3, OpPrintsInv
<1>2. CASE SIOCGIFNAME
  <2>1. PICK lines : Prints("name", lines)
    BY <1>2 DEF SIOCGIFNAME
  <2>2. "name" \in Shows /\ "name" \notin Settings
    BY DEF Shows, Settings, AddrSettings
  <2> QED
    BY <2>1, <2>2, OpPrintsInv
<1>3. CASE SIOCGIFCONF
  <2> DEFINE lines == IF present /\ eth.addr # "none" THEN <<eth.addr>> ELSE <<>>
  <2>1. Prints("conf", lines)
    BY <1>3 DEF SIOCGIFCONF
  <2>2. "conf" \in Shows /\ "conf" \notin Settings /\ "addr" \in Settings
    BY DEF Shows, Settings, AddrSettings
  <2>3. "addr" \in done \ touched => lines \in {<<>>, <<"mine">>}
    BY <2>2 DEF OpInv, SettingsStick, Stuck
  <2> QED
    BY <2>1, <2>2, <2>3, OpPrintsInv
<1> QED
  BY <1>1, <1>2, <1>3 DEF GetFlags, GetAddress, GetLink, AddrSettings

\* ... and speed and link of the same moment agree.
LEMMA OpEthtoolInv == ASSUME OpInv, ETHTOOL_GSET \/ ETHTOOL_GLINK PROVE OpInv'
<1> USE DEF OpInv, hostVars
<1>1. program = "ethtool_op" /\ step \in {1, 2} /\ step' \in {2, 3} /\ program' = program
      /\ done' = done /\ done = {} /\ UNCHANGED <<eth, req, touched, wish, raced, adminMoves>>
  BY DEF ETHTOOL_GSET, ETHTOOL_GLINK, OnlyItSets
<1>2. shown.link = <<>> /\ DOMAIN shown = Shows /\ eth.link \in {"up", "down"}
  BY <1>1 DEF PrintedLast, OpTyped, Faces
<1>3. AddressFirst' /\ OnlyItSets' /\ ReadIsFresh' /\ Stuck' /\ OthersSettingsKept'
      /\ PrintedTrue'
  <2>1. AddressFirst' /\ OnlyItSets'
    BY <1>1 DEF AddressFirst, OnlyItSets
  <2>2. ReadIsFresh' /\ OthersSettingsKept'
    BY <1>1 DEF ReadIsFresh, OthersSettingsKept, SettingsStick
  <2>3. Stuck' /\ PrintedTrue'
    BY <1>1 DEF Stuck, PrintedTrue
  <2> QED
    BY <2>1, <2>2, <2>3
<1>4. CASE ETHTOOL_GSET
  <2>1. CASE present
    <3>1. shown'.link = shown.link /\ DOMAIN shown' = Shows /\ step' = 2
          /\ shown'.speed = <<IF eth.link = "up" THEN "1000" ELSE "unknown">>
      BY <1>2, <1>4, <2>1 DEF ETHTOOL_GSET, Shows
    <3>2. shown'.speed = <<"1000">> <=> eth.link = "up"
      BY <3>1
    <3>3. OpTyped'
      BY <1>1, <3>1 DEF OpTyped
    <3>4. PrintedLast' /\ LinkAgrees'
      BY <1>1, <1>2, <3>1, <3>2 DEF PrintedLast, LinkAgrees
    <3> QED
      BY <1>3, <3>3, <3>4 DEF SettingsStick
  <2>2. CASE ~present
    <3>1. shown' = shown /\ step' = 3
      BY <1>4, <2>2 DEF ETHTOOL_GSET
    <3>2. OpTyped' /\ PrintedLast' /\ LinkAgrees'
      BY <1>1, <1>2, <3>1 DEF OpTyped, PrintedLast, LinkAgrees
    <3> QED
      BY <1>3, <3>2 DEF SettingsStick
  <2> QED
    BY <2>1, <2>2
<1>5. CASE ETHTOOL_GLINK
  <2>1. step = 2 /\ step' = 3
        /\ shown' = IF present THEN [shown EXCEPT !.link = <<eth.link>>] ELSE shown
    BY <1>5 DEF ETHTOOL_GLINK
  <2>2. DOMAIN shown' = Shows /\ shown'.speed = shown.speed
        /\ shown'.link \in {<<>>, <<eth.link>>}
    BY <1>2, <2>1 DEF Shows
  <2>3. ~raced => (shown.speed = <<"1000">> <=> eth.link = "up")
    BY <1>1, <2>1 DEF PrintedLast
  <2>4. LinkAgrees'
    BY <1>1, <1>2, <2>2, <2>3 DEF LinkAgrees
  <2>5. OpTyped' /\ PrintedLast'
    BY <1>1, <2>1, <2>2 DEF OpTyped, PrintedLast
  <2> QED
    BY <1>3, <2>4, <2>5 DEF SettingsStick
<1> QED
  BY <1>4, <1>5

\* Everybody else: what was changed is no longer the program's, and a change
\* between reading and writing is a race.
LEMMA OpOtherInv ==
  ASSUME OpInv, NEW new \in Faces, NEW fields,
         fields \subseteq Settings \cup {"flags", "mac", "link"}, Other(new, fields),
         \A g \in Settings \ fields : new[g] = eth[g],
         {"UP", "ALLMULTI", "PROMISC"} \cap new.flags
           = {"UP", "ALLMULTI", "PROMISC"} \cap eth.flags \/ "flags" \in fields,
         new.mac = eth.mac \/ "mac" \in fields,
         wish' \in [noarp : BOOLEAN, head : {"factory", "other"}],
         raced => raced',
         ~raced' => (("NOARP" \in new.flags) <=> wish'.noarp) /\ new.mac.head = wish'.head,
         ~raced' /\ program = "netif_op" /\ step = 2 =>
           (("NOARP" \in new.flags) <=> ("NOARP" \in eth.flags)),
         ~raced' /\ program = "netif_op" /\ step = 10 => new.mac.head = eth.mac.head,
         ~raced' /\ program = "ethtool_op" /\ step = 2 => new.link = eth.link
  PROVE  OpInv'
<1> USE DEF OpInv, Other, hostVars
<1>1. eth' = new /\ touched' = touched \cup fields
      /\ UNCHANGED <<program, step, req, done, shown>>
  OBVIOUS
<1>2. OpTyped'
  BY NetifOpAssumption DEF OpTyped
<1>3. AddressFirst' /\ OnlyItSets'
  BY DEF AddressFirst, OnlyItSets
<1>4. ReadIsFresh'
  BY <1>1 DEF ReadIsFresh
<1>5. PrintedLast'
  BY <1>1 DEF PrintedLast
<1>6. Stuck'
  <2>1. \A g \in (done' \cap Settings) \ touched' : eth'[g] = "mine"
    BY <1>1 DEF SettingsStick, Stuck
  <2>2. "flags" \in done' \ touched' => {"UP", "ALLMULTI", "PROMISC"} \subseteq eth'.flags
    BY <1>1 DEF SettingsStick, Stuck
  <2>3. "mac" \in done' \ touched' => eth'.mac.tail = "87:88"
    BY <1>1 DEF SettingsStick, Stuck
  <2> QED
    BY <2>1, <2>2, <2>3 DEF Stuck
<1>7. PrintedTrue' /\ LinkAgrees'
  BY <1>1 DEF SettingsStick, PrintedTrue, LinkAgrees
<1>8. OthersSettingsKept'
  BY <1>1 DEF OthersSettingsKept
<1> QED
  BY <1>2, <1>3, <1>4, <1>5, <1>6, <1>7, <1>8 DEF SettingsStick

LEMMA OpAdminInv ==
  ASSUME OpInv, AdminNoarp \/ AdminDown \/ AdminAddr \/ AdminMac \/ PullCable
  PROVE  OpInv'
<1> DEFINE All == {"UP", "ALLMULTI", "PROMISC"}
<1>1. eth \in Faces /\ step \in 1..21
      /\ wish \in [noarp : BOOLEAN, head : {"factory", "other"}]
  BY DEF OpInv, OpTyped
<1>2. ~raced => (("NOARP" \in eth.flags) <=> wish.noarp) /\ eth.mac.head = wish.head
  BY DEF OpInv, SettingsStick, OthersSettingsKept
<1>3. {"flags", "mac", "link"} \cap Settings = {} /\ AddrSettings \subseteq Settings
  BY DEF Settings, AddrSettings
<1>4. CASE AdminNoarp
  <2> DEFINE new == [eth EXCEPT !.flags = IF "NOARP" \in @ THEN @ \ {"NOARP"}
                                                           ELSE @ \cup {"NOARP"}]
  <2>1. Other(new, {"flags"}) /\ wish' = [wish EXCEPT !.noarp = "NOARP" \in new.flags]
        /\ raced' = (raced \/ Between("SIOCSIFFLAGS"))
    BY <1>4 DEF AdminNoarp, Other
  <2>2. new \in Faces /\ \A g \in Settings : new[g] = eth[g]
    BY <1>1 DEF Faces, FlagNames, Settings, AddrSettings
  <2>3. new.mac = eth.mac /\ new.link = eth.link
    BY <1>1 DEF Faces
  <2>4. wish' \in [noarp : BOOLEAN, head : {"factory", "other"}]
        /\ wish'.head = wish.head /\ (wish'.noarp <=> "NOARP" \in new.flags)
    <3> DEFINE b == "NOARP" \in new.flags
    <3>1. b \in BOOLEAN
      OBVIOUS
    <3>2. wish' = [wish EXCEPT !.noarp = b]
      BY <2>1
    <3> HIDE DEF b
    <3>3. wish' \in [noarp : BOOLEAN, head : {"factory", "other"}]
          /\ wish'.head = wish.head /\ wish'.noarp = b
      BY <1>1, <3>1, <3>2
    <3> QED
      BY <3>3, Zenon DEF b
  <2>5. program = "netif_op" /\ step = 2 => Between("SIOCSIFFLAGS")
    BY Requests DEF Between, Setting
  <2> HIDE DEF new
  <2> QED
    BY <1>2, <2>1, <2>2, <2>3, <2>4, <2>5, OpOtherInv
<1>5. CASE AdminDown
  <2> DEFINE new == [eth EXCEPT !.flags = @ \ {"UP"}]
  <2>1. Other(new, {"flags"}) /\ UNCHANGED <<wish, raced>>
    BY <1>5 DEF AdminDown
  <2>2. new \in Faces /\ \A g \in Settings : new[g] = eth[g]
    BY <1>1 DEF Faces, FlagNames, Settings, AddrSettings
  <2>3. new.mac = eth.mac /\ new.link = eth.link /\ new.flags = eth.flags \ {"UP"}
    BY <1>1 DEF Faces
  <2>4. "NOARP" \in new.flags <=> "NOARP" \in eth.flags
    BY <2>3
  <2> HIDE DEF new
  <2> QED
    BY <1>1, <1>2, <2>1, <2>2, <2>3, <2>4, OpOtherInv
<1>6. CASE AdminAddr
  <2> DEFINE new == Merge([Fresh EXCEPT !.addr = "other"], eth)
  <2>1. Other(new, AddrSettings) /\ UNCHANGED <<wish, raced>>
    BY <1>6 DEF AdminAddr
  <2>2. new \in Faces /\ \A g \in Settings \ AddrSettings : new[g] = eth[g]
    BY <1>1 DEF Faces, Merge, Fresh, Settings, AddrSettings
  <2>3. new.mac = eth.mac /\ new.link = eth.link /\ new.flags = eth.flags
    BY <1>1 DEF Faces, Merge, Fresh
  <2> HIDE DEF new
  <2> QED
    BY <1>1, <1>2, <1>3, <2>1, <2>2, <2>3, OpOtherInv
<1>7. CASE AdminMac
  <2> DEFINE new == [eth EXCEPT !.mac = [head |-> "other", tail |-> "other"]]
  <2>1. Other(new, {"mac"}) /\ wish' = [wish EXCEPT !.head = "other"]
        /\ raced' = (raced \/ Between("SIOCSIFHWADDR"))
    BY <1>7 DEF AdminMac
  <2>2. new \in Faces /\ \A g \in Settings : new[g] = eth[g]
    BY <1>1 DEF Faces, Macs, Settings, AddrSettings
  <2>3. new.mac.head = "other" /\ new.link = eth.link /\ new.flags = eth.flags
    BY <1>1 DEF Faces
  <2>4. wish' \in [noarp : BOOLEAN, head : {"factory", "other"}]
        /\ wish'.head = "other" /\ (wish'.noarp <=> wish.noarp)
    BY <1>1, <2>1
  <2>5. program = "netif_op" /\ step = 10 => Between("SIOCSIFHWADDR")
    BY Requests DEF Between, Setting
  <2> HIDE DEF new
  <2> QED
    BY <1>2, <2>1, <2>2, <2>3, <2>4, <2>5, OpOtherInv
<1>8. CASE PullCable
  <2> DEFINE new == [eth EXCEPT !.link = IF @ = "up" THEN "down" ELSE "up"]
  <2>1. Other(new, {"link"}) /\ wish' = wish
        /\ raced' = (raced \/ (program = "ethtool_op" /\ step = 2))
    BY <1>8 DEF PullCable
  <2>2. new \in Faces /\ \A g \in Settings : new[g] = eth[g]
    BY <1>1 DEF Faces, Settings, AddrSettings
  <2>3. new.mac = eth.mac /\ new.flags = eth.flags
    BY <1>1 DEF Faces
  <2> HIDE DEF new
  <2> QED
    BY <1>1, <1>2, <2>1, <2>2, <2>3, OpOtherInv
<1> QED
  BY <1>4, <1>5, <1>6, <1>7, <1>8

LEMMA OpGoneInv == ASSUME OpInv, EthGone PROVE OpInv'
<1> USE DEF OpInv, EthGone
<1>1. OpTyped'
  BY NetifOpAssumption DEF OpTyped
<1>2. AddressFirst' /\ OnlyItSets' /\ ReadIsFresh' /\ PrintedLast'
  BY DEF AddressFirst, OnlyItSets, ReadIsFresh, PrintedLast
<1>3. SettingsStick'
  BY DEF SettingsStick, Stuck, PrintedTrue, OthersSettingsKept, LinkAgrees
<1> QED
  BY <1>1, <1>2, <1>3

LEMMA OpStartInv == ASSUME OpInv, Start PROVE OpInv'
<1> USE DEF OpInv
<1>1. program = "none" /\ program' \in {"netif_op", "ethtool_op"}
      /\ UNCHANGED <<step, req, done, shown, touched, wish, raced, adminMoves>>
  BY DEF Start
<1>2. PICK addr \in {"none", "mine", "other"}, duplex \in {"half", "full"} :
        eth' = [eth EXCEPT !.addr = addr, !.duplex = duplex]
  BY DEF Start
<1>3. eth' \in Faces /\ eth'.flags = eth.flags /\ eth'.mac = eth.mac
  BY <1>2 DEF OpTyped, Faces
<1>4. OpTyped'
  BY <1>1, <1>3 DEF OpTyped
<1>5. done = {} /\ step = 1
  BY <1>1 DEF OnlyItSets
<1>6. \A g \in Shows : shown[g] = <<>>
  BY <1>1, <1>5 DEF PrintedLast
<1>7. shown.link = <<>>
  BY <1>6 DEF Shows
<1>8. AddressFirst' /\ OnlyItSets' /\ ReadIsFresh' /\ PrintedLast'
  BY <1>1, <1>5, <1>6, <1>7 DEF AddressFirst, OnlyItSets, ReadIsFresh, PrintedLast
<1>9. SettingsStick'
  BY <1>1, <1>3, <1>5, <1>7
  DEF SettingsStick, Stuck, PrintedTrue, OthersSettingsKept, LinkAgrees
<1> QED
  BY <1>4, <1>8, <1>9

LEMMA OpNextInv == OpInv /\ OpNext => OpInv'
<1> SUFFICES ASSUME OpInv, OpNext PROVE OpInv'
  OBVIOUS
<1>1. CASE Start
  BY <1>1, OpStartInv
<1>2. CASE SIOCGIFFLAGS \/ SIOCGIFHWADDR
  BY <1>2, OpReadInv
<1>3. CASE SIOCSIFFLAGS
  BY <1>3, OpFlagsInv
<1>4. CASE SIOCSIFADDR
  BY <1>4, OpAddrInv
<1>5. CASE SIOCSIFDSTADDR \/ SIOCSIFBRDADDR \/ SIOCSIFNETMASK \/ SIOCSIFMTU
           \/ SIOCSIFTXQLEN
  BY <1>5, OpFieldsInv
<1>6. CASE SIOCSIFHWADDR
  BY <1>6, OpMacInv
<1>7. CASE SIOCGIFNAME \/ GetFlags \/ GetAddress \/ GetLink \/ SIOCGIFCONF
  BY <1>7, OpGetInv
<1>8. CASE ETHTOOL_GSET \/ ETHTOOL_GLINK
  BY <1>8, OpEthtoolInv
<1>9. CASE AdminNoarp \/ AdminDown \/ AdminAddr \/ AdminMac \/ PullCable
  BY <1>9, OpAdminInv
<1>10. CASE EthGone
  BY <1>10, OpGoneInv
<1> QED
  BY <1>1, <1>2, <1>3, <1>4, <1>5, <1>6, <1>7, <1>8, <1>9, <1>10 DEF OpNext

LEMMA OpRests == OpInv /\ UNCHANGED opVars => OpInv'
<1> SUFFICES ASSUME OpInv, UNCHANGED opVars PROVE OpInv'
  OBVIOUS
<1> USE DEF OpInv, opVars, hostVars
<1>1. OpTyped'
  BY DEF OpTyped
<1>2. AddressFirst' /\ OnlyItSets' /\ ReadIsFresh' /\ PrintedLast'
  BY DEF AddressFirst, OnlyItSets, ReadIsFresh, PrintedLast
<1>3. SettingsStick'
  BY DEF SettingsStick, Stuck, PrintedTrue, OthersSettingsKept, LinkAgrees
<1> QED
  BY <1>1, <1>2, <1>3

LEMMA OpTypes == OpInv => OpTypeOK
<1> SUFFICES ASSUME OpInv PROVE OpTypeOK
  OBVIOUS
<1>1. eth.flags \subseteq {"UP", "ALLMULTI", "PROMISC", "NOARP"}
      /\ eth.addr \in {"none", "mine", "other"}
      /\ \A f \in {"dst", "brd", "mask"} : eth[f] \in {"reset", "mine"}
  BY DEF OpInv, OpTyped, Faces, FlagNames
<1>2. Len(about_set) + Len(about_get) + 1 = 21
  BY Requests
<1> QED
  BY <1>1, <1>2 DEF OpInv, OpTyped, OpTypeOK

-----------------------------------------------------------------------------
(* The drivers on the I2C bus.                                             *)

Junzi == {"i2c", "ov9650"}

\* A driver has its chip only while it is loaded and the chip on the bus ...
BoundLoaded == /\ i2cBound \subseteq drvLoaded \cap client
               /\ drvLoaded \subseteq everLoaded
               /\ (drvLoaded \cap client) \ {"ov9650"} \subseteq i2cBound

\* ... a class is one of its creators', who was loaded ...
ClassOfLoaded == /\ class["junzi_class"] \in (Junzi \cap everLoaded) \cup {"none"}
                 /\ class["bh1750s"] \in {"bh1750", "none"}

\* ... a driver that has its chip has made its device, unless it came second
\* to the class ...
JunziHas ==
  \A k \in Junzi \cap i2cBound :
    /\ chrdev[k] = "live" /\ myClass[k] \in {"class", "error"}
    /\ myClass[k] = "class" => class["junzi_class"] = k /\ k \in node
    /\ myClass[k] = "error" => Junzi \subseteq everLoaded

\* ... and has nothing without it ...
JunziHasNot ==
  \A k \in Junzi \ i2cBound :
    chrdev[k] = "none" /\ k \notin node /\ class["junzi_class"] # k

\* ... while the light sensor's driver leaves everything behind.
Bh1750Leaves ==
  /\ chrdev["bh1750"] = "none" => class["bh1750s"] = "none" /\ "bh1750" \notin i2cBound
  /\ chrdev["bh1750"] # "none" =>
       class["bh1750s"] = "bh1750" /\ "bh1750" \in node \cap everLoaded
  /\ chrdev["bh1750"] = "gone" => "bh1750" \notin i2cBound \/ myClass["bh1750"] = "error"

BusState == BoundLoaded /\ ClassOfLoaded /\ JunziHas /\ JunziHasNot /\ Bh1750Leaves

\* The first fault is the last step, and what it leaves is explained.
FaultState == BoundInEitherOrder /\ I2cFaultsExplained

I2cInv == I2cTypeOK /\ WritesReported /\ (IF Up THEN BusState ELSE FaultState)

\* What the properties say follows from the state of the bus ...
LEMMA BusGood ==
  ASSUME I2cTypeOK, BusState, i2cFault = "none", WritesReported PROVE DriversShareBus
<1> USE DEF I2cTypeOK, BusState
<1>1. BoundInEitherOrder
  <2> SUFFICES ASSUME NEW k \in (drvLoaded \cap client) \ {"ov9650"}
               PROVE  /\ k \in i2cBound
                      /\ Rivals(k) \cap everLoaded = {} /\ chrdev[k] = "live" => k \in node
    BY DEF BoundInEitherOrder
  <2>1. k \in i2cBound /\ k \in {"i2c", "bh1750"}
    BY DEF BoundLoaded, Kinds
  <2>2. CASE k = "i2c"
    <3>1. "ov9650" \in Rivals(k)
      BY <2>2 DEF Rivals, Kinds, ClassName
    <3>2. myClass[k] = "error" => "ov9650" \in everLoaded
      BY <2>1, <2>2 DEF JunziHas, Junzi
    <3> QED
      BY <2>1, <2>2, <3>1, <3>2 DEF JunziHas, Junzi
  <2>3. CASE k = "bh1750"
    BY <2>1, <2>3 DEF Bh1750Leaves
  <2> QED
    BY <2>1, <2>2, <2>3
<1>2. NoDriverNothingLeft
  <2> SUFFICES ASSUME Junzi \cap drvLoaded = {}
               PROVE  /\ class["junzi_class"] = "none"
                      /\ Junzi \cap node = {}
                      /\ \A k \in Junzi : chrdev[k] = "none"
    BY DEF NoDriverNothingLeft, Junzi
  <2>1. Junzi \cap i2cBound = {}
    BY DEF BoundLoaded
  <2> QED
    BY <2>1 DEF JunziHasNot, ClassOfLoaded
<1>3. I2cFaultsExplained
  BY DEF I2cFaultsExplained
<1> QED
  BY <1>1, <1>2, <1>3 DEF DriversShareBus

\* ... which a probe keeps, ...
LEMMA ProbeKeeps ==
  ASSUME I2cTypeOK, BusState, i2cFault = "none", NEW k \in Kinds, k \notin i2cBound,
         Probe(k), drvLoaded' \subseteq Kinds, client' \subseteq Kinds,
         everLoaded' \subseteq Kinds,
         k \in drvLoaded' \cap client', drvLoaded' \subseteq everLoaded',
         drvLoaded \subseteq drvLoaded', client \subseteq client',
         drvLoaded' \cap client' \subseteq (drvLoaded \cap client) \cup {k},
         everLoaded \subseteq everLoaded'
  PROVE  BusState'
<1> USE DEF I2cTypeOK, BusState
<1>1. k \in everLoaded' /\ k \in {"i2c", "ov9650", "bh1750"}
  BY DEF Kinds
<1>2. i2cBound' = i2cBound \cup {k}
      /\ chrdev' = [chrdev EXCEPT ![k] = IF @ = "none" THEN "live" ELSE @]
  BY DEF Probe
<1>3. BoundLoaded'
  BY <1>2 DEF BoundLoaded
<1>4. CASE k = "bh1750"
  <2>1. ClassName[k] = "bh1750s"
    BY <1>4 DEF ClassName, Kinds
  <2>2. class'["junzi_class"] = class["junzi_class"] /\ \A j \in Junzi :
           chrdev'[j] = chrdev[j] /\ myClass'[j] = myClass[j]
           /\ (j \in node' <=> j \in node) /\ (j \in i2cBound' <=> j \in i2cBound)
    BY <1>2, <1>4, <2>1 DEF Probe, Junzi, Kinds
  <2>3. ClassOfLoaded' /\ JunziHas' /\ JunziHasNot'
    <3>1. ClassOfLoaded'
      BY <1>4, <2>1, <2>2 DEF Probe, ClassOfLoaded
    <3>2. JunziHas'
      <4> SUFFICES ASSUME NEW j \in (Junzi \cap i2cBound)'
                   PROVE  /\ chrdev[j] = "live" /\ myClass[j] \in {"class", "error"}
                          /\ myClass[j] = "class" => class["junzi_class"] = j /\ j \in node
                          /\ myClass[j] = "error" => Junzi \subseteq everLoaded
        BY <2>2 DEF JunziHas
      <4> QED
        BY <2>2 DEF JunziHas
    <3>3. JunziHasNot'
      BY <2>2 DEF JunziHasNot
    <3> QED
      BY <3>1, <3>2, <3>3
  <2>4. CASE chrdev[k] = "none"
    <3>1. class[ClassName[k]] = "none"
      BY <1>4, <2>1, <2>4 DEF Bh1750Leaves
    <3>2. class' = [class EXCEPT !["bh1750s"] = "bh1750"] /\ node' = node \cup {"bh1750"}
      BY <1>4, <2>1, <3>1 DEF Probe
    <3>3. chrdev'[k] = "live" /\ class'["bh1750s"] = "bh1750" /\ "bh1750" \in node'
      BY <1>2, <2>4, <3>2
    <3> QED
      BY <1>1, <1>3, <1>4, <2>3, <3>3 DEF Bh1750Leaves
  <2>5. CASE chrdev[k] # "none"
    <3>1. class[ClassName[k]] = "bh1750" /\ "bh1750" \in node
      BY <1>4, <2>1, <2>5 DEF Bh1750Leaves
    <3>2. class' = class /\ node' = node /\ myClass' = [myClass EXCEPT ![k] = "error"]
      BY <2>1, <3>1 DEF Probe
    <3>3. chrdev'[k] = chrdev[k] /\ myClass'[k] = "error"
      BY <1>2, <2>5, <3>2
    <3> QED
      BY <1>1, <1>3, <1>4, <2>1, <2>3, <2>5, <3>1, <3>2, <3>3 DEF Bh1750Leaves
  <2> QED
    BY <2>4, <2>5
<1>5. CASE k \in Junzi
  <2>1. ClassName[k] = "junzi_class" /\ k # "bh1750" /\ "bh1750" \in Kinds
    BY <1>5 DEF ClassName, Kinds, Junzi
  <2>2. chrdev[k] = "none" /\ class["junzi_class"] # k
    BY <1>5 DEF JunziHasNot
  <2>3. chrdev'[k] = "live" /\ \A j \in Kinds \ {k} :
           chrdev'[j] = chrdev[j] /\ myClass'[j] = myClass[j]
           /\ (j \in node' <=> j \in node) /\ (j \in i2cBound' <=> j \in i2cBound)
    BY <1>2, <2>2 DEF Probe
  <2>4. class'["bh1750s"] = class["bh1750s"]
    BY <2>1 DEF Probe
  <2>5. Bh1750Leaves'
    BY <2>1, <2>3, <2>4 DEF Bh1750Leaves
  <2>6. CASE class["junzi_class"] = "none"
    <3>1. class'["junzi_class"] = k /\ myClass'[k] = "class" /\ k \in node'
      BY <2>1, <2>6 DEF Probe
    <3>2. ClassOfLoaded'
      BY <1>1, <1>5, <2>4, <3>1 DEF ClassOfLoaded
    <3>3. \A j \in Junzi \ {k} : j \in i2cBound => myClass[j] = "error"
      BY <2>6 DEF JunziHas, Junzi
    <3>4. JunziHas'
      <4> SUFFICES ASSUME NEW j \in Junzi, j \in i2cBound'
                   PROVE  (/\ chrdev[j] = "live" /\ myClass[j] \in {"class", "error"}
                           /\ myClass[j] = "class" => class["junzi_class"] = j /\ j \in node
                           /\ myClass[j] = "error" => Junzi \subseteq everLoaded)'
        BY DEF JunziHas
      <4>1. CASE j = k
        BY <2>3, <3>1, <4>1
      <4>2. CASE j # k
        <5>1. j \in Kinds /\ j \in i2cBound /\ myClass'[j] = "error" /\ chrdev'[j] = "live"
          BY <2>3, <3>3, <4>2 DEF Junzi, Kinds, JunziHas
        <5>2. Junzi \subseteq everLoaded
          BY <3>3, <4>2, <5>1 DEF JunziHas
        <5> QED
          BY <5>1, <5>2
      <4> QED
        BY <4>1, <4>2
    <3>5. JunziHasNot'
      <4> SUFFICES ASSUME NEW j \in Junzi, j \notin i2cBound'
                   PROVE  (chrdev[j] = "none" /\ j \notin node /\ class["junzi_class"] # j)'
        BY DEF JunziHasNot
      <4>1. j # k /\ j \in Kinds /\ j \notin i2cBound
        BY <1>2 DEF Junzi, Kinds
      <4> QED
        BY <2>3, <3>1, <4>1 DEF JunziHasNot
    <3> QED
      BY <1>3, <2>5, <3>2, <3>4, <3>5
  <2>7. CASE class["junzi_class"] # "none"
    <3>1. class' = class /\ myClass'[k] = "error" /\ node' = node
      BY <2>1, <2>7 DEF Probe
    <3>2. Junzi \subseteq everLoaded'
      BY <1>1, <1>5, <2>2, <2>7 DEF ClassOfLoaded, Junzi
    <3>3. ClassOfLoaded'
      BY <3>1 DEF ClassOfLoaded
    <3>4. JunziHas'
      <4> SUFFICES ASSUME NEW j \in Junzi, j \in i2cBound'
                   PROVE  (/\ chrdev[j] = "live" /\ myClass[j] \in {"class", "error"}
                           /\ myClass[j] = "class" => class["junzi_class"] = j /\ j \in node
                           /\ myClass[j] = "error" => Junzi \subseteq everLoaded)'
        BY DEF JunziHas
      <4>1. CASE j = k
        BY <2>3, <3>1, <3>2, <4>1
      <4>2. CASE j # k
        <5>1. j \in Kinds /\ j \in i2cBound
          BY <2>3, <4>2 DEF Junzi, Kinds
        <5> QED
          BY <2>3, <3>1, <3>2, <4>2, <5>1 DEF JunziHas
      <4> QED
        BY <4>1, <4>2
    <3>5. JunziHasNot'
      <4> SUFFICES ASSUME NEW j \in Junzi, j \notin i2cBound'
                   PROVE  (chrdev[j] = "none" /\ j \notin node /\ class["junzi_class"] # j)'
        BY DEF JunziHasNot
      <4>1. j # k /\ j \in Kinds /\ j \notin i2cBound
        BY <1>2 DEF Junzi, Kinds
      <4> QED
        BY <2>3, <3>1, <4>1 DEF JunziHasNot
    <3> QED
      BY <1>3, <2>5, <3>3, <3>4, <3>5
  <2> QED
    BY <2>6, <2>7
<1> QED
  BY <1>1, <1>4, <1>5 DEF Junzi

LEMMA ProbeTypes ==
  ASSUME I2cTypeOK, NEW k \in Kinds, Probe(k)
  PROVE  /\ i2cBound' \subseteq Kinds /\ node' \subseteq Kinds
         /\ chrdev' \in [Kinds -> {"none", "live", "gone"}]
         /\ class' \in [{"junzi_class", "bh1750s"} -> Kinds \cup {"none"}]
         /\ myClass' \in [Kinds -> {"none", "class", "error"}]
  BY DEF I2cTypeOK, Probe

LEMMA I2cInitInv == I2cInit => I2cInv
<1> SUFFICES ASSUME I2cInit PROVE I2cInv
  OBVIOUS
<1>1. I2cTypeOK
  BY I2cAssumption DEF I2cInit, I2cTypeOK, Kinds
<1>2. BusState
  BY DEF I2cInit, BusState, BoundLoaded, ClassOfLoaded, JunziHas, JunziHasNot, Bh1750Leaves,
         Kinds, Junzi
<1>3. WritesReported
  BY DEF I2cInit, WritesReported, NoAnswer
<1> QED
  BY <1>1, <1>2, <1>3 DEF I2cInv, I2cInit, Up

\* A module is loaded: the chip is put on the bus ...
LEMMA DeviceInitInv ==
  ASSUME I2cInv, NEW k \in Kinds, DeviceInit(k) PROVE I2cInv'
<1> USE DEF I2cInv, DeviceInit, Load, Up, files
<1>1. BusState /\ i2cFault' = "none" /\ answer' = answer
  BY DEF Probe
<1>2. i2cLoads' \in 0..I2cLoads
  BY I2cAssumption DEF I2cTypeOK
<1>3. WritesReported'
  BY <1>1 DEF WritesReported
<1>4. I2cTypeOK' /\ BusState'
  <2>1. CASE k \in chip \ client /\ k \in drvLoaded /\ Accepts(k)
    <3>1. Probe(k)
      BY <2>1
    <3>2. I2cTypeOK'
      BY <1>2, <2>1, <3>1, ProbeTypes DEF I2cTypeOK
    <3>3. k \notin i2cBound /\ drvLoaded' = drvLoaded /\ everLoaded' = everLoaded
          /\ client' = client \cup {k} /\ drvLoaded \subseteq everLoaded
      BY <1>1, <2>1 DEF BusState, BoundLoaded
    <3>4. drvLoaded \subseteq Kinds /\ client \subseteq Kinds /\ everLoaded \subseteq Kinds
      BY DEF I2cTypeOK
    <3>5. BusState'
      BY <1>1, <2>1, <3>1, <3>3, <3>4, ProbeKeeps
    <3> QED
      BY <3>2, <3>5
  <2>2. CASE ~(k \in chip \ client /\ k \in drvLoaded /\ Accepts(k))
    <3>1. UNCHANGED <<i2cBound, devices, i2cFault, drvLoaded, everLoaded>>
          /\ client \subseteq client' /\ client' \subseteq client \cup {k}
          /\ client' \subseteq Kinds /\ devLoaded' \subseteq Kinds
          /\ (k \in drvLoaded /\ k \in client' => k \in client \/ k = "ov9650")
      BY <2>2 DEF I2cTypeOK, Accepts
    <3>2. I2cTypeOK'
      BY <1>2, <3>1 DEF I2cTypeOK, devices
    <3>3. BoundLoaded'
      BY <1>1, <3>1 DEF BusState, BoundLoaded
    <3>4. ClassOfLoaded' /\ JunziHas' /\ JunziHasNot' /\ Bh1750Leaves'
      BY <1>1, <3>1 DEF BusState, ClassOfLoaded, JunziHas, JunziHasNot, Bh1750Leaves, devices
    <3> QED
      BY <3>2, <3>3, <3>4 DEF BusState
  <2> QED
    BY <2>1, <2>2
<1> QED
  BY <1>1, <1>3, <1>4

\* ... or its driver finds it.
LEMMA DriverInitInv ==
  ASSUME I2cInv, NEW k \in Kinds, DriverInit(k) PROVE I2cInv'
<1> USE DEF I2cInv, DriverInit, Load, Up, files
<1>1. BusState /\ i2cFault' = "none" /\ answer' = answer
  BY DEF Probe
<1>2. i2cLoads' \in 0..I2cLoads
  BY I2cAssumption DEF I2cTypeOK
<1>3. WritesReported'
  BY <1>1 DEF WritesReported
<1>4. I2cTypeOK' /\ BusState'
  <2>1. CASE k \in client /\ Accepts(k)
    <3>1. Probe(k)
      BY <2>1
    <3>2. I2cTypeOK'
      BY <1>2, <2>1, <3>1, ProbeTypes DEF I2cTypeOK
    <3>3. k \notin i2cBound /\ drvLoaded' = drvLoaded \cup {k}
          /\ everLoaded' = everLoaded \cup {k}
          /\ client' = client /\ drvLoaded \subseteq everLoaded
      BY <1>1, <2>1 DEF BusState, BoundLoaded
    <3>4. drvLoaded \subseteq Kinds /\ client \subseteq Kinds /\ everLoaded \subseteq Kinds
      BY DEF I2cTypeOK
    <3>5. BusState'
      BY <1>1, <2>1, <3>1, <3>3, <3>4, ProbeKeeps
    <3> QED
      BY <3>2, <3>5
  <2>2. CASE ~(k \in client /\ Accepts(k))
    <3>1. UNCHANGED <<i2cBound, devices, i2cFault, client, chip, devLoaded>>
          /\ drvLoaded' = drvLoaded \cup {k} /\ everLoaded' = everLoaded \cup {k}
          /\ (k \in client => k = "ov9650")
      BY <2>2 DEF Accepts
    <3>2. I2cTypeOK'
      BY <1>2, <3>1 DEF I2cTypeOK, devices
    <3>3. BoundLoaded'
      BY <1>1, <3>1 DEF BusState, BoundLoaded
    <3>4. ClassOfLoaded' /\ JunziHas' /\ JunziHasNot' /\ Bh1750Leaves'
      BY <1>1, <3>1 DEF BusState, ClassOfLoaded, JunziHas, JunziHasNot, Bh1750Leaves, devices
    <3> QED
      BY <3>2, <3>3, <3>4 DEF BusState
  <2> QED
    BY <2>1, <2>2
<1> QED
  BY <1>1, <1>3, <1>4

\* A device module goes; the chip stays on the bus.
LEMMA DeviceExitInv ==
  ASSUME I2cInv, NEW k \in Kinds, DeviceExit(k) PROVE I2cInv'
<1> USE DEF I2cInv, DeviceExit, Up, files, devices
<1>1. I2cTypeOK'
  BY DEF I2cTypeOK
<1>2. BusState'
  BY DEF BusState, BoundLoaded, ClassOfLoaded, JunziHas, JunziHasNot, Bh1750Leaves
<1>3. i2cFault' = "none" /\ WritesReported'
  BY DEF WritesReported
<1> QED
  BY <1>1, <1>2, <1>3

\* A driver goes, with what it has made if it has a remove; device_destroy of
\* an error code is the end.
LEMMA DriverExitInv ==
  ASSUME I2cInv, NEW k \in Kinds, DriverExit(k) PROVE I2cInv'
<1> USE DEF I2cInv, DriverExit, Up, files
<1>1. BusState /\ i2cFault = "none" /\ answer' = answer /\ k \in drvLoaded
      /\ drvLoaded' = drvLoaded \ {k}
      /\ UNCHANGED <<devLoaded, everLoaded, client, chip, i2cLoads, chipLosses, i2cOpen>>
  OBVIOUS
<1>2. WritesReported'
  BY <1>1 DEF WritesReported
<1>3. CASE k \notin i2cBound
  <2>1. UNCHANGED <<i2cBound, chrdev, class, myClass, node, i2cFault>>
    BY <1>3 DEF devices
  <2>2. I2cTypeOK'
    BY <1>1, <2>1 DEF I2cTypeOK
  <2>3. BusState'
    BY <1>1, <1>3, <2>1
    DEF BusState, BoundLoaded, ClassOfLoaded, JunziHas, JunziHasNot, Bh1750Leaves
  <2> QED
    BY <1>1, <1>2, <2>1, <2>2, <2>3
<1>4. CASE k \in i2cBound /\ k # "bh1750" /\ myClass[k] = "class"
  <2>0. k \in Junzi /\ ClassName[k] = "junzi_class" /\ "bh1750" \in Kinds
    BY <1>4 DEF Junzi, Kinds, ClassName
  <2>1. /\ i2cBound' = i2cBound \ {k} /\ node' = node \ {k} /\ myClass' = myClass
        /\ class' = [class EXCEPT !["junzi_class"] = "none"]
        /\ chrdev' = [chrdev EXCEPT ![k] = "none"] /\ i2cFault' = i2cFault
    BY <1>4, <2>0 DEF RemoveDevice
  <2>2. I2cTypeOK'
    BY <1>1, <2>1 DEF I2cTypeOK
  <2>3. class'["junzi_class"] = "none" /\ class'["bh1750s"] = class["bh1750s"]
        /\ chrdev'[k] = "none" /\ \A j \in Kinds \ {k} : chrdev'[j] = chrdev[j]
    BY <2>1 DEF I2cTypeOK
  <2>4. class["junzi_class"] = k
    BY <1>1, <1>4, <2>0 DEF BusState, JunziHas
  <2>5. BoundLoaded' /\ ClassOfLoaded'
    BY <1>1, <2>1, <2>3 DEF BusState, BoundLoaded, ClassOfLoaded
  <2>6. JunziHas'
    <3> SUFFICES ASSUME NEW j \in Junzi, j \in i2cBound'
                 PROVE  (/\ chrdev[j] = "live" /\ myClass[j] \in {"class", "error"}
                         /\ myClass[j] = "class" => class["junzi_class"] = j /\ j \in node
                         /\ myClass[j] = "error" => Junzi \subseteq everLoaded)'
      BY DEF JunziHas
    <3>1. j # k /\ j \in i2cBound /\ j \in Kinds
      BY <2>1 DEF Junzi, Kinds
    <3> QED
      BY <1>1, <2>1, <2>3, <2>4, <3>1 DEF BusState, JunziHas
  <2>7. JunziHasNot'
    <3> SUFFICES ASSUME NEW j \in Junzi, j \notin i2cBound'
                 PROVE  (chrdev[j] = "none" /\ j \notin node /\ class["junzi_class"] # j)'
      BY DEF JunziHasNot
    <3>1. j \in Kinds /\ (j = k \/ j \notin i2cBound) /\ j # "none"
      BY <2>1 DEF Junzi, Kinds
    <3> QED
      BY <1>1, <2>1, <2>3, <3>1 DEF BusState, JunziHasNot
  <2>8. Bh1750Leaves'
    BY <1>1, <1>4, <2>0, <2>1, <2>3 DEF BusState, Bh1750Leaves
  <2> QED
    BY <1>1, <1>2, <2>1, <2>2, <2>5, <2>6, <2>7, <2>8 DEF BusState
<1>5. CASE k \in i2cBound /\ k # "bh1750" /\ myClass[k] # "class"
  <2>0. k \in Junzi
    BY <1>5 DEF Junzi, Kinds
  <2>1. /\ i2cBound' = i2cBound \ {k} /\ myClass' = myClass
        /\ i2cFault' = "destroyed an error" /\ UNCHANGED <<node, class, chrdev>>
    BY <1>5 DEF RemoveDevice
  <2>2. I2cTypeOK'
    BY <1>1, <2>1 DEF I2cTypeOK
  <2>3. Junzi \subseteq everLoaded
    BY <1>1, <1>5, <2>0 DEF BusState, JunziHas
  <2>4. I2cFaultsExplained'
    BY <1>1, <2>1, <2>3 DEF I2cFaultsExplained, Junzi
  <2>5. BoundInEitherOrder
    BY <1>1, BusGood DEF DriversShareBus
  <2>6. BoundInEitherOrder'
    BY <1>1, <2>1, <2>5 DEF BoundInEitherOrder, Rivals
  <2> QED
    BY <1>2, <2>1, <2>2, <2>4, <2>6 DEF FaultState
<1>6. CASE k \in i2cBound /\ k = "bh1750"
  <2>1. /\ i2cBound' = i2cBound \ {"bh1750"} /\ chrdev' = [chrdev EXCEPT !["bh1750"] = "gone"]
        /\ UNCHANGED <<class, myClass, node, i2cFault>>
    BY <1>6
  <2>2. I2cTypeOK'
    BY <1>1, <2>1 DEF I2cTypeOK
  <2>3. \A j \in Junzi : chrdev'[j] = chrdev[j] /\ (j \in i2cBound' <=> j \in i2cBound)
    BY <2>1 DEF I2cTypeOK, Junzi, Kinds
  <2>4. chrdev'["bh1750"] = "gone" /\ chrdev["bh1750"] # "none"
    BY <1>1, <1>6, <2>1 DEF I2cTypeOK, BusState, Bh1750Leaves, Kinds
  <2>5. BusState'
    <3>1. BoundLoaded' /\ ClassOfLoaded'
      BY <1>1, <1>6, <2>1 DEF BusState, BoundLoaded, ClassOfLoaded
    <3>2. JunziHas'
      BY <1>1, <2>1, <2>3 DEF BusState, JunziHas
    <3>3. JunziHasNot'
      BY <1>1, <2>1, <2>3 DEF BusState, JunziHasNot
    <3>4. Bh1750Leaves'
      BY <1>1, <2>1, <2>4 DEF BusState, Bh1750Leaves
    <3> QED
      BY <3>1, <3>2, <3>3, <3>4 DEF BusState
  <2> QED
    BY <1>1, <1>2, <2>1, <2>2, <2>5
<1> QED
  BY <1>3, <1>4, <1>5, <1>6

\* Only what a driver without remove has left is called when it is gone.
LEMMA OpenNodeInv ==
  ASSUME I2cInv, NEW k \in Kinds, OpenNode(k) PROVE I2cInv'
<1> USE DEF I2cInv, OpenNode, Up, devices
<1>1. BusState /\ BusState'
  BY DEF BusState, BoundLoaded, ClassOfLoaded, JunziHas, JunziHasNot, Bh1750Leaves
<1>2. I2cTypeOK' /\ WritesReported'
  BY DEF I2cTypeOK, WritesReported
<1>3. CASE i2cFault' = "none"
  BY <1>1, <1>2, <1>3
<1>4. CASE i2cFault' # "none"
  <2>1. chrdev[k] = "gone" /\ i2cFault' = "called what is gone"
    BY <1>4
  <2>2. k = "bh1750"
    BY <1>1, <2>1 DEF BusState, JunziHas, JunziHasNot, Junzi, Kinds
  <2>3. I2cFaultsExplained'
    BY <1>1, <2>1, <2>2 DEF BusState, Bh1750Leaves, I2cFaultsExplained
  <2>4. BoundInEitherOrder
    BY <1>1, BusGood DEF DriversShareBus
  <2>5. BoundInEitherOrder'
    BY <2>1, <2>4 DEF BoundInEitherOrder, Rivals
  <2> QED
    BY <1>2, <2>1, <2>3, <2>5 DEF FaultState
<1> QED
  BY <1>3, <1>4

\* Reading, writing and closing, and the silence of a chip, change nothing of
\* the drivers.
LEMMA ProcessesInv ==
  ASSUME I2cInv, NEW k \in Kinds,
         ReadNode(k) \/ WriteNode(k) \/ CloseNode(k) \/ ChipLost(k)
  PROVE  I2cInv'
<1> USE DEF I2cInv
<1>1. Up /\ UNCHANGED <<devLoaded, drvLoaded, everLoaded, client, i2cBound, chrdev, class,
                        myClass, node, i2cFault, i2cLoads>>
      /\ chip' \subseteq chip /\ i2cOpen' \subseteq i2cOpen
      /\ chipLosses' \in 0..ChipLosses
  BY I2cAssumption
  DEF ReadNode, WriteNode, Returns, CloseNode, ChipLost, devices, files, I2cTypeOK
<1>2. I2cTypeOK'
  BY <1>1 DEF I2cTypeOK
<1>3. BusState'
  <2>1. BoundLoaded' /\ ClassOfLoaded'
    BY <1>1 DEF BusState, BoundLoaded, ClassOfLoaded
  <2>2. JunziHas' /\ JunziHasNot'
    BY <1>1 DEF BusState, JunziHas, JunziHasNot
  <2>3. Bh1750Leaves'
    BY <1>1 DEF BusState, Bh1750Leaves
  <2> QED
    BY <2>1, <2>2, <2>3 DEF BusState
<1>4. WritesReported'
  <2>1. ASSUME NEW result, Returns(k, result), result = "written" => k \in chip
        PROVE  WritesReported'
    <3>1. CASE k \in chip
      <4>1. answer' = [kind |-> k, result |-> result, silent |-> FALSE]
        BY <2>1, <3>1 DEF Returns
      <4> QED
        BY <4>1 DEF WritesReported
    <3>2. CASE k \notin chip
      <4>1. answer'.result # "written"
        BY <2>1, <3>2 DEF Returns
      <4> QED
        BY <4>1 DEF WritesReported
    <3> QED
      BY <3>1, <3>2
  <2>2. CASE ReadNode(k)
    BY <2>1, <2>2 DEF ReadNode
  <2>3. CASE WriteNode(k)
    BY <2>1, <2>3 DEF WriteNode
  <2>4. CASE CloseNode(k)
    BY <2>4 DEF CloseNode, NoAnswer, WritesReported
  <2>5. CASE ChipLost(k)
    BY <2>5 DEF ChipLost, files, WritesReported
  <2> QED
    BY <2>2, <2>3, <2>4, <2>5
<1> QED
  BY <1>1, <1>2, <1>3, <1>4 DEF Up

LEMMA I2cNextInv == I2cInv /\ I2cNext => I2cInv'
  BY DeviceInitInv, DeviceExitInv, DriverInitInv, DriverExitInv, OpenNodeInv, ProcessesInv
  DEF I2cNext

LEMMA I2cRests == I2cInv /\ UNCHANGED i2cVars => I2cInv'
<1> SUFFICES ASSUME I2cInv, UNCHANGED i2cVars PROVE I2cInv'
  OBVIOUS
<1> USE DEF I2cInv, i2cVars, Up
<1>1. I2cTypeOK'
  BY DEF I2cTypeOK
<1>2. i2cFault = "none" => BusState'
  BY DEF BusState, BoundLoaded, ClassOfLoaded, JunziHas, JunziHasNot, Bh1750Leaves
<1>3. i2cFault # "none" => FaultState'
  BY DEF FaultState, BoundInEitherOrder, Rivals, I2cFaultsExplained
<1>4. WritesReported'
  BY DEF WritesReported
<1> QED
  BY <1>1, <1>2, <1>3, <1>4

LEMMA I2cGood == I2cInv => DriversShareBus
<1> SUFFICES ASSUME I2cInv PROVE DriversShareBus
  OBVIOUS
<1>1. CASE Up
  BY <1>1, BusGood DEF I2cInv, Up
<1>2. CASE ~Up
  BY <1>2 DEF I2cInv, FaultState, DriversShareBus, NoDriverNothingLeft
<1> QED
  BY <1>1, <1>2

-----------------------------------------------------------------------------
(* Modules that come and go.                                               *)

\* What the first i - 1 steps of module_init take, and those of module_exit
\* give back.
Taken(m, i) == {InitOf(m)[j].r : j \in {h \in 1 .. i - 1 : InitOf(m)[h].op = "take"}}
Given(m, i) == {ExitOf(m)[j].r : j \in {h \in 1 .. i - 1 : ExitOf(m)[h].op = "give"}}
All(m) == Taken(m, Len(InitOf(m)) + 1)

Took(m, i) == IF InitOf(m)[i].op = "take" THEN {InitOf(m)[i].r} ELSE {}
Gave(m, i) == IF ExitOf(m)[i].op = "give" THEN {ExitOf(m)[i].r} ELSE {}

\* What the lists of module m have to satisfy: init takes before it
\* dereferences and returns early only with nothing taken ...
InitStepInOrder(m, j) ==
  LET s == InitOf(m)[j]
  IN  /\ s.op \in {"take", "check", "deref"}
      /\ s.op = "deref" => s.r \in Taken(m, j)
      /\ s.op = "check" => s.onfail = "return"
      /\ s.onfail = "return" => Taken(m, j) = {}
      /\ s.onfail = "undo" => /\ m = "norflash" /\ s.r = "mtd"
                              /\ Taken(m, j) \subseteq {"map", "virt", "mtd"}

InitInOrder(m) == /\ Len(InitOf(m)) \in 1..10
                  /\ \A j \in 1..Len(InitOf(m)) : InitStepInOrder(m, j)

\* ... exit dereferences only what it has not given back and forgets only what
\* is known ...
ExitStepInOrder(m, j) ==
  LET s == ExitOf(m)[j]
  IN  /\ s.op \in {"deref", "give"}
      /\ s.op = "deref" => s.r \in All(m) \ Given(m, j)

ExitInOrder(m) == /\ Len(ExitOf(m)) \in 1..10
                  /\ \A j \in 1..Len(ExitOf(m)) : ExitStepInOrder(m, j)
                  /\ All(m) \ Given(m, Len(ExitOf(m)) + 1) \subseteq Forgotten(m)

\* ... and the controller scans after the frame is there, which exit forgets.
FrameFirst(m) ==
  /\ \A i \in 1 .. Len(InitOf(m)) + 1 : "scanning" \in Taken(m, i) => "frame" \in Taken(m, i)
  /\ \A i \in 1 .. Len(ExitOf(m)) + 1 : "frame" \notin Given(m, i)

-----------------------------------------------------------------------------
LEMMA TakenNext ==
  ASSUME NEW m, NEW i \in Nat \ {0}
  PROVE  Taken(m, i + 1) = Taken(m, i) \cup Took(m, i)
<1>1. 1 .. (i + 1) - 1 = (1 .. i - 1) \cup {i}
  OBVIOUS
<1> QED
  BY <1>1 DEF Taken, Took

LEMMA GivenNext ==
  ASSUME NEW m, NEW i \in Nat \ {0}
  PROVE  Given(m, i + 1) = Given(m, i) \cup Gave(m, i)
<1>1. 1 .. (i + 1) - 1 = (1 .. i - 1) \cup {i}
  OBVIOUS
<1> QED
  BY <1>1 DEF Given, Gave

\* The character drivers ...
LEMMA NodeModules ==
  ASSUME NEW m \in {"am2305", "hw_control"}
  PROVE  InitInOrder(m) /\ ExitInOrder(m) /\ FrameFirst(m)
<1>1. Len(InitOf(m)) = 3 /\ Len(ExitOf(m)) = 4
  BY DEF InitOf, ExitOf, nodeInit, nodeExit
<1>i1. InitOf(m)[1] = take("major", "return")
  BY DEF InitOf, nodeInit
<1>i2. InitOf(m)[2] = take("class", "ignore")
  BY DEF InitOf, nodeInit
<1>i3. InitOf(m)[3] = takeOf("device", "class")
  BY DEF InitOf, nodeInit
<1>e1. ExitOf(m)[1] = deref("class")
  BY DEF ExitOf, nodeExit
<1>e2. ExitOf(m)[2] = give("device")
  BY DEF ExitOf, nodeExit
<1>e3. ExitOf(m)[3] = give("class")
  BY DEF ExitOf, nodeExit
<1>e4. ExitOf(m)[4] = give("major")
  BY DEF ExitOf, nodeExit
<1>s1. InitStepInOrder(m, 1)
  BY <1>i1 DEF InitStepInOrder, Taken, take
<1>s2. InitStepInOrder(m, 2)
  BY <1>i2 DEF InitStepInOrder, take
<1>s3. InitStepInOrder(m, 3)
  BY <1>i3 DEF InitStepInOrder, takeOf
<1>x1. ExitStepInOrder(m, 1)
  BY <1>1, <1>i2, <1>e1
  DEF ExitStepInOrder, All, Taken, Given, deref, take
<1>x2. ExitStepInOrder(m, 2)
  BY <1>e2 DEF ExitStepInOrder, give
<1>x3. ExitStepInOrder(m, 3)
  BY <1>e3 DEF ExitStepInOrder, give
<1>x4. ExitStepInOrder(m, 4)
  BY <1>e4 DEF ExitStepInOrder, give
<1>2. InitInOrder(m)
  BY <1>1, <1>s1, <1>s2, <1>s3 DEF InitInOrder
<1>3. All(m) \subseteq {"major", "class", "device"}
  BY <1>1, <1>i1, <1>i2, <1>i3
  DEF All, Taken, take, takeOf
<1>4. {"device", "class", "major"} \subseteq Given(m, 5)
  BY <1>e2, <1>e3, <1>e4 DEF Given, give
<1>5. All(m) \ Given(m, 5) \subseteq Forgotten(m)
  BY <1>3, <1>4 DEF Forgotten
<1>6. ExitInOrder(m)
  BY <1>1, <1>5, <1>x1, <1>x2, <1>x3, <1>x4 DEF ExitInOrder
<1>7. \A i \in 1 .. 4 : "scanning" \notin Taken(m, i)
  BY <1>i1, <1>i2, <1>i3
  DEF Taken, take, takeOf
<1>8. \A i \in 1 .. 5 : "frame" \notin Given(m, i)
  BY <1>e1, <1>e2, <1>e3, <1>e4
  DEF Given, deref, give
<1>9. FrameFirst(m)
  BY <1>1, <1>7, <1>8 DEF FrameFirst
<1> QED
  BY <1>2, <1>6, <1>9

\* ... the one that looks for its chip first ...
LEMMA Ds18b20Module ==
  ASSUME NEW m \in {"ds18b20"}
  PROVE  InitInOrder(m) /\ ExitInOrder(m) /\ FrameFirst(m)
<1>1. Len(InitOf(m)) = 4 /\ Len(ExitOf(m)) = 4
  BY DEF InitOf, ExitOf, ds18b20_init, nodeInit, nodeExit
<1>i1. InitOf(m)[1] = check("chip")
  BY DEF InitOf, ds18b20_init, nodeInit
<1>i2. InitOf(m)[2] = take("major", "return")
  BY DEF InitOf, ds18b20_init, nodeInit
<1>i3. InitOf(m)[3] = take("class", "ignore")
  BY DEF InitOf, ds18b20_init, nodeInit
<1>i4. InitOf(m)[4] = takeOf("device", "class")
  BY DEF InitOf, ds18b20_init, nodeInit
<1>e1. ExitOf(m)[1] = deref("class")
  BY DEF ExitOf, nodeExit
<1>e2. ExitOf(m)[2] = give("device")
  BY DEF ExitOf, nodeExit
<1>e3. ExitOf(m)[3] = give("class")
  BY DEF ExitOf, nodeExit
<1>e4. ExitOf(m)[4] = give("major")
  BY DEF ExitOf, nodeExit
<1>s1. InitStepInOrder(m, 1)
  BY <1>i1 DEF InitStepInOrder, Taken, check
<1>s2. InitStepInOrder(m, 2)
  BY <1>i1, <1>i2 DEF InitStepInOrder, Taken, check, take
<1>s3. InitStepInOrder(m, 3)
  BY <1>i3 DEF InitStepInOrder, take
<1>s4. InitStepInOrder(m, 4)
  BY <1>i4 DEF InitStepInOrder, takeOf
<1>x1. ExitStepInOrder(m, 1)
  BY <1>1, <1>i3, <1>e1
  DEF ExitStepInOrder, All, Taken, Given, deref, take
<1>x2. ExitStepInOrder(m, 2)
  BY <1>e2 DEF ExitStepInOrder, give
<1>x3. ExitStepInOrder(m, 3)
  BY <1>e3 DEF ExitStepInOrder, give
<1>x4. ExitStepInOrder(m, 4)
  BY <1>e4 DEF ExitStepInOrder, give
<1>2. InitInOrder(m)
  BY <1>1, <1>s1, <1>s2, <1>s3, <1>s4 DEF InitInOrder
<1>3. All(m) \subseteq {"major", "class", "device"}
  BY <1>1, <1>i1, <1>i2, <1>i3, <1>i4
  DEF All, Taken, check, take, takeOf
<1>4. {"device", "class", "major"} \subseteq Given(m, 5)
  BY <1>e2, <1>e3, <1>e4 DEF Given, give
<1>5. All(m) \ Given(m, 5) \subseteq Forgotten(m)
  BY <1>3, <1>4 DEF Forgotten
<1>6. ExitInOrder(m)
  BY <1>1, <1>5, <1>x1, <1>x2, <1>x3, <1>x4 DEF ExitInOrder
<1>7. \A i \in 1 .. 5 : "scanning" \notin Taken(m, i)
  BY <1>i1, <1>i2, <1>i3, <1>i4
  DEF Taken, check, take, takeOf
<1>8. \A i \in 1 .. 5 : "frame" \notin Given(m, i)
  BY <1>e1, <1>e2, <1>e3, <1>e4
  DEF Given, deref, give
<1>9. FrameFirst(m)
  BY <1>1, <1>7, <1>8 DEF FrameFirst
<1> QED
  BY <1>2, <1>6, <1>9

\* ... the screen ...
LEMMA LcdModule ==
  ASSUME NEW m \in {"lcd"}
  PROVE  InitInOrder(m) /\ ExitInOrder(m) /\ FrameFirst(m)
<1>1. Len(InitOf(m)) = 9 /\ Len(ExitOf(m)) = 7
  BY DEF InitOf, ExitOf, mylcd_init, mylcd_exit
<1>i1. InitOf(m)[1] = take("info", "ignore")
  BY DEF InitOf, mylcd_init
<1>i2. InitOf(m)[2] = deref("info")
  BY DEF InitOf, mylcd_init
<1>i3. InitOf(m)[3] = take("gpio", "ignore")
  BY DEF InitOf, mylcd_init
<1>i4. InitOf(m)[4] = deref("gpio")
  BY DEF InitOf, mylcd_init
<1>i5. InitOf(m)[5] = take("regs", "ignore")
  BY DEF InitOf, mylcd_init
<1>i6. InitOf(m)[6] = deref("regs")
  BY DEF InitOf, mylcd_init
<1>i7. InitOf(m)[7] = takeOf("frame", "info")
  BY DEF InitOf, mylcd_init
<1>i8. InitOf(m)[8] = take("scanning", "never")
  BY DEF InitOf, mylcd_init
<1>i9. InitOf(m)[9] = takeOf("fb", "info")
  BY DEF InitOf, mylcd_init
<1>e1. ExitOf(m)[1] = give("fb")
  BY DEF ExitOf, mylcd_exit
<1>e2. ExitOf(m)[2] = deref("regs")
  BY DEF ExitOf, mylcd_exit
<1>e3. ExitOf(m)[3] = give("scanning")
  BY DEF ExitOf, mylcd_exit
<1>e4. ExitOf(m)[4] = deref("info")
  BY DEF ExitOf, mylcd_exit
<1>e5. ExitOf(m)[5] = give("regs")
  BY DEF ExitOf, mylcd_exit
<1>e6. ExitOf(m)[6] = give("gpio")
  BY DEF ExitOf, mylcd_exit
<1>e7. ExitOf(m)[7] = give("info")
  BY DEF ExitOf, mylcd_exit
<1>s1. InitStepInOrder(m, 1)
  BY <1>i1 DEF InitStepInOrder, take
<1>s2. InitStepInOrder(m, 2)
  BY <1>i1, <1>i2 DEF InitStepInOrder, Taken, take, deref
<1>s3. InitStepInOrder(m, 3)
  BY <1>i3 DEF InitStepInOrder, take
<1>s4. InitStepInOrder(m, 4)
  BY <1>i3, <1>i4 DEF InitStepInOrder, Taken, take, deref
<1>s5. InitStepInOrder(m, 5)
  BY <1>i5 DEF InitStepInOrder, take
<1>s6. InitStepInOrder(m, 6)
  BY <1>i5, <1>i6 DEF InitStepInOrder, Taken, take, deref
<1>s7. InitStepInOrder(m, 7)
  BY <1>i7 DEF InitStepInOrder, takeOf
<1>s8. InitStepInOrder(m, 8)
  BY <1>i8 DEF InitStepInOrder, take
<1>s9. InitStepInOrder(m, 9)
  BY <1>i9 DEF InitStepInOrder, takeOf
<1>x1. ExitStepInOrder(m, 1)
  BY <1>e1 DEF ExitStepInOrder, give
<1>x2. ExitStepInOrder(m, 2)
  BY <1>1, <1>i5, <1>e1, <1>e2
  DEF ExitStepInOrder, All, Taken, Given, deref, give, take
<1>x3. ExitStepInOrder(m, 3)
  BY <1>e3 DEF ExitStepInOrder, give
<1>x4. ExitStepInOrder(m, 4)
  BY <1>1, <1>i1, <1>e1, <1>e2, <1>e3, <1>e4
  DEF ExitStepInOrder, All, Taken, Given, deref, give, take
<1>x5. ExitStepInOrder(m, 5)
  BY <1>e5 DEF ExitStepInOrder, give
<1>x6. ExitStepInOrder(m, 6)
  BY <1>e6 DEF ExitStepInOrder, give
<1>x7. ExitStepInOrder(m, 7)
  BY <1>e7 DEF ExitStepInOrder, give
<1>2. InitInOrder(m)
  BY <1>1, <1>s1, <1>s2, <1>s3, <1>s4, <1>s5, <1>s6, <1>s7, <1>s8, <1>s9 DEF InitInOrder
<1>3. All(m) \subseteq {"info", "gpio", "regs", "frame", "scanning", "fb"}
  BY <1>1, <1>i1, <1>i2, <1>i3, <1>i4, <1>i5, <1>i6, <1>i7, <1>i8, <1>i9
  DEF All, Taken, deref, take, takeOf
<1>4. {"fb", "scanning", "regs", "gpio", "info"} \subseteq Given(m, 8)
  BY <1>e1, <1>e3, <1>e5, <1>e6, <1>e7 DEF Given, give
<1>5. All(m) \ Given(m, 8) \subseteq Forgotten(m)
  BY <1>3, <1>4 DEF Forgotten
<1>6. ExitInOrder(m)
  BY <1>1, <1>5, <1>x1, <1>x2, <1>x3, <1>x4, <1>x5, <1>x6, <1>x7 DEF ExitInOrder
<1>7. \A i \in 1 .. 10 : "scanning" \in Taken(m, i) => "frame" \in Taken(m, i)
  BY <1>i1, <1>i2, <1>i3, <1>i4, <1>i5, <1>i6, <1>i7, <1>i8, <1>i9
  DEF Taken, deref, take, takeOf
<1>8. \A i \in 1 .. 8 : "frame" \notin Given(m, i)
  BY <1>e1, <1>e2, <1>e3, <1>e4, <1>e5, <1>e6, <1>e7
  DEF Given, deref, give
<1>9. FrameFirst(m)
  BY <1>1, <1>7, <1>8 DEF FrameFirst
<1> QED
  BY <1>2, <1>6, <1>9

\* ... the two flash drivers ...
LEMMA NandModule ==
  ASSUME NEW m \in {"nandflash"}
  PROVE  InitInOrder(m) /\ ExitInOrder(m) /\ FrameFirst(m)
<1>1. Len(InitOf(m)) = 10 /\ Len(ExitOf(m)) = 4
  BY DEF InitOf, ExitOf, my_nand_init, my_nand_exit
<1>i1. InitOf(m)[1] = take("clock", "ignore")
  BY DEF InitOf, my_nand_init
<1>i2. InitOf(m)[2] = takeOf("enabled_clock", "clock")
  BY DEF InitOf, my_nand_init
<1>i3. InitOf(m)[3] = take("nand", "ignore")
  BY DEF InitOf, my_nand_init
<1>i4. InitOf(m)[4] = take("mtd", "ignore")
  BY DEF InitOf, my_nand_init
<1>i5. InitOf(m)[5] = take("regs", "ignore")
  BY DEF InitOf, my_nand_init
<1>i6. InitOf(m)[6] = deref("nand")
  BY DEF InitOf, my_nand_init
<1>i7. InitOf(m)[7] = deref("mtd")
  BY DEF InitOf, my_nand_init
<1>i8. InitOf(m)[8] = deref("regs")
  BY DEF InitOf, my_nand_init
<1>i9. InitOf(m)[9] = takeOf("tables", "nand")
  BY DEF InitOf, my_nand_init
<1>i10. InitOf(m)[10] = takeOf("partitions", "mtd")
  BY DEF InitOf, my_nand_init
<1>e1. ExitOf(m)[1] = give("partitions")
  BY DEF ExitOf, my_nand_exit
<1>e2. ExitOf(m)[2] = give("regs")
  BY DEF ExitOf, my_nand_exit
<1>e3. ExitOf(m)[3] = give("nand")
  BY DEF ExitOf, my_nand_exit
<1>e4. ExitOf(m)[4] = give("mtd")
  BY DEF ExitOf, my_nand_exit
<1>s1. InitStepInOrder(m, 1)
  BY <1>i1 DEF InitStepInOrder, take
<1>s2. InitStepInOrder(m, 2)
  BY <1>i2 DEF InitStepInOrder, takeOf
<1>s3. InitStepInOrder(m, 3)
  BY <1>i3 DEF InitStepInOrder, take
<1>s4. InitStepInOrder(m, 4)
  BY <1>i4 DEF InitStepInOrder, take
<1>s5. InitStepInOrder(m, 5)
  BY <1>i5 DEF InitStepInOrder, take
<1>s6. InitStepInOrder(m, 6)
  BY <1>i3, <1>i6 DEF InitStepInOrder, Taken, take, deref
<1>s7. InitStepInOrder(m, 7)
  BY <1>i4, <1>i7 DEF InitStepInOrder, Taken, take, deref
<1>s8. InitStepInOrder(m, 8)
  BY <1>i5, <1>i8 DEF InitStepInOrder, Taken, take, deref
<1>s9. InitStepInOrder(m, 9)
  BY <1>i9 DEF InitStepInOrder, takeOf
<1>s10. InitStepInOrder(m, 10)
  BY <1>i10 DEF InitStepInOrder, takeOf
<1>x1. ExitStepInOrder(m, 1)
  BY <1>e1 DEF ExitStepInOrder, give
<1>x2. ExitStepInOrder(m, 2)
  BY <1>e2 DEF ExitStepInOrder, give
<1>x3. ExitStepInOrder(m, 3)
  BY <1>e3 DEF ExitStepInOrder, give
<1>x4. ExitStepInOrder(m, 4)
  BY <1>e4 DEF ExitStepInOrder, give
<1>2. InitInOrder(m)
  BY <1>1, <1>s1, <1>s2, <1>s3, <1>s4, <1>s5, <1>s6, <1>s7, <1>s8, <1>s9,
     <1>s10 DEF InitInOrder
<1>3. All(m) \subseteq {"clock", "enabled_clock", "nand", "mtd", "regs", "tables", "partitions"}
  BY <1>1, <1>i1, <1>i2, <1>i3, <1>i4, <1>i5, <1>i6, <1>i7, <1>i8, <1>i9,
     <1>i10
  DEF All, Taken, deref, take, takeOf
<1>4. {"partitions", "regs", "nand", "mtd"} \subseteq Given(m, 5)
  BY <1>e1, <1>e2, <1>e3, <1>e4 DEF Given, give
<1>5. All(m) \ Given(m, 5) \subseteq Forgotten(m)
  BY <1>3, <1>4 DEF Forgotten
<1>6. ExitInOrder(m)
  BY <1>1, <1>5, <1>x1, <1>x2, <1>x3, <1>x4 DEF ExitInOrder
<1>7. \A i \in 1 .. 11 : "scanning" \notin Taken(m, i)
  BY <1>i1, <1>i2, <1>i3, <1>i4, <1>i5, <1>i6, <1>i7, <1>i8, <1>i9, <1>i10
  DEF Taken, deref, take, takeOf
<1>8. \A i \in 1 .. 5 : "frame" \notin Given(m, i)
  BY <1>e1, <1>e2, <1>e3, <1>e4
  DEF Given, give
<1>9. FrameFirst(m)
  BY <1>1, <1>7, <1>8 DEF FrameFirst
<1> QED
  BY <1>2, <1>6, <1>9

LEMMA NorModule ==
  ASSUME NEW m \in {"norflash"}
  PROVE  InitInOrder(m) /\ ExitInOrder(m) /\ FrameFirst(m)
<1>1. Len(InitOf(m)) = 7 /\ Len(ExitOf(m)) = 4
  BY DEF InitOf, ExitOf, my_nor_init, my_nor_exit
<1>i1. InitOf(m)[1] = take("map", "ignore")
  BY DEF InitOf, my_nor_init
<1>i2. InitOf(m)[2] = deref("map")
  BY DEF InitOf, my_nor_init
<1>i3. InitOf(m)[3] = take("virt", "ignore")
  BY DEF InitOf, my_nor_init
<1>i4. InitOf(m)[4] = deref("virt")
  BY DEF InitOf, my_nor_init
<1>i5. InitOf(m)[5] = take("mtd", "retry")
  BY DEF InitOf, my_nor_init
<1>i6. InitOf(m)[6] = take("mtd", "undo")
  BY DEF InitOf, my_nor_init
<1>i7. InitOf(m)[7] = takeOf("partitions", "mtd")
  BY DEF InitOf, my_nor_init
<1>e1. ExitOf(m)[1] = give("partitions")
  BY DEF ExitOf, my_nor_exit
<1>e2. ExitOf(m)[2] = deref("map")
  BY DEF ExitOf, my_nor_exit
<1>e3. ExitOf(m)[3] = give("virt")
  BY DEF ExitOf, my_nor_exit
<1>e4. ExitOf(m)[4] = give("map")
  BY DEF ExitOf, my_nor_exit
<1>s1. InitStepInOrder(m, 1)
  BY <1>i1 DEF InitStepInOrder, take
<1>s2. InitStepInOrder(m, 2)
  BY <1>i1, <1>i2 DEF InitStepInOrder, Taken, take, deref
<1>s3. InitStepInOrder(m, 3)
  BY <1>i3 DEF InitStepInOrder, take
<1>s4. InitStepInOrder(m, 4)
  BY <1>i3, <1>i4 DEF InitStepInOrder, Taken, take, deref
<1>s5. InitStepInOrder(m, 5)
  BY <1>i5 DEF InitStepInOrder, take
<1>s6. InitStepInOrder(m, 6)
  BY <1>i1, <1>i2, <1>i3, <1>i4, <1>i5, <1>i6
  DEF InitStepInOrder, Taken, deref, take
<1>s7. InitStepInOrder(m, 7)
  BY <1>i7 DEF InitStepInOrder, takeOf
<1>x1. ExitStepInOrder(m, 1)
  BY <1>e1 DEF ExitStepInOrder, give
<1>x2. ExitStepInOrder(m, 2)
  BY <1>1, <1>i1, <1>e1, <1>e2
  DEF ExitStepInOrder, All, Taken, Given, deref, give, take
<1>x3. ExitStepInOrder(m, 3)
  BY <1>e3 DEF ExitStepInOrder, give
<1>x4. ExitStepInOrder(m, 4)
  BY <1>e4 DEF ExitStepInOrder, give
<1>2. InitInOrder(m)
  BY <1>1, <1>s1, <1>s2, <1>s3, <1>s4, <1>s5, <1>s6, <1>s7 DEF InitInOrder
<1>3. All(m) \subseteq {"map", "virt", "mtd", "partitions"}
  BY <1>1, <1>i1, <1>i2, <1>i3, <1>i4, <1>i5, <1>i6, <1>i7
  DEF All, Taken, deref, take, takeOf
<1>4. {"partitions", "virt", "map"} \subseteq Given(m, 5)
  BY <1>e1, <1>e3, <1>e4 DEF Given, give
<1>5. All(m) \ Given(m, 5) \subseteq Forgotten(m)
  BY <1>3, <1>4 DEF Forgotten
<1>6. ExitInOrder(m)
  BY <1>1, <1>5, <1>x1, <1>x2, <1>x3, <1>x4 DEF ExitInOrder
<1>7. \A i \in 1 .. 8 : "scanning" \notin Taken(m, i)
  BY <1>i1, <1>i2, <1>i3, <1>i4, <1>i5, <1>i6, <1>i7
  DEF Taken, deref, take, takeOf
<1>8. \A i \in 1 .. 5 : "frame" \notin Given(m, i)
  BY <1>e1, <1>e2, <1>e3, <1>e4
  DEF Given, deref, give
<1>9. FrameFirst(m)
  BY <1>1, <1>7, <1>8 DEF FrameFirst
<1> QED
  BY <1>2, <1>6, <1>9

\* ... and the registration example.
LEMMA UsbSimpModule ==
  ASSUME NEW m \in {"usb_simp"}
  PROVE  InitInOrder(m) /\ ExitInOrder(m) /\ FrameFirst(m)
<1>1. Len(InitOf(m)) = 1 /\ Len(ExitOf(m)) = 2
  BY DEF InitOf, ExitOf, take, my_usb_simp_exit
<1>i1. InitOf(m)[1] = take("driver", "ignore")
  BY DEF InitOf, take
<1>e1. ExitOf(m)[1] = deref("driver")
  BY DEF ExitOf, my_usb_simp_exit
<1>e2. ExitOf(m)[2] = give("driver")
  BY DEF ExitOf, my_usb_simp_exit
<1>s1. InitStepInOrder(m, 1)
  BY <1>i1 DEF InitStepInOrder, take
<1>x1. ExitStepInOrder(m, 1)
  BY <1>1, <1>i1, <1>e1
  DEF ExitStepInOrder, All, Taken, Given, deref, take
<1>x2. ExitStepInOrder(m, 2)
  BY <1>e2 DEF ExitStepInOrder, give
<1>2. InitInOrder(m)
  BY <1>1, <1>s1 DEF InitInOrder
<1>3. All(m) \subseteq {"driver"}
  BY <1>1, <1>i1
  DEF All, Taken, take
<1>4. {"driver"} \subseteq Given(m, 3)
  BY <1>e2 DEF Given, give
<1>5. All(m) \ Given(m, 3) \subseteq Forgotten(m)
  BY <1>3, <1>4 DEF Forgotten
<1>6. ExitInOrder(m)
  BY <1>1, <1>5, <1>x1, <1>x2 DEF ExitInOrder
<1>7. \A i \in 1 .. 2 : "scanning" \notin Taken(m, i)
  BY <1>i1
  DEF Taken, take
<1>8. \A i \in 1 .. 3 : "frame" \notin Given(m, i)
  BY <1>e1, <1>e2
  DEF Given, deref, give
<1>9. FrameFirst(m)
  BY <1>1, <1>7, <1>8 DEF FrameFirst
<1> QED
  BY <1>2, <1>6, <1>9

LEMMA ModulesInOrder ==
  ASSUME NEW m \in Programs
  PROVE  InitInOrder(m) /\ ExitInOrder(m) /\ FrameFirst(m)
  BY NodeModules, Ds18b20Module, LcdModule, NandModule, NorModule, UsbSimpModule
  DEF Programs

-----------------------------------------------------------------------------
LifeTyped ==
  /\ subject \in Programs \cup {"none"}
  /\ phase \in {"out", "init", "undo", "in", "exit"}
  /\ phase # "out" => subject \in Programs
  /\ phase = "undo" => subject = "norflash"
  /\ lifeStep \in 1 .. Len(Steps) + 1
  /\ missed \cap lifeHeld = {}
  /\ lifeLoads \in 0..LifeLoads /\ lifeFailures \in 0..LifeFailures

\* What the module is to have where it stands; norUndo gives back the rest.
Due == CASE phase = "out" -> {}
         [] phase = "init" -> Taken(subject, lifeStep)
         [] phase = "in" -> All(subject)
         [] phase = "exit" -> All(subject) \ Given(subject, lifeStep)
         [] phase = "undo" -> CASE lifeStep = 1 -> {"map", "virt"}
                                [] lifeStep = 2 -> {"map"}
                                [] OTHER -> {}

\* It has nothing else, and what it does not have it has missed.
Accounted == lifeHeld \subseteq Due
             /\ (phase # "undo" => Due \subseteq lifeHeld \cup missed)

\* A module that has crashed stays where it is.
CrashStays == crashedOn # "none" => /\ crashedOn \in missed
                                    /\ phase \in {"init", "exit"} /\ lifeStep <= Len(Steps)

LeavesOwn == /\ subject = "none" => leaked = {}
             /\ subject # "none" => leaked \subseteq Forgotten(subject)

LifeInv == LifeTyped /\ Accounted /\ CrashStays /\ LeavesOwn

LEMMA Undo == Len(norUndo) = 2 /\ norUndo[1] = give("virt") /\ norUndo[2] = give("map")
  BY DEF norUndo

\* The step a module is at.
LEMMA NowIs ==
  ASSUME LifeTyped, InSteps
  PROVE  /\ subject \in Programs /\ lifeStep \in 1..Len(Steps)
         /\ InitInOrder(subject) /\ ExitInOrder(subject)
         /\ phase = "init" => /\ Steps = InitOf(subject) /\ Now = InitOf(subject)[lifeStep]
                              /\ InitStepInOrder(subject, lifeStep)
         /\ phase = "exit" => /\ Steps = ExitOf(subject) /\ Now = ExitOf(subject)[lifeStep]
                              /\ ExitStepInOrder(subject, lifeStep)
         /\ phase = "undo" => /\ Steps = norUndo /\ Now = norUndo[lifeStep] /\ Now.op = "give"
<1>1. subject \in Programs /\ phase \in {"init", "exit", "undo"} /\ lifeStep <= Len(Steps)
  BY DEF LifeTyped, InSteps
<1>2. InitInOrder(subject) /\ ExitInOrder(subject)
  BY <1>1, ModulesInOrder
<1>3. CASE phase = "init"
  <2>1. Steps = InitOf(subject)
    BY <1>3 DEF Steps
  <2>2. lifeStep \in 1..Len(InitOf(subject))
    BY <1>1, <1>2, <2>1 DEF LifeTyped, InitInOrder
  <2> QED
    BY <1>1, <1>2, <1>3, <2>1, <2>2 DEF InitInOrder, Now
<1>4. CASE phase = "exit"
  <2>1. Steps = ExitOf(subject)
    BY <1>4 DEF Steps
  <2>2. lifeStep \in 1..Len(ExitOf(subject))
    BY <1>1, <1>2, <2>1 DEF LifeTyped, ExitInOrder
  <2> QED
    BY <1>1, <1>2, <1>4, <2>1, <2>2 DEF ExitInOrder, Now
<1>5. CASE phase = "undo"
  <2>1. Steps = norUndo
    BY <1>5 DEF Steps
  <2>2. lifeStep = 1 \/ lifeStep = 2
    BY <1>1, <2>1, Undo DEF LifeTyped
  <2>3. Now = norUndo[lifeStep] /\ Now.op = "give"
    BY <2>1, <2>2, Undo DEF Now, give
  <2> QED
    BY <1>1, <1>2, <1>5, <2>1, <2>2, <2>3, Undo
<1> QED
  BY <1>1, <1>3, <1>4, <1>5

LEMMA LifeInitInv == LifeInit => LifeInv
<1> SUFFICES ASSUME LifeInit PROVE LifeInv
  OBVIOUS
<1>1. Steps = <<>> /\ Len(Steps) = 0
  BY DEF LifeInit, Steps
<1>2. LifeTyped
  BY <1>1, LifeAssumption DEF LifeInit, LifeTyped
<1> QED
  BY <1>2 DEF LifeInit, LifeInv, Accounted, Due, CrashStays, LeavesOwn

\* A module is loaded or unloaded.
LEMMA InsmodInv == ASSUME LifeInv, NEW m \in Programs, Insmod(m) PROVE LifeInv'
<1> USE DEF LifeInv, Insmod
<1>1. InitInOrder(m) /\ m # "none"
  BY ModulesInOrder DEF Programs
<1>2. subject' = m /\ phase' = "init" /\ lifeStep' = 1 /\ missed' = {} /\ lifeHeld' = {}
      /\ leaked' = leaked /\ crashedOn' = "none"
  BY DEF Accounted, Due, CrashStays
<1>3. Steps' = InitOf(m)
  BY <1>2 DEF Steps
<1>4. LifeTyped'
  BY <1>1, <1>2, <1>3, LifeAssumption DEF LifeTyped, InitInOrder
<1>5. Due' = {}
  BY <1>2 DEF Due, Taken
<1> QED
  BY <1>1, <1>2, <1>4, <1>5 DEF Accounted, CrashStays, LeavesOwn

LEMMA RmmodInv == ASSUME LifeInv, Rmmod PROVE LifeInv'
<1> USE DEF LifeInv, Rmmod
<1>1. subject \in Programs /\ ExitInOrder(subject)
  BY ModulesInOrder DEF LifeTyped
<1>2. phase' = "exit" /\ lifeStep' = 1 /\ crashedOn' = "none"
      /\ UNCHANGED <<subject, lifeHeld, missed, leaked>>
  BY DEF CrashStays
<1>3. Steps' = ExitOf(subject)
  BY <1>2 DEF Steps
<1>4. LifeTyped'
  BY <1>1, <1>2, <1>3 DEF LifeTyped, ExitInOrder
<1>5. Due' = Due
  BY <1>2 DEF Due, Given, All, Taken
<1> QED
  BY <1>1, <1>2, <1>4, <1>5 DEF Accounted, CrashStays, LeavesOwn

\* A step on within the list.
LEMMA AdvanceTyped ==
  ASSUME LifeTyped, InSteps, Advance, subject' = subject, missed' \cap lifeHeld' = {},
         lifeLoads' = lifeLoads, lifeFailures' \in 0..LifeFailures
  PROVE  LifeTyped'
<1>1. lifeStep' = lifeStep + 1 /\ phase' = phase /\ Steps' = Steps
  BY DEF Advance, Steps
<1>2. lifeStep' \in 1 .. Len(Steps') + 1
  BY <1>1, NowIs, Undo DEF InitInOrder, ExitInOrder
<1> QED
  BY <1>1, <1>2 DEF LifeTyped

\* A call takes something ...
LEMMA TakeItInv == ASSUME LifeInv, TakeIt PROVE LifeInv'
<1> USE DEF LifeInv
<1>1. InSteps /\ Now.op \in {"take", "check"} /\ missed' = missed \ {Now.r} /\ Advance
      /\ lifeHeld' = (IF Now.op = "take" THEN lifeHeld \cup {Now.r} ELSE lifeHeld)
      /\ UNCHANGED <<subject, leaked, crashedOn, lifeLoads, lifeFailures>>
  BY DEF TakeIt
<1>2. phase = "init" /\ crashedOn = "none" /\ lifeStep \in Nat \ {0}
      /\ Now = InitOf(subject)[lifeStep]
  <2>1. phase # "exit"
    BY <1>1, NowIs DEF ExitStepInOrder
  <2>2. phase # "undo"
    BY <1>1, NowIs
  <2> QED
    BY <1>1, <2>1, <2>2, NowIs DEF InSteps
<1>3. missed' \cap lifeHeld' = {}
  BY <1>1 DEF LifeTyped
<1>4. LifeTyped'
  BY <1>1, <1>3, AdvanceTyped DEF LifeTyped
<1>5. phase' = "init" /\ lifeStep' = lifeStep + 1
  BY <1>1, <1>2 DEF Advance
<1>6. Due' = Due \cup (IF Now.op = "take" THEN {Now.r} ELSE {})
  <2>1. Taken(subject, lifeStep + 1) = Taken(subject, lifeStep) \cup Took(subject, lifeStep)
    BY <1>2, TakenNext
  <2> QED
    BY <1>1, <1>2, <1>5, <2>1 DEF Due, Took
<1>7. Accounted'
  <2>1. CASE Now.op = "take"
    BY <1>1, <1>2, <1>6, <2>1 DEF Accounted
  <2>2. CASE Now.op = "check"
    <3>1. Due = {}
      BY <1>1, <1>2, <2>2, NowIs DEF InitStepInOrder, Due
    <3> QED
      BY <1>1, <1>6, <2>2, <3>1 DEF Accounted
  <2> QED
    BY <1>1, <2>1, <2>2
<1>8. CrashStays' /\ LeavesOwn'
  BY <1>1, <1>2 DEF CrashStays, LeavesOwn
<1> QED
  BY <1>4, <1>7, <1>8

\* ... or fails, which init returns, undoes or does not see.
LEMMA TakeFailsInv == ASSUME LifeInv, TakeFails PROVE LifeInv'
<1> USE DEF LifeInv
<1>1. InSteps /\ Now.op \in {"take", "check"} /\ Now.r \notin lifeHeld
      /\ UNCHANGED <<subject, crashedOn, lifeLoads>>
  BY DEF TakeFails
<1>2. phase = "init" /\ crashedOn = "none" /\ lifeStep \in Nat \ {0}
      /\ Now = InitOf(subject)[lifeStep] /\ InitStepInOrder(subject, lifeStep)
      /\ subject \in Programs /\ subject # "none"
  <2>1. phase # "exit"
    BY <1>1, NowIs DEF ExitStepInOrder
  <2>2. phase # "undo"
    BY <1>1, NowIs
  <2> QED
    BY <1>1, <2>1, <2>2, NowIs DEF InSteps, Programs
<1>3. lifeFailures' \in 0..LifeFailures
  BY LifeAssumption DEF TakeFails, LifeTyped
<1>4. CrashStays'
  BY <1>1, <1>2 DEF CrashStays
<1>5. CASE Now.onfail = "return"
  <2>1. phase' = "out" /\ lifeStep' = 1 /\ lifeHeld' = {} /\ leaked' = leaked \cup lifeHeld
        /\ missed' = missed
    BY <1>5 DEF TakeFails
  <2>2. lifeHeld = {}
    BY <1>2, <1>5 DEF InitStepInOrder, Accounted, Due
  <2>3. Steps' = <<>> /\ Len(Steps') = 0
    BY <2>1 DEF Steps
  <2>4. LifeTyped'
    BY <1>1, <1>3, <2>1, <2>3 DEF LifeTyped
  <2>5. Accounted'
    BY <2>1 DEF Accounted, Due
  <2>6. LeavesOwn'
    BY <1>1, <2>1, <2>2 DEF LeavesOwn
  <2> QED
    BY <1>4, <2>4, <2>5, <2>6
<1>6. CASE Now.onfail = "undo"
  <2>1. phase' = "undo" /\ lifeStep' = 1 /\ UNCHANGED <<lifeHeld, leaked, missed>>
    BY <1>6 DEF TakeFails
  <2>2. subject = "norflash" /\ Now.r = "mtd" /\ lifeHeld \subseteq {"map", "virt", "mtd"}
    BY <1>2, <1>6 DEF InitStepInOrder, Accounted, Due
  <2>3. lifeHeld \subseteq {"map", "virt"}
    BY <1>1, <2>2
  <2>4. Steps' = norUndo
    BY <2>1 DEF Steps
  <2>5. LifeTyped'
    BY <1>1, <1>2, <1>3, <2>1, <2>2, <2>4, Undo DEF LifeTyped
  <2>6. Due' = {"map", "virt"}
    BY <2>1 DEF Due
  <2>7. Accounted'
    BY <2>1, <2>3, <2>6 DEF Accounted
  <2>8. LeavesOwn'
    BY <1>1, <2>1 DEF LeavesOwn
  <2> QED
    BY <1>4, <2>5, <2>7, <2>8
<1>7. CASE Now.onfail \notin {"return", "undo"}
  <2>1. missed' = missed \cup {Now.r} /\ Advance /\ UNCHANGED <<lifeHeld, leaked>>
    BY <1>7 DEF TakeFails
  <2>2. Now.op = "take"
    BY <1>1, <1>2, <1>7 DEF InitStepInOrder
  <2>3. missed' \cap lifeHeld' = {}
    BY <1>1, <2>1 DEF LifeTyped
  <2>4. LifeTyped'
    BY <1>1, <1>3, <2>1, <2>3, AdvanceTyped
  <2>5. phase' = "init" /\ lifeStep' = lifeStep + 1
    BY <1>2, <2>1 DEF Advance
  <2>6. Due' = Due \cup {Now.r}
    <3>1. Taken(subject, lifeStep + 1) = Taken(subject, lifeStep) \cup Took(subject, lifeStep)
      BY <1>2, TakenNext
    <3> QED
      BY <1>1, <1>2, <2>2, <2>5, <3>1 DEF Due, Took
  <2>7. Accounted'
    BY <1>2, <2>1, <2>5, <2>6 DEF Accounted
  <2>8. LeavesOwn'
    BY <1>1, <2>1 DEF LeavesOwn
  <2> QED
    BY <1>4, <2>4, <2>7, <2>8
<1> QED
  BY <1>5, <1>6, <1>7

\* What is dereferenced is what the module is to have: either it is there or it
\* was missed.
LEMMA DerefInv == ASSUME LifeInv, Deref PROVE LifeInv'
<1> USE DEF LifeInv
<1>1. InSteps /\ Now.op = "deref" /\ crashedOn = "none"
      /\ UNCHANGED <<subject, lifeHeld, leaked, missed, lifeLoads, lifeFailures>>
  BY DEF Deref, InSteps
<1>2. phase \in {"init", "exit"} /\ lifeStep \in Nat \ {0} /\ lifeStep <= Len(Steps)
      /\ Now.r \in Due
  <2>1. phase # "undo"
    BY <1>1, NowIs
  <2>2. CASE phase = "init"
    BY <1>1, <2>2, NowIs DEF InitStepInOrder, Due
  <2>3. CASE phase = "exit"
    BY <1>1, <2>3, NowIs DEF ExitStepInOrder, Due
  <2> QED
    BY <1>1, <2>1, <2>2, <2>3, NowIs DEF InSteps, LifeTyped
<1>3. LeavesOwn'
  BY <1>1 DEF LeavesOwn
<1>4. CASE Now.r \in lifeHeld
  <2>1. Advance /\ crashedOn' = "none"
    BY <1>1, <1>4 DEF Deref
  <2>2. LifeTyped'
    BY <1>1, <2>1, AdvanceTyped DEF LifeTyped
  <2>3. phase' = phase /\ lifeStep' = lifeStep + 1
    BY <2>1 DEF Advance
  <2>4. Due' = Due
    <3>1. CASE phase = "init"
      <4>1. Taken(subject, lifeStep + 1) = Taken(subject, lifeStep) \cup Took(subject, lifeStep)
        BY <1>2, TakenNext
      <4>2. Took(subject, lifeStep) = {}
        BY <1>1, <3>1, NowIs DEF Took
      <4> QED
        BY <1>1, <2>3, <3>1, <4>1, <4>2 DEF Due
    <3>2. CASE phase = "exit"
      <4>1. Given(subject, lifeStep + 1) = Given(subject, lifeStep) \cup Gave(subject, lifeStep)
        BY <1>2, GivenNext
      <4>2. Gave(subject, lifeStep) = {}
        BY <1>1, <3>2, NowIs DEF Gave
      <4> QED
        BY <1>1, <2>3, <3>2, <4>1, <4>2 DEF Due, All
    <3> QED
      BY <1>2, <3>1, <3>2
  <2>5. Accounted'
    BY <1>1, <2>3, <2>4 DEF Accounted
  <2> QED
    BY <1>3, <2>1, <2>2, <2>5 DEF CrashStays
<1>5. CASE Now.r \notin lifeHeld
  <2>1. crashedOn' = Now.r /\ UNCHANGED <<phase, lifeStep>>
    BY <1>5 DEF Deref
  <2>2. Now.r \in missed
    BY <1>2, <1>5 DEF Accounted
  <2>3. Steps' = Steps /\ Due' = Due
    BY <1>1, <2>1 DEF Steps, Due, All
  <2>4. LifeTyped' /\ Accounted'
    BY <1>1, <2>1, <2>3 DEF LifeTyped, Accounted
  <2>5. CrashStays'
    BY <1>1, <1>2, <2>1, <2>2, <2>3 DEF CrashStays
  <2> QED
    BY <1>3, <2>4, <2>5
<1> QED
  BY <1>4, <1>5

\* Something is given back.
LEMMA GiveInv == ASSUME LifeInv, Give PROVE LifeInv'
<1> USE DEF LifeInv
<1>1. InSteps /\ Now.op = "give" /\ crashedOn = "none" /\ crashedOn' = "none" /\ Advance
      /\ lifeHeld' = lifeHeld \ {Now.r}
      /\ UNCHANGED <<subject, leaked, missed, lifeLoads, lifeFailures>>
  BY DEF Give, InSteps
<1>2. phase \in {"exit", "undo"} /\ lifeStep \in Nat \ {0}
  <2>1. phase # "init"
    BY <1>1, NowIs DEF InitStepInOrder
  <2> QED
    BY <1>1, <2>1 DEF InSteps, LifeTyped
<1>3. LifeTyped'
  BY <1>1, AdvanceTyped DEF LifeTyped
<1>4. phase' = phase /\ lifeStep' = lifeStep + 1
  BY <1>1 DEF Advance
<1>5. Accounted'
  <2>1. CASE phase = "exit"
    <3>1. Given(subject, lifeStep + 1) = Given(subject, lifeStep) \cup Gave(subject, lifeStep)
      BY <1>2, GivenNext
    <3>2. Gave(subject, lifeStep) = {Now.r}
      BY <1>1, <2>1, NowIs DEF Gave
    <3>3. Due' = Due \ {Now.r}
      BY <1>1, <1>4, <2>1, <3>1, <3>2 DEF Due, All
    <3> QED
      BY <1>1, <1>4, <2>1, <3>3 DEF Accounted
  <2>2. CASE phase = "undo"
    <3>1. lifeStep \in {1, 2} /\ Now = norUndo[lifeStep]
      <4>1. Steps = norUndo
        BY <2>2 DEF Steps
      <4>2. Len(Steps) = 2
        BY <4>1, Undo
      <4>3. lifeStep <= 2
        BY <1>1, <4>2 DEF InSteps
      <4> QED
        BY <1>2, <4>1, <4>3 DEF Now
    <3>2. CASE lifeStep = 1
      <4>1. Now.r = "virt" /\ Due = {"map", "virt"} /\ Due' = {"map"}
        BY <1>4, <2>2, <3>1, <3>2, Undo DEF Due, give
      <4> QED
        BY <1>1, <1>4, <2>2, <4>1 DEF Accounted
    <3>3. CASE lifeStep = 2
      <4>1. Now.r = "map" /\ Due = {"map"} /\ Due' = {}
        BY <1>4, <2>2, <3>1, <3>3, Undo DEF Due, give
      <4> QED
        BY <1>1, <1>4, <2>2, <4>1 DEF Accounted
    <3> QED
      BY <3>1, <3>2, <3>3
  <2> QED
    BY <1>2, <2>1, <2>2
<1> QED
  BY <1>1, <1>3, <1>5 DEF CrashStays, LeavesOwn

\* The end of a list: what is still there after the last step is forgotten.
LEMMA EndsInv == ASSUME LifeInv, Ends PROVE LifeInv'
<1> USE DEF LifeInv
<1>1. phase \in {"init", "exit", "undo"} /\ lifeStep = Len(Steps) + 1 /\ lifeStep' = 1
      /\ subject \in Programs /\ subject # "none"
      /\ UNCHANGED <<subject, missed, crashedOn, lifeLoads, lifeFailures>>
  <2>1. Len(Steps) \in Nat
    BY ModulesInOrder, Undo DEF Ends, Steps, LifeTyped, InitInOrder, ExitInOrder
  <2> QED
    BY <2>1 DEF Ends, LifeTyped, Programs
<1>2. crashedOn = "none"
  <2>1. Len(Steps) \in Nat
    BY ModulesInOrder, Undo DEF Ends, Steps, LifeTyped, InitInOrder, ExitInOrder
  <2> QED
    BY <1>1, <2>1 DEF CrashStays
<1>3. CrashStays'
  BY <1>1, <1>2 DEF CrashStays
<1>4. CASE phase = "init"
  <2>1. phase' = "in" /\ UNCHANGED <<lifeHeld, leaked>>
    BY <1>4 DEF Ends
  <2>2. Steps' = <<>> /\ Len(Steps') = 0
    BY <2>1 DEF Steps
  <2>3. LifeTyped'
    BY <1>1, <2>1, <2>2 DEF LifeTyped
  <2>4. Due' = Due
    BY <1>1, <1>4, <2>1 DEF Due, Steps, All
  <2>5. Accounted' /\ LeavesOwn'
    BY <1>1, <1>4, <2>1, <2>4 DEF Accounted, LeavesOwn
  <2> QED
    BY <1>3, <2>3, <2>5
<1>5. CASE phase \in {"exit", "undo"}
  <2>1. phase' = "out" /\ lifeHeld' = {} /\ leaked' = leaked \cup lifeHeld
    BY <1>5 DEF Ends
  <2>2. Steps' = <<>> /\ Len(Steps') = 0
    BY <2>1 DEF Steps
  <2>3. LifeTyped'
    BY <1>1, <2>1, <2>2 DEF LifeTyped
  <2>4. Accounted'
    BY <2>1 DEF Accounted, Due
  <2>5. lifeHeld \subseteq Forgotten(subject)
    <3>1. CASE phase = "exit"
      <4>1. Due \subseteq Forgotten(subject)
        BY <1>1, <3>1, ModulesInOrder DEF Due, Steps, ExitInOrder
      <4> QED
        BY <4>1 DEF Accounted
    <3>2. CASE phase = "undo"
      <4>1. lifeStep = 3
        <5>1. Steps = norUndo
          BY <3>2 DEF Steps
        <5>2. Len(Steps) = 2
          BY <5>1, Undo
        <5> QED
          BY <1>1, <5>2
      <4> QED
        BY <3>2, <4>1 DEF Accounted, Due
    <3> QED
      BY <1>5, <3>1, <3>2
  <2>6. LeavesOwn'
    BY <1>1, <2>1, <2>5 DEF LeavesOwn
  <2> QED
    BY <1>3, <2>3, <2>4, <2>6
<1> QED
  BY <1>1, <1>4, <1>5

LEMMA LifeNextInv == LifeInv /\ LifeNext => LifeInv'
  BY InsmodInv, RmmodInv, TakeItInv, TakeFailsInv, DerefInv, GiveInv, EndsInv DEF LifeNext

LEMMA LifeRests == LifeInv /\ UNCHANGED lifeVars => LifeInv'
<1> SUFFICES ASSUME LifeInv, UNCHANGED lifeVars PROVE LifeInv'
  OBVIOUS
<1> USE DEF LifeInv, lifeVars
<1>1. Steps' = Steps /\ Due' = Due
  BY DEF Steps, Due, All
<1>2. LifeTyped' /\ Accounted'
  BY <1>1 DEF LifeTyped, Accounted
<1>3. CrashStays' /\ LeavesOwn'
  BY <1>1 DEF CrashStays, LeavesOwn
<1> QED
  BY <1>2, <1>3

LEMMA UpToTen == ASSUME NEW n \in 1..10 PROVE n \in Nat /\ n <= 10
  OBVIOUS

LEMMA LifeGood == LifeInv => LifeTypeOK /\ LifeOrderly
<1> SUFFICES ASSUME LifeInv PROVE LifeTypeOK /\ LifeOrderly
  OBVIOUS
<1> USE DEF LifeInv
<1>1. subject \in Programs => InitInOrder(subject) /\ ExitInOrder(subject) /\ FrameFirst(subject)
  BY ModulesInOrder
<1>2. Len(Steps) <= 10 /\ Len(Steps) \in Nat
  <2>1. CASE phase = "init"
    <3>1. subject \in Programs /\ Steps = InitOf(subject)
      BY <2>1 DEF LifeTyped, Steps
    <3>2. InitInOrder(subject)
      BY <1>1, <3>1
    <3>3. Len(InitOf(subject)) \in 1..10
      BY <3>2 DEF InitInOrder
    <3> QED
      BY <3>1, <3>3, UpToTen, Zenon
  <2>2. CASE phase = "exit"
    <3>1. subject \in Programs /\ Steps = ExitOf(subject)
      BY <2>2 DEF LifeTyped, Steps
    <3>2. ExitInOrder(subject)
      BY <1>1, <3>1
    <3>3. Len(ExitOf(subject)) \in 1..10
      BY <3>2 DEF ExitInOrder
    <3> QED
      BY <3>1, <3>3, UpToTen, Zenon
  <2>3. CASE phase = "undo"
    BY <2>3, Undo DEF Steps
  <2>4. CASE phase \in {"out", "in"}
    <3>1. Steps = <<>> /\ Len(Steps) = 0
      BY <2>4 DEF Steps
    <3> QED
      BY <3>1
  <2> QED
    BY <2>1, <2>2, <2>3, <2>4 DEF LifeTyped
<1>3. LifeTypeOK
  BY <1>2 DEF LifeTyped, LifeTypeOK
<1>4. ScansFrame
  <2> SUFFICES ASSUME "scanning" \in lifeHeld PROVE "frame" \in lifeHeld \cup missed
    BY DEF ScansFrame
  <2>1. "scanning" \in Due
    BY DEF Accounted
  <2>2. phase # "out" /\ phase # "undo"
    BY <2>1 DEF Due
  <2>3. subject \in Programs
    BY <2>2 DEF LifeTyped
  <2>4. "frame" \in Due
    <3>1. CASE phase = "init"
      BY <1>1, <2>1, <2>3, <3>1 DEF Due, FrameFirst, LifeTyped, Steps
    <3>2. CASE phase = "in"
      BY <1>1, <2>1, <2>3, <3>2 DEF Due, FrameFirst, All, InitInOrder
    <3>3. CASE phase = "exit"
      <4>1. "frame" \in All(subject)
        BY <1>1, <2>1, <2>3, <3>3 DEF Due, FrameFirst, All, InitInOrder
      <4>2. "frame" \notin Given(subject, lifeStep)
        BY <1>1, <2>3, <3>3 DEF FrameFirst, LifeTyped, Steps
      <4> QED
        BY <3>3, <4>1, <4>2 DEF Due
    <3> QED
      BY <2>2, <3>1, <3>2, <3>3 DEF LifeTyped
  <2> QED
    BY <2>2, <2>4 DEF Accounted
<1>5. CrashesUnchecked /\ LeavesForgotten
  BY DEF CrashesUnchecked, LeavesForgotten, CrashStays, LeavesOwn
<1> QED
  BY <1>3, <1>4, <1>5 DEF LifeOrderly

-----------------------------------------------------------------------------
(* The block drivers: the disk, the memory and the requests.               *)

Memory == [1..Cells -> 0..Cells]
Contents == [1..Sectors -> 0..Cells]
BioRequests == [at : {"none", "sent", "done", "EIO"}, rw : {"READ", "READA", "WRITE"},
             sector : 1..Sectors, pages : Seq(1..Cells), data : Seq(0..Cells), next : Nat,
             during : SUBSET Seq(0..Cells)]

DiskTyped ==
  /\ blkDriver \in Drivers \cup {"none"}
  /\ my_diskbuffer \in Contents /\ cells \in Memory
  /\ bio \in [Users -> BioRequests]
  /\ diskCalls \in 0..DiskCalls /\ diskLoads \in 0..DiskLoads
  /\ leftover \subseteq {"page mapped", "major", "queue"}
  /\ hadBioDriver \in BOOLEAN /\ scattered \in BOOLEAN

\* A request lies inside the disk, the segments done and to be done inside the
\* request, ...
Fits(b) == /\ b.sector + Len(b.pages) - 1 <= Sectors
           /\ b.next \in 1 .. Len(b.pages) + 1
           /\ b.at = "sent" => b.next <= Len(b.pages)

\* ... its pages are its user's, ...
Owned(u, b) == b.at \in {"sent", "done"} => b.pages \in Pages[u]

\* ... what it would read now it is known to have met, ...
Met(b, d) == b.at = "sent" => SectorsOf(b, d) \in b.during

\* ... the pages it has still to write hold what it handed over, ...
Intact(b, m) == b.at = "sent" /\ b.rw = "WRITE" =>
                  \A j \in b.next .. Len(b.pages) : b.data[j] = m[b.pages[j]]

\* ... and what a read has brought so far its sectors have held, all of it at one
\* moment in blk_simp.
Brought(b, m) == b.at = "sent" /\ b.rw # "WRITE" =>
                   \A j \in 1 .. b.next - 1 : \E seen \in b.during : m[b.pages[j]] = seen[j]
BroughtAll(b, m, drv) ==
  b.at = "done" /\ b.rw # "WRITE" =>
    IF drv = "blk_simp"
    THEN [j \in DOMAIN b.pages |-> m[b.pages[j]]] \in b.during
    ELSE \A j \in DOMAIN b.pages : \E seen \in b.during : m[b.pages[j]] = seen[j]

\* Requests are there while a driver is, blk_simp takes them whole, and a driver
\* that takes bios was loaded.
DriverThere == /\ blkDriver = "none" => \A u \in Users : bio[u].at = "none"
               /\ blkDriver = "blk_simp" =>
                    \A u \in Users : bio[u].at = "sent" => bio[u].next = 1
               /\ blkDriver \in {"blk_mid", "blk_hard"} => hadBioDriver

BioSound(u) == Fits(bio[u]) /\ Owned(u, bio[u]) /\ Met(bio[u], my_diskbuffer)

BioKept(u) == /\ Intact(bio[u], cells) /\ Brought(bio[u], cells)
              /\ BroughtAll(bio[u], cells, blkDriver)

DiskInv == /\ DiskTyped /\ DriverThere /\ LeftByBioDrivers /\ WritesHold /\ OthersKept
           /\ \A u \in Users : BioSound(u)
           /\ ~scattered => \A u \in Users : BioKept(u)

-----------------------------------------------------------------------------
\* A sequence made position by position.
LEMMA SeqMade ==
  ASSUME NEW S, NEW s \in Seq(1..Cells), NEW f \in [DOMAIN s -> S]
  PROVE  f \in Seq(S)
<1>1. DOMAIN s = 1..Len(s) /\ Len(s) \in Nat
  OBVIOUS
<1> QED
  BY <1>1

\* The pages of a request of user u.
LEMMA PagesOf ==
  ASSUME NEW u \in Users, NEW p \in Pages[u]
  PROVE  /\ p \in Seq(1..Cells) /\ Len(p) \in Nat /\ Len(p) > 0 /\ DOMAIN p = 1..Len(p)
         /\ \A i \in 1..Len(p) : p[i] \in 1..Cells
         /\ \A i, j \in 1..Len(p) : i # j => p[i] # p[j]
         /\ p[1] \in 1..Cells /\ p[1] + Len(p) - 1 <= Cells
<1>1. p \in Seq(1..Cells)
  BY DiskAssumption
<1>2. Len(p) > 0 /\ p[1] + Len(p) - 1 <= Cells
      /\ \A i, j \in DOMAIN p : i # j => p[i] # p[j]
  BY PagesAssumption
<1>3. Len(p) \in Nat /\ Len(p) > 0 /\ DOMAIN p = 1..Len(p)
  BY <1>1, <1>2
<1>4. \A i \in 1..Len(p) : p[i] \in 1..Cells
  BY <1>1, ElementOfSeq, Zenon
<1> QED
  BY <1>1, <1>2, <1>3, <1>4

\* What a request's sectors hold is a sequence as long as its pages.
LEMMA SectorsSeq ==
  ASSUME NEW b \in BioRequests, Fits(b), NEW d \in Contents
  PROVE  /\ SectorsOf(b, d) \in Seq(0..Cells)
         /\ \A j \in 1..Len(b.pages) :
              /\ b.sector + j - 1 \in 1..Sectors
              /\ SectorsOf(b, d)[j] = d[b.sector + j - 1]
<1>1. b.pages \in Seq(1..Cells) /\ b.sector \in 1..Sectors
  BY DEF BioRequests
<1>2. DOMAIN b.pages = 1..Len(b.pages) /\ Len(b.pages) \in Nat
  BY <1>1
<1>3. \A j \in 1..Len(b.pages) : b.sector + j - 1 \in 1..Sectors
  BY <1>1, <1>2, DiskAssumption DEF Fits
<1>4. SectorsOf(b, d) \in [DOMAIN b.pages -> 0..Cells]
  BY <1>2, <1>3 DEF SectorsOf, Contents
<1>5. SectorsOf(b, d) \in Seq(0..Cells)
  BY <1>1, <1>4, SeqMade
<1> QED
  BY <1>2, <1>3, <1>5 DEF SectorsOf

\* Requests that differ in what they have met only.
SameBut(b, c) == /\ b.at = c.at /\ b.rw = c.rw /\ b.sector = c.sector
                 /\ b.pages = c.pages /\ b.data = c.data /\ b.next = c.next

\* What Witnessed makes of a request.
LEMMA WitnessedIs ==
  ASSUME NEW bios \in [Users -> BioRequests], NEW d \in Contents, NEW u \in Users,
         Fits(bios[u])
  PROVE  /\ Witnessed(bios, d)[u] \in BioRequests
         /\ SameBut(Witnessed(bios, d)[u], bios[u])
         /\ bios[u].during \subseteq Witnessed(bios, d)[u].during
         /\ bios[u].at = "sent" => SectorsOf(bios[u], d) \in Witnessed(bios, d)[u].during
         /\ bios[u].at # "sent" => Witnessed(bios, d)[u] = bios[u]
<1>1. CASE bios[u].at # "sent"
  <2>1. Witnessed(bios, d)[u] = bios[u]
    BY <1>1 DEF Witnessed
  <2> QED
    BY <1>1, <2>1 DEF SameBut
<1>2. CASE bios[u].at = "sent"
  <2> DEFINE S == SectorsOf(bios[u], d)
  <2>1. S \in Seq(0..Cells)
    BY SectorsSeq
  <2> HIDE DEF S
  <2>2. Witnessed(bios, d)[u] = [bios[u] EXCEPT !.during = @ \cup {S}]
    BY <1>2 DEF Witnessed, S
  <2>3. bios[u] \in BioRequests
    OBVIOUS
  <2>4. SameBut(Witnessed(bios, d)[u], bios[u])
    BY <2>2, <2>3 DEF BioRequests, SameBut
  <2>5. Witnessed(bios, d)[u].during = bios[u].during \cup {S}
    BY <2>2, <2>3 DEF BioRequests
  <2>6. Witnessed(bios, d)[u] \in BioRequests
    BY <2>1, <2>2, <2>3, ZenonT(30) DEF BioRequests
  <2> QED
    BY <1>2, <2>4, <2>5, <2>6 DEF S
<1> QED
  BY <1>1, <1>2

\* A request that has met more, while its pages keep their content.
LEMMA MetMore ==
  ASSUME NEW u, NEW b \in BioRequests, NEW c, SameBut(c, b), b.during \subseteq c.during,
         Fits(b)
  PROVE  /\ Fits(c) /\ (Owned(u, b) => Owned(u, c))
         /\ \A d : SectorsOf(c, d) = SectorsOf(b, d)
         /\ \A m, n : (\A j \in 1..Len(b.pages) : n[b.pages[j]] = m[b.pages[j]]) =>
              /\ Intact(b, m) => Intact(c, n)
              /\ Brought(b, m) => Brought(c, n)
              /\ \A drv : BroughtAll(b, m, drv) => BroughtAll(c, n, drv)
<1> USE DEF SameBut
<1>1. Fits(c) /\ (Owned(u, b) => Owned(u, c))
  BY DEF Fits, Owned
<1>2. \A d : SectorsOf(c, d) = SectorsOf(b, d)
  BY DEF SectorsOf
<1>3. b.pages \in Seq(1..Cells)
  BY DEF BioRequests
<1>4. Len(b.pages) \in Nat /\ DOMAIN b.pages = 1..Len(b.pages)
  BY <1>3
<1>5. b.next \in Nat /\ b.next >= 1 /\ b.next <= Len(b.pages) + 1
  BY <1>4 DEF Fits
<1>6. ASSUME NEW m, NEW n, \A j \in 1..Len(b.pages) : n[b.pages[j]] = m[b.pages[j]]
      PROVE  /\ Intact(b, m) => Intact(c, n)
             /\ Brought(b, m) => Brought(c, n)
             /\ \A drv : BroughtAll(b, m, drv) => BroughtAll(c, n, drv)
  <2>1. Intact(b, m) => Intact(c, n)
    BY <1>4, <1>5, <1>6 DEF Intact
  <2>2. Brought(b, m) => Brought(c, n)
    BY <1>4, <1>5, <1>6 DEF Brought
  <2>3. ASSUME NEW drv, BroughtAll(b, m, drv)
        PROVE  BroughtAll(c, n, drv)
    <3>1. [j \in DOMAIN c.pages |-> n[c.pages[j]]] = [j \in DOMAIN b.pages |-> m[b.pages[j]]]
      BY <1>4, <1>6
    <3> QED
      BY <1>4, <1>6, <2>3, <3>1 DEF BroughtAll
  <2> QED
    BY <2>1, <2>2, <2>3
<1> QED
  BY <1>1, <1>2, <1>6

\* Requests after a step, when the disk is d.
LEMMA StillSound ==
  ASSUME NEW bios \in [Users -> BioRequests], NEW d \in Contents, NEW u \in Users,
         Fits(bios[u]), Owned(u, bios[u])
  PROVE  LET W == Witnessed(bios, d)[u]
         IN  /\ W \in BioRequests /\ Fits(W) /\ Owned(u, W) /\ Met(W, d)
             /\ SameBut(W, bios[u]) /\ bios[u].during \subseteq W.during
<1> DEFINE W == Witnessed(bios, d)[u]
<1>1. /\ W \in BioRequests /\ SameBut(W, bios[u]) /\ bios[u].during \subseteq W.during
      /\ bios[u].at = "sent" => SectorsOf(bios[u], d) \in W.during
  BY WitnessedIs
<1> HIDE DEF W
<1>2. bios[u] \in BioRequests
  OBVIOUS
<1>3. /\ Fits(W) /\ Owned(u, W) /\ SectorsOf(W, d) = SectorsOf(bios[u], d)
  BY <1>1, <1>2, MetMore
<1>4. Met(W, d)
  BY <1>1, <1>3 DEF Met, SameBut
<1> QED
  BY <1>1, <1>3, <1>4 DEF W

\* Different users have different pages.
LEMMA PagesApart ==
  ASSUME NEW u \in Users, NEW v \in Users, u # v, NEW p \in Pages[u], NEW q \in Pages[v]
  PROVE  \A i \in 1..Len(p), j \in 1..Len(q) : p[i] # q[j]
<1>1. DOMAIN p = 1..Len(p) /\ DOMAIN q = 1..Len(q)
  BY PagesOf
<1> QED
  BY <1>1, PagesAssumption

\* A request that is sent.
LEMMA SentIs ==
  ASSUME DiskInv, NEW u \in Users, bio[u].at = "sent"
  PROVE  LET b == bio[u]
         IN  /\ b \in BioRequests /\ b.pages \in Pages[u] /\ b.pages \in Seq(1..Cells)
             /\ Len(b.pages) \in Nat /\ DOMAIN b.pages = 1..Len(b.pages)
             /\ b.next \in 1..Len(b.pages)
             /\ \A j \in 1..Len(b.pages) : b.pages[j] \in 1..Cells
             /\ \A j \in 1..Len(b.pages) : AtSector(b, j) \in 1..Sectors
             /\ \A j \in 1..Len(b.pages) : SectorsOf(b, my_diskbuffer)[j] =
                                             my_diskbuffer[AtSector(b, j)]
             /\ SectorsOf(b, my_diskbuffer) \in b.during
<1> DEFINE b == bio[u]
<1>1. b \in BioRequests /\ Fits(b) /\ Owned(u, b) /\ Met(b, my_diskbuffer)
      /\ my_diskbuffer \in Contents
  BY DEF DiskInv, DiskTyped, BioSound
<1>2. b.at = "sent"
  OBVIOUS
<1> HIDE DEF b
<1>3. b.pages \in Pages[u]
  BY <1>1, <1>2 DEF Owned
<1>4. /\ b.pages \in Seq(1..Cells) /\ Len(b.pages) \in Nat
      /\ DOMAIN b.pages = 1..Len(b.pages)
      /\ \A j \in 1..Len(b.pages) : b.pages[j] \in 1..Cells
  BY <1>3, PagesOf
<1>5. b.next \in 1..Len(b.pages)
  BY <1>1, <1>2, <1>4 DEF Fits
<1>6. \A j \in 1..Len(b.pages) :
        /\ AtSector(b, j) \in 1..Sectors
        /\ SectorsOf(b, my_diskbuffer)[j] = my_diskbuffer[AtSector(b, j)]
  BY <1>1, SectorsSeq DEF AtSector
<1>7. SectorsOf(b, my_diskbuffer) \in b.during
  BY <1>1, <1>2 DEF Met
<1> QED
  BY <1>1, <1>3, <1>4, <1>5, <1>6, <1>7 DEF b

\* The others' requests are kept by what leaves their pages alone.
LEMMA OthersKeep ==
  ASSUME DiskInv, NEW v \in Users, BioKept(v),
         NEW c, SameBut(c, bio[v]), bio[v].during \subseteq c.during,
         NEW n, bio[v].pages \in Pages[v] =>
                  \A j \in 1..Len(bio[v].pages) : n[bio[v].pages[j]] = cells[bio[v].pages[j]]
  PROVE  Intact(c, n) /\ Brought(c, n) /\ BroughtAll(c, n, blkDriver)
<1> DEFINE b == bio[v]
<1>1. b \in BioRequests /\ Fits(b) /\ Owned(v, b)
  BY DEF DiskInv, DiskTyped, BioSound
<1>2. Intact(b, cells) /\ Brought(b, cells) /\ BroughtAll(b, cells, blkDriver)
  BY DEF BioKept
<1>3. SameBut(c, b) /\ b.during \subseteq c.during
  OBVIOUS
<1>4. b.pages \in Pages[v] => \A j \in 1..Len(b.pages) : n[b.pages[j]] = cells[b.pages[j]]
  OBVIOUS
<1> HIDE DEF b
<1>5. CASE b.at \in {"sent", "done"}
  <2>1. \A j \in 1..Len(b.pages) : n[b.pages[j]] = cells[b.pages[j]]
    BY <1>1, <1>4, <1>5 DEF Owned
  <2> QED
    BY <1>1, <1>2, <1>3, <2>1, MetMore
<1>6. CASE b.at \notin {"sent", "done"}
  BY <1>3, <1>6 DEF SameBut, Intact, Brought, BroughtAll
<1> QED
  BY <1>5, <1>6

\* A new request.
LEMMA SendBioInv ==
  ASSUME DiskInv, NEW u \in Users, NEW rw \in {"READ", "READA", "WRITE"},
         NEW sector \in 1..Sectors, NEW pages \in Pages[u], SendBio(u, rw, sector, pages)
  PROVE  DiskInv'
<1> DEFINE data == [j \in DOMAIN pages |-> cells[pages[j]]]
           b == [at |-> "sent", rw |-> rw, sector |-> sector, pages |-> pages,
                 data |-> data, next |-> 1, during |-> {}]
           S == SectorsOf(b, my_diskbuffer)
           B == [b EXCEPT !.during = {S}]
<1>1. /\ blkDriver # "none" /\ sector + Len(pages) - 1 <= Sectors
      /\ diskCalls < DiskCalls /\ diskCalls' = diskCalls + 1
      /\ UNCHANGED <<blkDriver, my_diskbuffer, cells, diskLoads, leftover, hadBioDriver,
                     stored, scattered>>
  BY DEF SendBio
<1>2. bio' = [bio EXCEPT ![u] = B]
  BY DEF SendBio
<1>3. /\ pages \in Seq(1..Cells) /\ Len(pages) \in Nat /\ Len(pages) > 0
      /\ DOMAIN pages = 1..Len(pages) /\ \A j \in 1..Len(pages) : pages[j] \in 1..Cells
  BY PagesOf
<1>t. DiskTyped
  BY DEF DiskInv
<1>4. data \in Seq(0..Cells)
  <2>1. data \in [DOMAIN pages -> 0..Cells]
    BY <1>3, <1>t DEF DiskTyped, Memory
  <2> HIDE DEF data
  <2> QED
    BY <1>3, <2>1, SeqMade
<1>5. \A j \in 1..Len(pages) : data[j] = cells[pages[j]]
  BY <1>3
<1> HIDE DEF data
<1>6. b \in BioRequests /\ Fits(b)
  BY <1>1, <1>3, <1>4 DEF BioRequests, Fits
<1>7. S \in Seq(0..Cells)
  BY <1>6, <1>t, SectorsSeq DEF DiskTyped
<1>8. SectorsOf(B, my_diskbuffer) = S
  BY DEF SectorsOf
<1> HIDE DEF S
<1>9. /\ B \in BioRequests /\ B.at = "sent" /\ B.sector = sector /\ B.pages = pages
      /\ B.data = data /\ B.next = 1 /\ B.during = {S}
  BY <1>3, <1>4, <1>7 DEF BioRequests
<1> HIDE DEF b, B
<1>10. /\ Fits(B) /\ Owned(u, B) /\ Met(B, my_diskbuffer)
       /\ Intact(B, cells) /\ Brought(B, cells) /\ BroughtAll(B, cells, blkDriver)
  <2>1. Fits(B)
    BY <1>1, <1>3, <1>9 DEF Fits
  <2>2. Owned(u, B)
    BY <1>9 DEF Owned
  <2>3. Met(B, my_diskbuffer)
    BY <1>8, <1>9 DEF Met
  <2>4. Intact(B, cells)
    BY <1>3, <1>5, <1>9 DEF Intact
  <2>5. Brought(B, cells)
    BY <1>9 DEF Brought
  <2>6. BroughtAll(B, cells, blkDriver)
    BY <1>9 DEF BroughtAll
  <2> QED
    BY <2>1, <2>2, <2>3, <2>4, <2>5, <2>6
<1>11. bio' \in [Users -> BioRequests] /\ bio'[u] = B /\ \A v \in Users \ {u} : bio'[v] = bio[v]
  BY <1>2, <1>9, <1>t DEF DiskTyped
<1>12. DiskTyped'
  <2>1. diskCalls' \in 0..DiskCalls
    <3>1. DiskCalls \in Nat
      BY DiskAssumption
    <3>2. diskCalls \in 0..DiskCalls
      BY <1>t DEF DiskTyped
    <3> QED
      BY <1>1, <3>1, <3>2
  <2> QED
    BY <1>1, <1>11, <1>t, <2>1 DEF DiskTyped
<1>13. \A v \in Users : BioSound(v)'
  BY <1>1, <1>10, <1>11 DEF DiskInv, BioSound
<1>14. ~scattered' => \A v \in Users : BioKept(v)'
  BY <1>1, <1>10, <1>11 DEF DiskInv, BioKept
<1>15. DriverThere'
  BY <1>1, <1>9, <1>11 DEF DiskInv, DriverThere
<1>16. LeftByBioDrivers' /\ WritesHold' /\ OthersKept'
  BY <1>1 DEF DiskInv, LeftByBioDrivers, WritesHold, OthersKept
<1> QED
  BY <1>12, <1>13, <1>14, <1>15, <1>16 DEF DiskInv

\* The default of the switch.
LEMMA MakeQueueFailsInv ==
  ASSUME DiskInv, NEW u \in Users, MakeQueueFails(u)
  PROVE  DiskInv'
<1> DEFINE b == bio[u]
           B == [b EXCEPT !.at = "EIO"]
<1>t. DiskTyped
  BY DEF DiskInv
<1>1. /\ blkDriver \in {"blk_mid", "blk_hard"} /\ b.at = "sent"
      /\ leftover' = leftover \cup {"page mapped"}
      /\ UNCHANGED <<blkDriver, my_diskbuffer, cells, diskCalls, diskLoads, hadBioDriver,
                     stored, scattered>>
  BY DEF MakeQueueFails
<1>2. bio' = [bio EXCEPT ![u] = B]
  BY <1>t DEF MakeQueueFails, Done, DiskTyped
<1>3. b \in BioRequests /\ Fits(b)
  BY <1>t DEF DiskInv, DiskTyped, BioSound
<1> HIDE DEF b
<1>4. /\ B \in BioRequests /\ B.at = "EIO" /\ B.sector = b.sector /\ B.pages = b.pages
      /\ B.next = b.next
  BY <1>3 DEF BioRequests
<1> HIDE DEF B
<1>5. /\ Fits(B) /\ Owned(u, B) /\ Met(B, my_diskbuffer)
      /\ Intact(B, cells) /\ Brought(B, cells) /\ BroughtAll(B, cells, blkDriver)
  BY <1>3, <1>4 DEF Fits, Owned, Met, Intact, Brought, BroughtAll
<1>6. bio' \in [Users -> BioRequests] /\ bio'[u] = B /\ \A v \in Users \ {u} : bio'[v] = bio[v]
  BY <1>2, <1>4, <1>t DEF DiskTyped
<1>7. DiskTyped'
  BY <1>1, <1>6, <1>t DEF DiskTyped
<1>8. \A v \in Users : BioSound(v)'
  BY <1>1, <1>5, <1>6 DEF DiskInv, BioSound
<1>9. ~scattered' => \A v \in Users : BioKept(v)'
  BY <1>1, <1>5, <1>6 DEF DiskInv, BioKept
<1>10. DriverThere' /\ LeftByBioDrivers' /\ WritesHold' /\ OthersKept'
  BY <1>1 DEF DiskInv, DriverThere, LeftByBioDrivers, WritesHold, OthersKept
<1> QED
  BY <1>7, <1>8, <1>9, <1>10 DEF DiskInv

\* Loading and unloading.
LEMMA DiskInitInv == DiskInit => DiskInv
<1> SUFFICES ASSUME DiskInit PROVE DiskInv
  OBVIOUS
<1> USE DEF DiskInit
<1>1. /\ NoBio \in BioRequests /\ NoBio.at = "none" /\ Fits(NoBio)
      /\ \A u \in Users : bio[u] = NoBio
  <2>1. <<>> \in Seq(1..Cells) /\ <<>> \in Seq(0..Cells) /\ Len(<<>>) = 0
    OBVIOUS
  <2>2. NoBio \in BioRequests /\ NoBio.at = "none"
    BY <2>1, DiskAssumption DEF NoBio, BioRequests
  <2>3. Fits(NoBio)
    BY <2>1, DiskAssumption DEF NoBio, Fits
  <2> QED
    BY <2>2, <2>3
<1>2. DiskTyped
  <2>1. Sectors \in Nat /\ Cells \in Nat /\ DiskCalls \in Nat /\ DiskLoads \in Nat
    BY DiskAssumption
  <2>2. my_diskbuffer \in Contents /\ cells \in Memory
    BY <2>1 DEF Contents, Memory, Zeroes
  <2>3. bio \in [Users -> BioRequests]
    BY <1>1
  <2>4. diskCalls \in 0..DiskCalls /\ diskLoads \in 0..DiskLoads
    BY <2>1
  <2> QED
    BY <2>2, <2>3, <2>4 DEF DiskTyped
<1>3. \A u \in Users : BioSound(u) /\ BioKept(u)
  BY <1>1 DEF BioSound, BioKept, Owned, Met, Intact, Brought, BroughtAll
<1>4. DriverThere /\ LeftByBioDrivers /\ WritesHold
  BY <1>1 DEF DriverThere, LeftByBioDrivers, WritesHold
<1>5. OthersKept
  BY DEF OthersKept
<1> QED
  BY <1>2, <1>3, <1>4, <1>5 DEF DiskInv

LEMMA BlkInitInv == ASSUME DiskInv, NEW d \in Drivers, my_blk_init(d) PROVE DiskInv'
<1> USE DEF my_blk_init
<1>t. DiskTyped /\ DriverThere /\ LeftByBioDrivers /\ OthersKept
  BY DEF DiskInv
<1>1. \A u \in Users : bio'[u] = bio[u] /\ bio'[u].at = "none"
  BY <1>t DEF DriverThere
<1>2. DiskTyped'
  <2>1. Zeroes \in Contents
    BY DiskAssumption DEF Zeroes, Contents
  <2>2. diskLoads' \in 0..DiskLoads
    <3>1. DiskLoads \in Nat
      BY DiskAssumption
    <3>2. diskLoads \in 0..DiskLoads
      BY <1>t DEF DiskTyped
    <3> QED
      BY <3>1, <3>2
  <2> QED
    BY <1>t, <2>1, <2>2 DEF DiskTyped
<1>3. \A u \in Users : BioSound(u)' /\ BioKept(u)'
  BY <1>1 DEF DiskInv, BioSound, BioKept, Owned, Met, Intact, Brought, BroughtAll
<1>4. DriverThere'
  BY <1>t, <1>1 DEF DriverThere, Drivers
<1>5. LeftByBioDrivers' /\ WritesHold' /\ OthersKept'
  BY <1>t DEF LeftByBioDrivers, WritesHold, OthersKept
<1> QED
  BY <1>2, <1>3, <1>4, <1>5 DEF DiskInv

LEMMA BlkExitInv == ASSUME DiskInv, my_blk_exit PROVE DiskInv'
<1> USE DEF my_blk_exit
<1>t. DiskTyped /\ DriverThere /\ LeftByBioDrivers /\ OthersKept /\ WritesHold
  BY DEF DiskInv
<1>1. /\ NoBio \in BioRequests /\ NoBio.at = "none" /\ Fits(NoBio)
      /\ bio' \in [Users -> BioRequests]
      /\ \A u \in Users : bio'[u] = NoBio
  <2>1. <<>> \in Seq(1..Cells) /\ <<>> \in Seq(0..Cells) /\ Len(<<>>) = 0
    OBVIOUS
  <2>2. NoBio \in BioRequests /\ NoBio.at = "none"
    BY <2>1, DiskAssumption DEF NoBio, BioRequests
  <2>3. Fits(NoBio)
    BY <2>1, DiskAssumption DEF NoBio, Fits
  <2> QED
    BY <2>2, <2>3
<1>2. DiskTyped'
  BY <1>t, <1>1 DEF DiskTyped
<1>3. \A u \in Users : BioSound(u)' /\ BioKept(u)'
  BY <1>1 DEF BioSound, BioKept, Owned, Met, Intact, Brought, BroughtAll
<1>4. DriverThere'
  BY <1>1 DEF DriverThere
<1>5. LeftByBioDrivers'
  BY <1>t DEF DiskTyped, DriverThere, LeftByBioDrivers, Drivers
<1>6. WritesHold' /\ OthersKept'
  BY <1>t DEF WritesHold, OthersKept
<1> QED
  BY <1>2, <1>3, <1>4, <1>5, <1>6 DEF DiskInv

-----------------------------------------------------------------------------
\* The requests after a step of user u's request, which is now B, while the disk
\* and the memory change.
LEMMA StepSound ==
  ASSUME DiskInv, NEW u \in Users, NEW B \in BioRequests, Fits(B), Owned(u, B),
         NEW bios, bios = [bio EXCEPT ![u] = B],
         my_diskbuffer' \in Contents, bio' = Witnessed(bios, my_diskbuffer')
  PROVE  /\ bio' \in [Users -> BioRequests] /\ \A v \in Users : BioSound(v)'
         /\ SameBut(bio'[u], B) /\ B.during \subseteq bio'[u].during
         /\ \A v \in Users \ {u} : /\ SameBut(bio'[v], bio[v])
                                   /\ bio[v].during \subseteq bio'[v].during
<1>1. bio \in [Users -> BioRequests] /\ \A v \in Users : Fits(bio[v]) /\ Owned(v, bio[v])
  BY DEF DiskInv, DiskTyped, BioSound
<1>2. /\ bios \in [Users -> BioRequests] /\ bios[u] = B
      /\ \A v \in Users \ {u} : bios[v] = bio[v]
  BY <1>1
<1>3. \A v \in Users : Fits(bios[v]) /\ Owned(v, bios[v])
  BY <1>1, <1>2
<1>4. \A v \in Users :
        /\ bio'[v] \in BioRequests /\ Fits(bio'[v]) /\ Owned(v, bio'[v])
        /\ Met(bio'[v], my_diskbuffer')
        /\ SameBut(bio'[v], bios[v]) /\ bios[v].during \subseteq bio'[v].during
  BY <1>2, <1>3, StillSound
<1>5. bio' = [v \in Users |-> bio'[v]]
  BY DEF Witnessed
<1>6. bio' \in [Users -> BioRequests]
  BY <1>4, <1>5
<1> QED
  BY <1>2, <1>4, <1>6 DEF BioSound

\* What follows for the memory when the others' pages are left alone.
LEMMA StepKept ==
  ASSUME DiskInv, NEW u \in Users, NEW B \in BioRequests, Fits(B),
         SameBut(bio'[u], B), B.during \subseteq bio'[u].during,
         \A v \in Users \ {u} : /\ SameBut(bio'[v], bio[v])
                                /\ bio[v].during \subseteq bio'[v].during,
         \A v \in Users : BioKept(v), blkDriver' = blkDriver,
         Intact(B, cells') /\ Brought(B, cells') /\ BroughtAll(B, cells', blkDriver),
         \A v \in Users \ {u} : bio[v].pages \in Pages[v] =>
           \A j \in 1..Len(bio[v].pages) : cells'[bio[v].pages[j]] = cells[bio[v].pages[j]]
  PROVE  \A v \in Users : BioKept(v)'
<1>1. BioKept(u)'
  <2>1. /\ Intact(bio'[u], cells') /\ Brought(bio'[u], cells')
        /\ BroughtAll(bio'[u], cells', blkDriver)
    BY MetMore
  <2> QED
    BY <2>1 DEF BioKept
<1>2. ASSUME NEW v \in Users \ {u}
      PROVE  BioKept(v)'
  <2>1. /\ Intact(bio'[v], cells') /\ Brought(bio'[v], cells')
        /\ BroughtAll(bio'[v], cells', blkDriver)
    BY OthersKeep
  <2> QED
    BY <2>1 DEF BioKept
<1> QED
  BY <1>1, <1>2

\* Requests keep their place with the driver.
LEMMA StepDriver ==
  ASSUME DiskInv, NEW u \in Users, NEW B, SameBut(bio'[u], B),
         blkDriver # "none", UNCHANGED <<blkDriver, hadBioDriver>>,
         blkDriver = "blk_simp" => B.at # "sent",
         \A v \in Users \ {u} : SameBut(bio'[v], bio[v])
  PROVE  DriverThere'
  BY DEF DiskInv, DriverThere, SameBut

\* One round of my_make_queue, which blk_mid and blk_hard have.
LEMMA MakeQueueInv == ASSUME DiskInv, NEW u \in Users, my_make_queue(u) PROVE DiskInv'
<1> DEFINE b == bio[u]
           n == b.next
           i == AtSector(b, n)
           c == b.pages[n]
           last == n = Len(b.pages)
           at == IF last THEN "done" ELSE "sent"
           B == [b EXCEPT !.next = n + 1, !.at = at]
           bios == [bio EXCEPT ![u] = B]
<1>t. DiskTyped /\ DriverThere /\ LeftByBioDrivers /\ OthersKept /\ WritesHold
  BY DEF DiskInv
<1>1. /\ blkDriver \in {"blk_mid", "blk_hard"} /\ b.at = "sent"
      /\ UNCHANGED <<blkDriver, diskCalls, diskLoads, leftover, hadBioDriver, scattered>>
  BY DEF my_make_queue
<1>2. bio' = Witnessed(bios, my_diskbuffer')
  <2>1. [bio EXCEPT ![u].next = @ + 1,
                    ![u].at = IF b.next = Len(b.pages) THEN "done" ELSE "sent"] = bios
    BY <1>t DEF DiskTyped, BioRequests
  <2> QED
    BY <2>1 DEF my_make_queue
<1>w. b.rw = "WRITE" => /\ my_diskbuffer' = [my_diskbuffer EXCEPT ![i] = cells[c]]
                        /\ stored' = Noted(b, n, n) /\ cells' = cells
  BY DEF my_make_queue
<1>r. b.rw # "WRITE" => /\ cells' = [cells EXCEPT ![c] = my_diskbuffer[i]]
                        /\ my_diskbuffer' = my_diskbuffer /\ stored' = stored
  BY DEF my_make_queue
<1>3. /\ b \in BioRequests /\ b.pages \in Pages[u] /\ b.pages \in Seq(1..Cells)
      /\ Len(b.pages) \in Nat /\ DOMAIN b.pages = 1..Len(b.pages)
      /\ n \in 1..Len(b.pages)
      /\ \A j \in 1..Len(b.pages) : b.pages[j] \in 1..Cells
      /\ \A j \in 1..Len(b.pages) : AtSector(b, j) \in 1..Sectors
      /\ SectorsOf(b, my_diskbuffer)[n] = my_diskbuffer[i]
      /\ SectorsOf(b, my_diskbuffer) \in b.during
  BY <1>1, SentIs
<1>4. \A j, k \in 1..Len(b.pages) : j # k => b.pages[j] # b.pages[k]
  BY <1>3, PagesOf
<1>5. ~scattered => Intact(b, cells) /\ Brought(b, cells)
  BY DEF DiskInv, BioKept
<1>6. Fits(b)
  BY DEF DiskInv, BioSound
<1>7. \A v \in Users \ {u} : bio[v].pages \in Pages[v] =>
        \A j \in 1..Len(bio[v].pages) : bio[v].pages[j] # c
  BY <1>3, PagesApart
<1>8. bio[u] = b
  OBVIOUS
<1> HIDE DEF b
<1>a. at \in {"done", "sent"} /\ (last => at = "done") /\ (at = "done" => last) /\ n + 1 \in Nat
  BY <1>3
<1> HIDE DEF at
<1>9. /\ B \in BioRequests /\ B.next = n + 1 /\ B.rw = b.rw /\ B.sector = b.sector
      /\ B.pages = b.pages /\ B.data = b.data /\ B.during = b.during
      /\ B.at = at
  BY <1>3, <1>a DEF BioRequests
<1> HIDE DEF B
<1>10. Fits(B) /\ Owned(u, B)
  BY <1>1, <1>3, <1>6, <1>9, <1>a DEF Fits, Owned
<1>11. i \in 1..Sectors /\ c \in 1..Cells
  BY <1>3
<1>12. my_diskbuffer' \in Contents /\ cells' \in Memory
  BY <1>t, <1>w, <1>r, <1>11 DEF DiskTyped, Contents, Memory
<1>13. /\ bio' \in [Users -> BioRequests] /\ \A v \in Users : BioSound(v)'
       /\ SameBut(bio'[u], B) /\ B.during \subseteq bio'[u].during
       /\ \A v \in Users \ {u} : /\ SameBut(bio'[v], bio[v])
                                 /\ bio[v].during \subseteq bio'[v].during
  BY <1>2, <1>9, <1>10, <1>12, StepSound
<1>14. DiskTyped'
  BY <1>t, <1>1, <1>12, <1>13 DEF DiskTyped
<1>15. DriverThere'
  BY <1>1, <1>13, StepDriver
<1>16. ASSUME ~scattered'
       PROVE  WritesHold' /\ OthersKept' /\ \A v \in Users : BioKept(v)'
  <2>1. ~scattered
    BY <1>1, <1>16
  <2>2. CASE b.rw = "WRITE"
    <3>1. cells[c] = b.data[n]
      BY <1>1, <1>3, <1>5, <2>1, <2>2 DEF Intact
    <3>2. WritesHold'
      <4>1. my_diskbuffer = stored /\ my_diskbuffer \in Contents
        BY <1>t, <2>1 DEF WritesHold, DiskTyped
      <4>2. \A k \in 1..Sectors : k - b.sector + 1 \in n..n <=> k = i
        BY <1>3 DEF AtSector, BioRequests
      <4>3. \A k \in 1..Sectors : k = i => k - b.sector + 1 = n
        BY <1>3 DEF AtSector, BioRequests
      <4>4. my_diskbuffer' = [k \in 1..Sectors |-> IF k = i THEN b.data[n] ELSE stored[k]]
        BY <1>w, <1>11, <2>2, <3>1, <4>1 DEF Contents
      <4>5. stored' = [k \in 1..Sectors |-> IF k = i THEN b.data[n] ELSE stored[k]]
        BY <1>w, <2>2, <4>2, <4>3 DEF Noted
      <4> QED
        BY <4>4, <4>5 DEF WritesHold
    <3>3. OthersKept'
      BY <1>t, <1>w, <2>1, <2>2 DEF OthersKept
    <3>4. Intact(B, cells')
      BY <1>1, <1>3, <1>5, <1>9, <1>a, <1>w, <2>1, <2>2 DEF Intact
    <3>5. Brought(B, cells') /\ BroughtAll(B, cells', blkDriver)
      BY <1>9, <2>2 DEF Brought, BroughtAll
    <3>6. \A v \in Users : BioKept(v)
      BY <2>1 DEF DiskInv
    <3>7. \A v \in Users : BioKept(v)'
      BY <1>1, <1>9, <1>10, <1>13, <1>w, <2>2, <3>4, <3>5, <3>6, StepKept
    <3> QED
      BY <3>2, <3>3, <3>7
  <2>3. CASE b.rw # "WRITE"
    <3>1. /\ cells' \in Memory /\ cells'[c] = my_diskbuffer[i]
          /\ \A k \in 1..Cells : k # c => cells'[k] = cells[k]
      BY <1>t, <1>r, <1>11, <1>12, <2>3 DEF DiskTyped, Memory
    <3>2. WritesHold'
      BY <1>t, <1>r, <2>1, <2>3 DEF WritesHold
    <3>3. OthersKept'
      <4>1. ASSUME NEW k \in 1..Cells,
                   \A v \in Users : \A pages \in Pages[v] : \A j \in DOMAIN pages :
                     pages[j] # k
            PROVE  cells'[k] = k
        <5>1. k # c
          BY <1>3, <4>1
        <5> QED
          BY <1>t, <2>1, <3>1, <4>1, <5>1 DEF OthersKept
      <4> QED
        BY <4>1 DEF OthersKept
    <3>4. Intact(B, cells')
      BY <1>9, <2>3 DEF Intact
    <3>5. \A j \in 1..n : \E seen \in B.during : cells'[B.pages[j]] = seen[j]
      <4>1. ASSUME NEW j \in 1..n, j # n
            PROVE  \E seen \in b.during : cells'[b.pages[j]] = seen[j]
        <5>1. j \in 1 .. n - 1 /\ j \in 1..Len(b.pages)
          BY <1>3, <4>1
        <5>2. cells'[b.pages[j]] = cells[b.pages[j]]
          BY <1>3, <1>4, <3>1, <4>1, <5>1
        <5> QED
          BY <1>1, <1>5, <2>1, <2>3, <5>1, <5>2 DEF Brought
      <4>2. \E seen \in b.during : cells'[b.pages[n]] = seen[n]
        BY <1>3, <3>1
      <4> QED
        BY <1>9, <4>1, <4>2
    <3>6. Brought(B, cells')
      <4>1. B.next - 1 = n
        BY <1>3, <1>9
      <4> QED
        BY <3>5, <4>1 DEF Brought
    <3>7. BroughtAll(B, cells', blkDriver)
      BY <1>1, <1>3, <1>9, <1>a, <3>5 DEF BroughtAll
    <3>8. \A v \in Users \ {u} : bio[v].pages \in Pages[v] =>
            \A j \in 1..Len(bio[v].pages) : cells'[bio[v].pages[j]] = cells[bio[v].pages[j]]
      BY <1>7, <3>1, PagesOf
    <3>9. \A v \in Users : BioKept(v)
      BY <2>1 DEF DiskInv
    <3>10. \A v \in Users : BioKept(v)'
      BY <1>1, <1>9, <1>10, <1>13, <3>4, <3>6, <3>7, <3>8, <3>9, StepKept
    <3> QED
      BY <3>2, <3>3, <3>10
  <2> QED
    BY <2>2, <2>3
<1>17. LeftByBioDrivers'
  BY <1>t, <1>1 DEF LeftByBioDrivers
<1>18. scattered' => WritesHold' /\ OthersKept'
  BY DEF WritesHold, OthersKept
<1> QED
  BY <1>13, <1>14, <1>15, <1>16, <1>17, <1>18 DEF DiskInv

\* One request of my_do_queue, which blk_simp has.
LEMMA DoQueueInv == ASSUME DiskInv, NEW u \in Users, my_do_queue(u) PROVE DiskInv'
<1> DEFINE b == bio[u]
           n == Len(b.pages)
           B == [b EXCEPT !.at = "done"]
           bios == [bio EXCEPT ![u] = B]
           S == SectorsOf(b, my_diskbuffer)
<1>t. DiskTyped /\ DriverThere /\ LeftByBioDrivers /\ OthersKept /\ WritesHold
  BY DEF DiskInv
<1>1. /\ blkDriver = "blk_simp" /\ b.at = "sent"
      /\ scattered' = (scattered \/ ~Adjoining(b.pages))
      /\ UNCHANGED <<blkDriver, diskCalls, diskLoads, leftover, hadBioDriver>>
  BY DEF my_do_queue
<1>2. bio' = Witnessed(bios, my_diskbuffer')
  <2>1. Done(u, bio, "done") = bios
    BY <1>t DEF DiskTyped, BioRequests, Done
  <2> QED
    BY <2>1 DEF my_do_queue
<1>w. b.rw = "WRITE" =>
        /\ my_diskbuffer' = [i \in 1..Sectors |->
             IF \E j \in 1..n : AtSector(b, j) = i
             THEN cells[b.pages[1] + (CHOOSE j \in 1..n : AtSector(b, j) = i) - 1]
             ELSE my_diskbuffer[i]]
        /\ stored' = Noted(b, 1, n) /\ cells' = cells
  BY DEF my_do_queue
<1>r. b.rw # "WRITE" =>
        /\ cells' = [c \in 1..Cells |->
             IF c - b.pages[1] + 1 \in 1..n
             THEN my_diskbuffer[AtSector(b, c - b.pages[1] + 1)] ELSE cells[c]]
        /\ my_diskbuffer' = my_diskbuffer /\ stored' = stored
  BY DEF my_do_queue
<1>3. /\ b \in BioRequests /\ b.pages \in Pages[u] /\ b.pages \in Seq(1..Cells)
      /\ n \in Nat /\ DOMAIN b.pages = 1..n
      /\ \A j \in 1..n : b.pages[j] \in 1..Cells
      /\ \A j \in 1..n : AtSector(b, j) \in 1..Sectors
      /\ \A j \in 1..n : S[j] = my_diskbuffer[AtSector(b, j)]
      /\ S \in b.during
  BY <1>1, SentIs
<1>4. b.pages[1] \in 1..Cells /\ b.pages[1] + n - 1 <= Cells
  BY <1>3, PagesOf
<1>5. ~scattered => Intact(b, cells) /\ b.next = 1
  BY <1>1, <1>t DEF DiskInv, BioKept, DriverThere
<1>6. Fits(b)
  BY DEF DiskInv, BioSound
<1>7. \A v \in Users \ {u} : bio[v].pages \in Pages[v] =>
        \A j \in 1..Len(bio[v].pages) : \A k \in 1..n : bio[v].pages[j] # b.pages[k]
  BY <1>3, PagesApart
<1>8. S = [j \in DOMAIN b.pages |-> my_diskbuffer[b.sector + j - 1]]
  BY DEF SectorsOf
<1>9. Adjoining(b.pages) => \A j \in 1..n : b.pages[j] = b.pages[1] + j - 1
  BY <1>3 DEF Adjoining
<1>10. b.sector \in 1..Sectors /\ Sectors \in Nat /\ Cells \in Nat
  BY <1>3, DiskAssumption DEF BioRequests
<1>11. \A j \in 1..n : AtSector(b, j) = b.sector + j - 1
  BY DEF AtSector
<1> HIDE DEF b, S
<1>12. /\ B \in BioRequests /\ B.next = b.next /\ B.rw = b.rw /\ B.sector = b.sector
       /\ B.pages = b.pages /\ B.data = b.data /\ B.during = b.during /\ B.at = "done"
  BY <1>3 DEF BioRequests
<1> HIDE DEF B, n
<1>13. Fits(B) /\ Owned(u, B)
  BY <1>1, <1>3, <1>6, <1>12 DEF Fits, Owned
<1>14. my_diskbuffer' \in Contents /\ cells' \in Memory
  <2>1. CASE b.rw = "WRITE"
    <3>1. ASSUME NEW i \in 1..Sectors, \E j \in 1..n : AtSector(b, j) = i
          PROVE  cells[b.pages[1] + (CHOOSE j \in 1..n : AtSector(b, j) = i) - 1] \in 0..Cells
      <4> DEFINE j == CHOOSE j \in 1..n : AtSector(b, j) = i
      <4>1. j \in 1..n
        BY <3>1
      <4> HIDE DEF j
      <4>2. b.pages[1] + j - 1 \in 1..Cells
        BY <1>3, <1>4, <1>10, <4>1
      <4>3. cells[b.pages[1] + j - 1] \in 0..Cells
        BY <1>t, <4>2 DEF DiskTyped, Memory
      <4> QED
        BY <4>3 DEF j
    <3>2. \A i \in 1..Sectors : my_diskbuffer[i] \in 0..Cells
      BY <1>t DEF DiskTyped, Contents
    <3> QED
      BY <1>t, <1>w, <2>1, <3>1, <3>2 DEF DiskTyped, Contents
  <2>2. CASE b.rw # "WRITE"
    <3>1. \A c \in 1..Cells : c - b.pages[1] + 1 \in 1..n =>
            my_diskbuffer[AtSector(b, c - b.pages[1] + 1)] \in 0..Cells
      BY <1>t, <1>3 DEF DiskTyped, Contents
    <3>2. \A c \in 1..Cells : cells[c] \in 0..Cells
      BY <1>t DEF DiskTyped, Memory
    <3> QED
      BY <1>t, <1>r, <2>2, <3>1, <3>2 DEF DiskTyped, Memory
  <2> QED
    BY <2>1, <2>2
<1>15. /\ bio' \in [Users -> BioRequests] /\ \A v \in Users : BioSound(v)'
       /\ SameBut(bio'[u], B) /\ B.during \subseteq bio'[u].during
       /\ \A v \in Users \ {u} : /\ SameBut(bio'[v], bio[v])
                                 /\ bio[v].during \subseteq bio'[v].during
  BY <1>2, <1>12, <1>13, <1>14, StepSound
<1>16. DiskTyped'
  BY <1>t, <1>1, <1>14, <1>15 DEF DiskTyped
<1>17. DriverThere'
  BY <1>1, <1>12, <1>15, StepDriver
<1>18. ASSUME ~scattered'
       PROVE  WritesHold' /\ OthersKept' /\ \A v \in Users : BioKept(v)'
  <2>1. ~scattered /\ \A j \in 1..n : b.pages[j] = b.pages[1] + j - 1
    BY <1>1, <1>9, <1>18
  <2>2. Intact(B, cells') /\ Brought(B, cells')
    BY <1>12 DEF Intact, Brought
  <2>3. \A v \in Users : BioKept(v)
    BY <2>1 DEF DiskInv
  <2>4. CASE b.rw = "WRITE"
    <3>1. \A j \in 1..n : b.data[j] = cells[b.pages[j]]
      BY <1>1, <1>5, <2>1, <2>4 DEF Intact, n
    <3>2. WritesHold'
      <4>1. ASSUME NEW i \in 1..Sectors
            PROVE  my_diskbuffer'[i] = stored'[i]
        <5>1. my_diskbuffer[i] = stored[i]
          BY <1>t, <2>1 DEF WritesHold
        <5>2. stored'[i] = IF i - b.sector + 1 \in 1..n
                           THEN b.data[i - b.sector + 1] ELSE stored[i]
          BY <1>w, <2>4 DEF Noted
        <5>3. CASE \E j \in 1..n : AtSector(b, j) = i
          <6> DEFINE j == CHOOSE j \in 1..n : AtSector(b, j) = i
          <6>1. j \in 1..n /\ AtSector(b, j) = i
            BY <5>3
          <6>2. my_diskbuffer'[i] = cells[b.pages[1] + j - 1]
            BY <1>w, <2>4, <5>3
          <6> HIDE DEF j
          <6>3. j = i - b.sector + 1
            BY <1>3, <1>10, <1>11, <6>1
          <6>4. my_diskbuffer'[i] = b.data[j]
            BY <2>1, <3>1, <6>1, <6>2
          <6> QED
            BY <5>2, <6>1, <6>3, <6>4
        <5>4. CASE ~\E j \in 1..n : AtSector(b, j) = i
          <6>1. i - b.sector + 1 \notin 1..n
            BY <1>3, <1>10, <5>4 DEF AtSector
          <6> QED
            BY <1>w, <2>4, <5>1, <5>2, <5>4, <6>1
        <5> QED
          BY <5>3, <5>4
      <4>2. my_diskbuffer' = [i \in 1..Sectors |-> my_diskbuffer'[i]]
        BY <1>14 DEF Contents
      <4>3. stored' = [i \in 1..Sectors |-> stored'[i]]
        BY <1>w, <2>4 DEF Noted
      <4> QED
        BY <4>1, <4>2, <4>3 DEF WritesHold
    <3>3. OthersKept'
      BY <1>t, <1>w, <2>1, <2>4 DEF OthersKept
    <3>4. BroughtAll(B, cells', blkDriver)
      BY <1>12, <2>4 DEF BroughtAll
    <3>5. \A v \in Users : BioKept(v)'
      BY <1>1, <1>12, <1>13, <1>15, <1>w, <2>2, <2>3, <2>4, <3>4, StepKept
    <3> QED
      BY <3>2, <3>3, <3>5
  <2>5. CASE b.rw # "WRITE"
    <3>1. \A j \in 1..n : cells'[b.pages[j]] = S[j]
      <4>1. ASSUME NEW j \in 1..n
            PROVE  cells'[b.pages[j]] = S[j]
        <5>1. b.pages[j] \in 1..Cells /\ b.pages[j] - b.pages[1] + 1 = j
          <6>1. b.pages[j] \in 1..Cells
            BY <1>3
          <6>2. b.pages[j] = b.pages[1] + j - 1
            BY <2>1
          <6>3. b.pages[1] \in Int /\ j \in Int
            BY <1>4
          <6> QED
            BY <6>1, <6>2, <6>3
        <5>2. cells'[b.pages[j]] = my_diskbuffer[AtSector(b, j)]
          BY <1>r, <2>5, <5>1
        <5> QED
          BY <1>3, <5>2
      <4> QED
        BY <4>1
    <3>2. ASSUME NEW c \in 1..Cells, \A k \in 1..n : b.pages[k] # c
          PROVE  cells'[c] = cells[c]
      <4>1. c - b.pages[1] + 1 \notin 1..n
        <5>1. SUFFICES ASSUME c - b.pages[1] + 1 \in 1..n
                       PROVE  FALSE
          OBVIOUS
        <5>2. b.pages[c - b.pages[1] + 1] = b.pages[1] + (c - b.pages[1] + 1) - 1
          BY <2>1, <5>1
        <5>3. b.pages[1] + (c - b.pages[1] + 1) - 1 = c
          BY <1>4
        <5> QED
          BY <3>2, <5>1, <5>2, <5>3
      <4> QED
        BY <1>r, <2>5, <4>1
    <3>3. WritesHold'
      BY <1>t, <1>r, <2>1, <2>5 DEF WritesHold
    <3>4. OthersKept'
      <4>1. ASSUME NEW k \in 1..Cells,
                   \A v \in Users : \A pages \in Pages[v] : \A j \in DOMAIN pages :
                     pages[j] # k
            PROVE  cells'[k] = k
        <5>1. \A j \in 1..n : b.pages[j] # k
          BY <1>3, <4>1
        <5> QED
          BY <1>t, <2>1, <3>2, <4>1, <5>1 DEF OthersKept
      <4> QED
        BY <4>1 DEF OthersKept
    <3>5. BroughtAll(B, cells', blkDriver)
      <4>1. [j \in DOMAIN b.pages |-> cells'[b.pages[j]]] = S
        BY <1>3, <1>8, <1>11, <3>1
      <4> QED
        BY <1>1, <1>3, <1>12, <4>1 DEF BroughtAll
    <3>6. ASSUME NEW v \in Users \ {u}, bio[v].pages \in Pages[v],
                 NEW j \in 1..Len(bio[v].pages)
          PROVE  cells'[bio[v].pages[j]] = cells[bio[v].pages[j]]
      <4>1. bio[v].pages[j] \in 1..Cells
        BY <3>6, PagesOf
      <4> QED
        BY <1>7, <3>2, <3>6, <4>1
    <3>7. \A v \in Users : BioKept(v)'
      BY <1>1, <1>12, <1>13, <1>15, <2>2, <2>3, <3>5, <3>6, StepKept
    <3> QED
      BY <3>3, <3>4, <3>7
  <2> QED
    BY <2>4, <2>5
<1>19. LeftByBioDrivers'
  BY <1>t, <1>1 DEF LeftByBioDrivers
<1>20. scattered' => WritesHold' /\ OthersKept'
  BY DEF WritesHold, OthersKept
<1> QED
  BY <1>15, <1>16, <1>17, <1>18, <1>19, <1>20 DEF DiskInv

LEMMA DiskNextInv == DiskInv /\ DiskNext => DiskInv'
  BY SendBioInv, DoQueueInv, MakeQueueInv, MakeQueueFailsInv, BlkInitInv, BlkExitInv
  DEF DiskNext

LEMMA DiskRests == DiskInv /\ UNCHANGED diskVars => DiskInv'
<1> SUFFICES ASSUME DiskInv, UNCHANGED diskVars PROVE DiskInv'
  OBVIOUS
<1> USE DEF diskVars
<1>1. DiskTyped' /\ DriverThere' /\ LeftByBioDrivers' /\ WritesHold' /\ OthersKept'
  BY DEF DiskInv, DiskTyped, DriverThere, LeftByBioDrivers, WritesHold, OthersKept
<1>2. \A u \in Users : BioSound(u)'
  BY DEF DiskInv, BioSound
<1>3. ~scattered' => \A u \in Users : BioKept(u)'
  BY DEF DiskInv, BioKept
<1> QED
  BY <1>1, <1>2, <1>3 DEF DiskInv

LEMMA DiskGood == DiskInv => DiskTypeOK /\ DiskKeepsData
<1> SUFFICES ASSUME DiskInv PROVE DiskTypeOK /\ DiskKeepsData
  OBVIOUS
<1>1. DiskTyped /\ \A u \in Users : bio[u] \in BioRequests /\ Fits(bio[u])
  BY DEF DiskInv, DiskTyped, BioSound
<1>2. DiskTypeOK
  <2>1. \A u \in Users : bio[u].at \in {"none", "sent", "done", "EIO"}
    BY <1>1 DEF BioRequests
  <2>2. \A u \in Users : bio[u].next \in 1 .. Len(bio[u].pages) + 1
    BY <1>1 DEF Fits
  <2> QED
    BY <1>1, <2>1, <2>2 DEF DiskTyped, DiskTypeOK, Contents, Memory
<1>3. ReadsHold
  <2>1. ~scattered => \A u \in Users : BroughtAll(bio[u], cells, blkDriver)
    BY DEF DiskInv, BioKept
  <2> QED
    BY <2>1 DEF BroughtAll, ReadsHold
<1> QED
  BY <1>2, <1>3 DEF DiskInv, DiskKeepsData

-----------------------------------------------------------------------------
(* The DMA driver.                                                         *)

Busy(p) == caller[p] \in {"switch", "wait", "asleep", "awake", "compare"}
Waits(p) == caller[p] \in {"wait", "asleep", "awake"}

\* Who is inside my_ioctl and does not sleep holds the big kernel lock, ...
LockHeld == \A p \in Callers : caller[p] \in {"switch", "wait", "compare"} => bkl = p

\* ... the buffers and the interrupt are there from where init has got them, ...
Prepared == /\ dmaAt \in {"none", "node"} => memory = "none"
            /\ dmaAt \in {"memory", "irq", "loaded"} => memory \in {"live", "null"}
            /\ dmaAt \in {"irq", "loaded"} => irqOn

\* ... nobody gets past the memset with a buffer that is NULL, ...
Filled == \A p \in Callers : Busy(p) /\ dmaFault = {} => memory \in {"live", "freed"}

\* ... a file is open only while the module is loaded, unless it was opened early,
\* and a transfer is started only then, ...
OpenLoaded == ~early => \A p \in Callers : caller[p] # "out" => dmaAt = "loaded"
WaitsLoaded == \A p \in Callers : Waits(p) => /\ cmd[p] = "MEM_DMA"
                                              /\ dmaFault = {} => dmaAt = "loaded"
MovesLoaded == dmaFault = {} /\ moving # Stopped => dmaAt \in {"loaded", "stopping", "gone"}

\* ... what the processor has copied stays copied while its caller compares, ...
CpuCopied == \A p \in Callers : caller[p] = "compare" /\ cmd[p] = "MEM_NO_DMA" =>
               my_dst = Copied

\* ... and as long as nobody interferes there is one call at a time, and the channel
\* moves for it alone: it is stopped when the call has not begun or has its bytes.
OneCall == \A p, q \in Callers : Busy(p) /\ Busy(q) => p = q
MovesForIt == moving # Stopped =>
                /\ ~expert
                /\ \E p \in Callers : caller[p] \in {"wait", "asleep"}
                /\ \A i \in 1..moving : my_dst[i] = TRUE
HasBytes == \A p \in Callers :
              /\ Waits(p) /\ moving = Stopped => expert /\ my_dst = Copied
              /\ caller[p] = "compare" => my_dst = Copied
              /\ caller[p] = "switch" => ~expert
Undisturbed == dmaFault = {} /\ ~interfered => OneCall /\ MovesForIt /\ HasBytes /\ ~again

DmaInv == /\ DmaTypeOK /\ LockHeld /\ Prepared /\ Filled /\ OpenLoaded /\ WaitsLoaded
          /\ MovesLoaded /\ CpuCopied /\ Undisturbed /\ ErrorsExplained /\ DmaFaultsExplained

\* The parts of the type invariant, for the steps that touch one of them.
TypedLoads ==
  /\ dmaAt \in {"none", "node", "memory", "irq", "loaded", "failed", "stopping", "gone"}
  /\ dmaNode \in {"none", "there", "missing", "no class"}
  /\ memory \in {"none", "live", "null", "freed"} /\ irqOn \in BOOLEAN
TypedCalls ==
  /\ caller \in [Callers -> {"out", "open", "switch", "wait", "asleep", "awake",
                             "compare"}]
  /\ cmd \in [Callers -> Cmds]
  /\ bkl \in Callers \cup {NoCaller} /\ calls \in 0..DmaCalls
TypedMoves ==
  /\ my_dst \in [1..Units -> BOOLEAN] /\ expert \in BOOLEAN
  /\ moving \in 0..Units \cup {Stopped} /\ again \in BOOLEAN
  /\ results \subseteq Cmds \X {"OK", "ERROR"}
  /\ interfered \in BOOLEAN /\ early \in BOOLEAN

LEMMA DmaTypes == DmaTypeOK <=> TypedLoads /\ TypedCalls /\ TypedMoves
  BY DEF DmaTypeOK, TypedLoads, TypedCalls, TypedMoves

LEMMA SomeUnits == Units \in Nat /\ Units > 0 /\ 0 \in 0..Units
  BY DmaAssumption

LEMMA NotStopped == \A i \in Nat : i # Stopped
  BY DEF Stopped

LEMMA DmaInitInv == DmaInit => DmaInv
<1> SUFFICES ASSUME DmaInit PROVE DmaInv
  OBVIOUS
<1> USE DEF DmaInit
<1>1. DmaTypeOK
  <2>1. calls \in 0..DmaCalls
    BY DmaAssumption
  <2>2. my_dst \in [1..Units -> BOOLEAN]
    BY DEF Reset
  <2> QED
    BY <2>1, <2>2 DEF DmaTypeOK, Cmds
<1>2. LockHeld /\ Prepared /\ OpenLoaded /\ WaitsLoaded /\ MovesLoaded /\ CpuCopied
  BY DEF LockHeld, Prepared, OpenLoaded, WaitsLoaded, Waits, MovesLoaded, CpuCopied
<1>3. Undisturbed
  BY DEF Undisturbed, OneCall, MovesForIt, HasBytes, Busy, Waits
<1>4. ErrorsExplained /\ DmaFaultsExplained
  BY DEF ErrorsExplained, DmaFaultsExplained
<1>b. Filled
  BY DEF Filled, Busy
<1> QED
  BY <1>1, <1>2, <1>3, <1>4, <1>b DEF DmaInv

\* The channel.
LEMMA MoveUnitInv == ASSUME DmaInv, dmaFault = {}, MoveUnit PROVE DmaInv'
<1>t. DmaTypeOK
  BY DEF DmaInv
<1>0. moving \in 0 .. Units - 1 /\ moving' = moving + 1
  BY DEF MoveUnit
<1>1. /\ moving \in 0 .. Units - 1 /\ moving + 1 \in 1..Units /\ moving # Stopped
      /\ moving' # Stopped /\ Units \in Nat /\ moving' \in 0..Units
  BY <1>0, SomeUnits DEF Stopped
<1>i. ASSUME NEW i \in 1..moving'
      PROVE  i \in 1..Units /\ (i = moving + 1 \/ i \in 1..moving)
  <2>1. i \in 1 .. moving + 1 /\ moving \in Int /\ moving <= Units - 1
    BY <1>0, <1>1
  <2> QED
    BY <1>1, <2>1
<1> USE DEF MoveUnit, loadVars, callVars, noteVars, DmaFaulty
<1>2. DmaTypeOK'
  <2>1. my_dst' \in [1..Units -> BOOLEAN]
    BY <1>t, <1>1 DEF DmaTypeOK
  <2>2. TypedLoads' /\ TypedCalls'
    BY <1>t, DmaTypes DEF TypedLoads, TypedCalls
  <2>3. TypedMoves'
    BY <1>t, <1>1, <2>1, DmaTypes DEF TypedMoves
  <2> QED
    BY <2>2, <2>3 DEF DmaTypeOK, TypedLoads, TypedCalls, TypedMoves
<1>3. my_dst = Copied => my_dst' = Copied
  BY <1>1 DEF Copied
<1>4. LockHeld' /\ Prepared' /\ OpenLoaded' /\ WaitsLoaded' /\ MovesLoaded'
  BY <1>1 DEF DmaInv, LockHeld, Prepared, OpenLoaded, WaitsLoaded, Waits, MovesLoaded
<1>5. CpuCopied'
  BY <1>3 DEF DmaInv, CpuCopied
<1>6. Undisturbed'
  <2> SUFFICES ASSUME ~interfered PROVE (OneCall /\ MovesForIt /\ HasBytes /\ ~again)'
    BY DEF Undisturbed
  <2>1. OneCall /\ MovesForIt /\ HasBytes /\ ~again
    BY DEF DmaInv, Undisturbed
  <2>2. MovesForIt'
    <3>2. my_dst \in [1..Units -> BOOLEAN] /\ my_dst' = [my_dst EXCEPT ![moving + 1] = TRUE]
      BY <1>t DEF DmaTypeOK
    <3>3. \A i \in 1..moving : my_dst[i] = TRUE
      BY <1>1, <2>1 DEF MovesForIt
    <3>4. \A i \in 1..moving' : my_dst'[i] = TRUE
      BY <1>i, <3>2, <3>3
    <3> QED
      BY <1>1, <2>1, <3>4 DEF MovesForIt
  <2>3. HasBytes'
    BY <1>1, <1>3, <2>1 DEF HasBytes, Waits
  <2> QED
    BY <2>1, <2>2, <2>3 DEF OneCall, Busy
<1>7. ErrorsExplained'
  BY DEF DmaInv, ErrorsExplained
<1>8. DmaFaultsExplained'
  <2>1. CASE interfered \/ memory = "live"
    BY <2>1 DEF DmaFaultsExplained
  <2>2. CASE ~interfered /\ memory # "live"
    <3>1. \E p \in Callers : caller[p] \in {"wait", "asleep"}
      BY <1>1, <2>2 DEF DmaInv, Undisturbed, MovesForIt
    <3>2. dmaAt = "loaded"
      BY <3>1 DEF DmaInv, WaitsLoaded, Waits
    <3> QED
      BY <2>2, <3>1, <3>2 DEF DmaInv, Prepared, Filled, Busy
  <2> QED
    BY <2>1, <2>2
<1>b. Filled'
  BY DEF DmaInv, Filled, Busy
<1> QED
  BY <1>2, <1>4, <1>5, <1>6, <1>7, <1>8, <1>b DEF DmaInv

LEMMA DmaFuncInv == ASSUME DmaInv, dmaFault = {}, my_dma_func PROVE DmaInv'
<1>t. DmaTypeOK
  BY DEF DmaInv
<1>0. moving = Units
  BY DEF my_dma_func
<1>1. moving = Units /\ Units \in Nat /\ moving # Stopped
  BY <1>0, SomeUnits DEF Stopped
<1> USE DEF my_dma_func, loadVars, noteVars, DmaFaulty
<1>2. dmaFault' = {}
  BY <1>1 DEF DmaInv, MovesLoaded
<1>3. \A p \in Callers : \/ caller'[p] = caller[p]
                         \/ caller[p] = "asleep" /\ caller'[p] = "awake"
  BY DEF Sleeping
<1>4. DmaTypeOK'
  <2>1. caller' \in [Callers -> {"out", "open", "switch", "wait", "asleep", "awake",
                                 "compare"}]
    BY <1>t DEF DmaTypeOK, Sleeping
  <2>2. moving' \in 0..Units \cup {Stopped} /\ again' \in BOOLEAN /\ expert' \in BOOLEAN
    BY <1>t, <1>1, SomeUnits DEF DmaTypeOK
  <2> QED
    BY <1>t, <2>1, <2>2 DEF DmaTypeOK
<1>5. LockHeld' /\ Prepared' /\ OpenLoaded' /\ WaitsLoaded' /\ MovesLoaded'
  <2>1. MovesLoaded'
    BY <1>1, <1>2 DEF DmaInv, MovesLoaded
  <2>2. WaitsLoaded'
    BY <1>2, <1>3 DEF DmaInv, WaitsLoaded, Waits
  <2>3. LockHeld' /\ OpenLoaded'
    BY <1>3 DEF DmaInv, LockHeld, OpenLoaded
  <2> QED
    BY <2>1, <2>2, <2>3 DEF DmaInv, Prepared
<1>6. CpuCopied'
  BY <1>3 DEF DmaInv, CpuCopied
<1>7. Undisturbed'
  <2> SUFFICES ASSUME ~interfered PROVE (OneCall /\ MovesForIt /\ HasBytes /\ ~again)'
    BY DEF Undisturbed
  <2>1. OneCall /\ MovesForIt /\ HasBytes /\ ~again
    BY DEF DmaInv, Undisturbed
  <2>2. moving' = Stopped /\ again' = FALSE
    BY <2>1
  <2>3. my_dst = Copied
    <3>1. \A i \in 1..Units : my_dst[i] = TRUE
      BY <1>1, <2>1 DEF MovesForIt
    <3> QED
      BY <1>t, <3>1 DEF DmaTypeOK, Copied
  <2>4. irqOn /\ expert'
    <3>1. PICK p \in Callers : caller[p] \in {"wait", "asleep"}
      BY <1>1, <2>1 DEF MovesForIt
    <3>2. dmaAt = "loaded"
      BY <3>1 DEF DmaInv, WaitsLoaded, Waits
    <3> QED
      BY <3>2 DEF DmaInv, Prepared
  <2>5. OneCall'
    BY <1>3, <2>1 DEF OneCall, Busy
  <2>6. \A p \in Callers : caller'[p] # "switch"
    BY <1>1, <1>3, <2>1 DEF MovesForIt, OneCall, Busy
  <2> QED
    BY <2>2, <2>3, <2>4, <2>5, <2>6 DEF MovesForIt, HasBytes
<1>8. ErrorsExplained' /\ DmaFaultsExplained'
  BY <1>2 DEF DmaInv, ErrorsExplained, DmaFaultsExplained
<1>b. Filled'
  BY <1>2, <1>3 DEF DmaInv, Filled, Busy
<1> QED
  BY <1>4, <1>5, <1>6, <1>7, <1>8, <1>b DEF DmaInv

\* The processes.
LEMMA OpenDmaInv == ASSUME DmaInv, dmaFault = {}, NEW p \in Callers, OpenDma(p) PROVE DmaInv'
<1> USE DEF OpenDma, loadVars, callVars, chanVars, noteVars, DmaFaulty
<1>t. DmaTypeOK
  BY DEF DmaInv
<1>1. /\ caller[p] = "out" /\ caller'[p] = "open" /\ \A q \in Callers \ {p} : caller'[q] = caller[q]
  BY <1>t DEF DmaTypeOK
<1>2. DmaTypeOK'
  BY <1>t, <1>1 DEF DmaTypeOK
<1>3. LockHeld' /\ Prepared' /\ OpenLoaded' /\ WaitsLoaded' /\ MovesLoaded'
  BY <1>1 DEF DmaInv, LockHeld, Prepared, OpenLoaded, WaitsLoaded, Waits, MovesLoaded
<1>4. CpuCopied'
  BY <1>1 DEF DmaInv, CpuCopied
<1>5. Undisturbed'
  BY <1>1 DEF DmaInv, Undisturbed, OneCall, Busy, MovesForIt, HasBytes, Waits
<1>6. ErrorsExplained' /\ DmaFaultsExplained'
  BY DEF DmaInv, ErrorsExplained, DmaFaultsExplained
<1>b. Filled'
  BY <1>1 DEF DmaInv, Filled, Busy
<1> QED
  BY <1>2, <1>3, <1>4, <1>5, <1>6, <1>b DEF DmaInv

LEMMA CloseDmaInv == ASSUME DmaInv, dmaFault = {}, NEW p \in Callers, CloseDma(p) PROVE DmaInv'
<1> USE DEF CloseDma, loadVars, callVars, chanVars, noteVars, DmaFaulty
<1>t. DmaTypeOK
  BY DEF DmaInv
<1>1. /\ caller[p] = "open" /\ caller'[p] = "out" /\ \A q \in Callers \ {p} : caller'[q] = caller[q]
  BY <1>t DEF DmaTypeOK
<1>2. DmaTypeOK'
  BY <1>t, <1>1, ZenonT(30) DEF DmaTypeOK
<1>3. LockHeld' /\ Prepared' /\ OpenLoaded' /\ WaitsLoaded' /\ MovesLoaded'
  BY <1>1 DEF DmaInv, LockHeld, Prepared, OpenLoaded, WaitsLoaded, Waits, MovesLoaded
<1>4. CpuCopied'
  BY <1>1 DEF DmaInv, CpuCopied
<1>5. Undisturbed'
  BY <1>1, ZenonT(30) DEF DmaInv, Undisturbed, OneCall, Busy, MovesForIt, HasBytes, Waits
<1>6. ErrorsExplained'
  BY DEF DmaInv, ErrorsExplained
<1>7. DmaFaultsExplained'
  BY <1>1 DEF DmaInv, OpenLoaded, DmaFaultsExplained
<1>b. Filled'
  BY <1>1 DEF DmaInv, Filled, Busy
<1> QED
  BY <1>2, <1>3, <1>4, <1>5, <1>6, <1>7, <1>b DEF DmaInv

LEMMA IoctlInv ==
  ASSUME DmaInv, dmaFault = {}, NEW p \in Callers, NEW c \in Cmds, my_ioctl(p, c)
  PROVE  DmaInv'
<1> USE DEF my_ioctl, loadVars, chanVars, DmaFaulty
<1>t. DmaTypeOK
  BY DEF DmaInv
<1>1. /\ caller[p] = "open" /\ caller'[p] = "switch"
      /\ \A q \in Callers \ {p} : caller'[q] = caller[q] /\ cmd'[q] = cmd[q]
  BY <1>t DEF DmaTypeOK
<1>2. DmaTypeOK'
  <2>1. calls' \in 0..DmaCalls
    <3>1. DmaCalls \in Nat
      BY DmaAssumption
    <3>2. calls \in 0..DmaCalls
      BY <1>t DEF DmaTypeOK
    <3>3. calls' = calls + 1 /\ calls < DmaCalls
      OBVIOUS
    <3> HIDE DEF my_ioctl
    <3> QED
      BY <3>1, <3>2, <3>3
  <2>2. my_dst' \in [1..Units -> BOOLEAN]
    BY DEF Reset
  <2>3. cmd' \in [Callers -> Cmds]
    BY <1>t DEF DmaTypeOK
  <2> QED
    BY <1>t, <1>1, <2>1, <2>2, <2>3 DEF DmaTypeOK
<1>3. \A q \in Callers : caller[q] \notin {"switch", "wait", "compare"}
  BY DmaAssumption DEF DmaInv, LockHeld
<1>4. LockHeld' /\ Prepared' /\ OpenLoaded' /\ MovesLoaded'
  BY <1>1, <1>3 DEF DmaInv, LockHeld, Prepared, OpenLoaded, MovesLoaded
<1>5. WaitsLoaded'
  BY <1>1 DEF DmaInv, WaitsLoaded, Waits
<1>6. CpuCopied'
  BY <1>1, <1>3 DEF CpuCopied
<1>7. Undisturbed'
  <2> SUFFICES ASSUME ~interfered' PROVE (OneCall /\ MovesForIt /\ HasBytes /\ ~again)'
    BY DEF Undisturbed
  <2>1. \A q \in Callers : ~Busy(q)
    BY <1>3 DEF Busy
  <2>2. MovesForIt /\ ~again
    BY DEF DmaInv, Undisturbed
  <2>3. moving = Stopped
    BY <2>1, <2>2 DEF MovesForIt, Busy
  <2>4. \A q \in Callers \ {p} : ~Busy(q)'
    BY <1>1, <2>1 DEF Busy
  <2>5. OneCall'
    BY <2>4 DEF OneCall
  <2>6. MovesForIt'
    BY <2>3 DEF MovesForIt
  <2>7. HasBytes'
    BY <1>1, <2>4 DEF HasBytes, Busy, Waits
  <2> QED
    BY <2>2, <2>5, <2>6, <2>7
<1>8. ErrorsExplained'
  BY DEF DmaInv, ErrorsExplained
<1>9. DmaFaultsExplained'
  BY <1>1 DEF DmaInv, OpenLoaded, Prepared, DmaFaultsExplained
<1>b. Filled'
  BY <1>1 DEF Filled
<1> QED
  BY <1>2, <1>4, <1>5, <1>6, <1>7, <1>8, <1>9, <1>b DEF DmaInv

LEMMA CopyByCpuInv == ASSUME DmaInv, dmaFault = {}, NEW p \in Callers, CopyByCpu(p) PROVE DmaInv'
<1> USE DEF CopyByCpu, loadVars, callVars, chanVars, noteVars, DmaFaulty
<1>t. DmaTypeOK
  BY DEF DmaInv
<1>1. /\ caller[p] = "switch" /\ caller'[p] = "compare"
      /\ \A q \in Callers \ {p} : caller'[q] = caller[q]
  BY <1>t DEF DmaTypeOK
<1>2. DmaTypeOK'
  <2>1. TypedLoads' /\ TypedCalls'
    BY <1>t, <1>1, DmaTypes DEF TypedLoads, TypedCalls
  <2>2. TypedMoves'
    BY <1>t, DmaTypes DEF TypedMoves, Copied
  <2> QED
    BY <2>1, <2>2 DEF DmaTypeOK, TypedLoads, TypedCalls, TypedMoves
<1>3. LockHeld' /\ Prepared' /\ OpenLoaded' /\ WaitsLoaded' /\ MovesLoaded'
  BY <1>1 DEF DmaInv, LockHeld, Prepared, OpenLoaded, WaitsLoaded, Waits, MovesLoaded
<1>4. CpuCopied'
  BY DEF CpuCopied
<1>5. Undisturbed'
  <2> SUFFICES ASSUME ~interfered PROVE (OneCall /\ MovesForIt /\ HasBytes /\ ~again)'
    BY DEF Undisturbed
  <2>1. OneCall /\ MovesForIt /\ HasBytes /\ ~again
    BY DEF DmaInv, Undisturbed
  <2>2. OneCall'
    BY <1>1, <2>1 DEF OneCall, Busy
  <2>3. moving = Stopped
    BY <1>1, <2>1 DEF OneCall, Busy, MovesForIt
  <2>4. MovesForIt'
    BY <2>3 DEF MovesForIt
  <2>5. HasBytes'
    BY <1>1, <2>1 DEF HasBytes, Waits
  <2> QED
    BY <2>1, <2>2, <2>4, <2>5
<1>6. ErrorsExplained' /\ DmaFaultsExplained'
  BY DEF DmaInv, ErrorsExplained, DmaFaultsExplained
<1>b. Filled'
  BY <1>1 DEF DmaInv, Filled, Busy
<1> QED
  BY <1>2, <1>3, <1>4, <1>5, <1>6, <1>b DEF DmaInv

LEMMA StartDmaInv == ASSUME DmaInv, dmaFault = {}, NEW p \in Callers, StartDma(p) PROVE DmaInv'
<1> USE DEF StartDma, loadVars, callVars, chanVars, noteVars, DmaFaulty
<1>t. DmaTypeOK
  BY DEF DmaInv
<1>1. /\ caller[p] = "switch" /\ caller'[p] = "wait"
      /\ \A q \in Callers \ {p} : caller'[q] = caller[q]
  BY <1>t DEF DmaTypeOK
<1>0. moving' \in 0..Units \cup {Stopped} /\ again' \in BOOLEAN
  BY <1>t, SomeUnits DEF DmaTypeOK
<1>2. DmaTypeOK'
  BY <1>t, <1>1, <1>0 DEF DmaTypeOK
<1>f. dmaFault' = {} => dmaAt = "loaded"
  OBVIOUS
<1>3. LockHeld' /\ Prepared' /\ OpenLoaded'
  BY <1>1 DEF DmaInv, LockHeld, Prepared, OpenLoaded
<1>4. WaitsLoaded' /\ MovesLoaded'
  BY <1>1, <1>f DEF DmaInv, WaitsLoaded, Waits, MovesLoaded
<1>5. CpuCopied'
  BY <1>1 DEF DmaInv, CpuCopied
<1>6. Undisturbed'
  <2> SUFFICES ASSUME ~interfered PROVE (OneCall /\ MovesForIt /\ HasBytes /\ ~again)'
    BY DEF Undisturbed
  <2>1. OneCall /\ MovesForIt /\ HasBytes /\ ~again
    BY DEF DmaInv, Undisturbed
  <2>2. OneCall'
    BY <1>1, <2>1, ZenonT(30) DEF OneCall, Busy
  <2>3. moving = Stopped
    BY <1>1, <2>1 DEF OneCall, Busy, MovesForIt
  <2>4. moving' = 0 /\ ~again' /\ moving' # Stopped
    <3>1. moving' = 0 /\ again' = again
      BY <2>3
    <3>2. 0 # Stopped
      BY NotStopped
    <3> QED
      BY <2>1, <3>1, <3>2
  <2>e. ~expert
    BY <1>1, <2>1 DEF HasBytes
  <2>5. MovesForIt'
    <3>1. ~expert' /\ caller'[p] = "wait"
      BY <1>1, <2>e
    <3> HIDE DEF StartDma
    <3>2. \A i \in 1..0 : my_dst'[i] = TRUE
      OBVIOUS
    <3> QED
      BY <2>4, <3>1, <3>2 DEF MovesForIt
  <2>6. HasBytes'
    BY <1>1, <2>1, <2>4 DEF HasBytes
  <2> QED
    BY <2>2, <2>4, <2>5, <2>6
<1>7. ErrorsExplained'
  BY DEF DmaInv, ErrorsExplained
<1>8. DmaFaultsExplained'
  BY <1>1 DEF DmaInv, OpenLoaded, DmaFaultsExplained
<1>b. Filled'
  BY <1>1 DEF DmaInv, Filled, Busy
<1> QED
  BY <1>2, <1>3, <1>4, <1>5, <1>6, <1>7, <1>8, <1>b DEF DmaInv

LEMMA WrongCmdInv == ASSUME DmaInv, dmaFault = {}, NEW p \in Callers, WrongCmd(p) PROVE DmaInv'
<1> USE DEF WrongCmd, loadVars, callVars, chanVars, noteVars
<1>t. DmaTypeOK
  BY DEF DmaInv
<1>1. /\ caller[p] = "switch" /\ caller'[p] = "open"
      /\ \A q \in Callers \ {p} : caller'[q] = caller[q]
  BY <1>t DEF DmaTypeOK
<1>2. DmaTypeOK'
  <2>1. TypedLoads' /\ TypedCalls'
    BY <1>t, <1>1, DmaTypes DEF TypedLoads, TypedCalls
  <2>2. TypedMoves'
    BY <1>t, DmaTypes DEF TypedMoves
  <2> QED
    BY <2>1, <2>2 DEF DmaTypeOK, TypedLoads, TypedCalls, TypedMoves
<1>3. LockHeld' /\ Prepared' /\ OpenLoaded' /\ MovesLoaded'
  BY <1>1 DEF DmaInv, LockHeld, Prepared, OpenLoaded, MovesLoaded
<1>4. WaitsLoaded'
  BY <1>1 DEF DmaInv, WaitsLoaded, Waits
<1>5. CpuCopied'
  BY <1>1 DEF DmaInv, CpuCopied
<1>6. Undisturbed'
  <2> SUFFICES ASSUME ~interfered PROVE (OneCall /\ MovesForIt /\ HasBytes /\ ~again)'
    BY DEF Undisturbed
  <2>1. OneCall /\ MovesForIt /\ HasBytes /\ ~again
    BY DEF DmaInv, Undisturbed
  <2>2. OneCall'
    BY <1>1, <2>1 DEF OneCall, Busy
  <2>3. moving = Stopped
    BY <1>1, <2>1 DEF OneCall, Busy, MovesForIt
  <2>4. MovesForIt'
    BY <2>3 DEF MovesForIt
  <2>5. HasBytes'
    BY <1>1, <2>1 DEF HasBytes, Waits
  <2> QED
    BY <2>1, <2>2, <2>4, <2>5
<1>7. ErrorsExplained' /\ DmaFaultsExplained'
  BY DEF DmaInv, ErrorsExplained, DmaFaultsExplained
<1>b. Filled'
  BY <1>1 DEF DmaInv, Filled, Busy
<1> QED
  BY <1>2, <1>3, <1>4, <1>5, <1>6, <1>7, <1>b DEF DmaInv

LEMMA WaitEventInv == ASSUME DmaInv, dmaFault = {}, NEW p \in Callers, WaitEvent(p) PROVE DmaInv'
<1> USE DEF WaitEvent, loadVars, callVars, chanVars, noteVars
<1>t. DmaTypeOK
  BY DEF DmaInv
<1>1. /\ caller[p] = "wait" /\ caller'[p] = (IF expert THEN "compare" ELSE "asleep")
      /\ \A q \in Callers \ {p} : caller'[q] = caller[q]
  BY <1>t DEF DmaTypeOK
<1>2. DmaTypeOK'
  <2>1. TypedLoads' /\ TypedCalls'
    BY <1>t, <1>1, DmaTypes DEF TypedLoads, TypedCalls
  <2>2. TypedMoves'
    BY <1>t, DmaTypes DEF TypedMoves
  <2> QED
    BY <2>1, <2>2 DEF DmaTypeOK, TypedLoads, TypedCalls, TypedMoves
<1>3. LockHeld' /\ Prepared' /\ OpenLoaded' /\ MovesLoaded'
  BY <1>1 DEF DmaInv, LockHeld, Prepared, OpenLoaded, MovesLoaded
<1>4. WaitsLoaded'
  BY <1>1 DEF DmaInv, WaitsLoaded, Waits
<1>c. cmd[p] = "MEM_DMA"
  BY <1>1 DEF DmaInv, WaitsLoaded, Waits
<1>5. CpuCopied'
  BY <1>1, <1>c DEF DmaInv, CpuCopied
<1>6. Undisturbed'
  <2> SUFFICES ASSUME ~interfered PROVE (OneCall /\ MovesForIt /\ HasBytes /\ ~again)'
    BY DEF Undisturbed
  <2>1. OneCall /\ MovesForIt /\ HasBytes /\ ~again
    BY DEF DmaInv, Undisturbed
  <2>2. OneCall'
    BY <1>1, <2>1 DEF OneCall, Busy
  <2>3. expert => moving = Stopped
    BY <2>1 DEF MovesForIt
  <2>4. MovesForIt'
    BY <1>1, <2>1, <2>3 DEF MovesForIt
  <2>5. HasBytes'
    BY <1>1, <2>1, <2>3 DEF HasBytes, Waits
  <2> QED
    BY <2>1, <2>2, <2>4, <2>5
<1>7. ErrorsExplained' /\ DmaFaultsExplained'
  BY DEF DmaInv, ErrorsExplained, DmaFaultsExplained
<1>b. Filled'
  BY <1>1 DEF DmaInv, Filled, Busy
<1> QED
  BY <1>2, <1>3, <1>4, <1>5, <1>6, <1>7, <1>b DEF DmaInv

LEMMA ReacquireInv == ASSUME DmaInv, dmaFault = {}, NEW p \in Callers, Reacquire(p) PROVE DmaInv'
<1> USE DEF Reacquire, loadVars, callVars, chanVars, noteVars
<1>t. DmaTypeOK
  BY DEF DmaInv
<1>1. /\ caller[p] = "awake" /\ caller'[p] = "wait"
      /\ \A q \in Callers \ {p} : caller'[q] = caller[q]
  BY <1>t DEF DmaTypeOK
<1>2. DmaTypeOK'
  <2>1. TypedLoads' /\ TypedCalls'
    BY <1>t, <1>1, DmaTypes DEF TypedLoads, TypedCalls
  <2>2. TypedMoves'
    BY <1>t, DmaTypes DEF TypedMoves
  <2> QED
    BY <2>1, <2>2 DEF DmaTypeOK, TypedLoads, TypedCalls, TypedMoves
<1>n. \A q \in Callers : caller[q] \notin {"switch", "wait", "compare"}
  BY DmaAssumption DEF DmaInv, LockHeld
<1>3. LockHeld' /\ Prepared' /\ OpenLoaded' /\ MovesLoaded'
  BY <1>1, <1>n DEF DmaInv, LockHeld, Prepared, OpenLoaded, MovesLoaded
<1>4. WaitsLoaded'
  BY <1>1 DEF DmaInv, WaitsLoaded, Waits
<1>5. CpuCopied'
  BY <1>1 DEF DmaInv, CpuCopied
<1>6. Undisturbed'
  <2> SUFFICES ASSUME ~interfered PROVE (OneCall /\ MovesForIt /\ HasBytes /\ ~again)'
    BY DEF Undisturbed
  <2>1. OneCall /\ MovesForIt /\ HasBytes /\ ~again
    BY DEF DmaInv, Undisturbed
  <2>2. OneCall'
    BY <1>1, <2>1 DEF OneCall, Busy
  <2>4. MovesForIt'
    BY <1>1, <2>1 DEF MovesForIt
  <2>5. HasBytes'
    BY <1>1, <2>1 DEF HasBytes, Waits
  <2> QED
    BY <2>1, <2>2, <2>4, <2>5
<1>7. ErrorsExplained' /\ DmaFaultsExplained'
  BY DEF DmaInv, ErrorsExplained, DmaFaultsExplained
<1>b. Filled'
  BY <1>1 DEF DmaInv, Filled, Busy
<1> QED
  BY <1>2, <1>3, <1>4, <1>5, <1>6, <1>7, <1>b DEF DmaInv

LEMMA SignalInv == ASSUME DmaInv, dmaFault = {}, NEW p \in Callers, Signal(p) PROVE DmaInv'
<1> USE DEF Signal, loadVars, callVars, chanVars, noteVars
<1>t. DmaTypeOK
  BY DEF DmaInv
<1>1. /\ caller[p] = "asleep" /\ caller'[p] = "compare"
      /\ \A q \in Callers \ {p} : caller'[q] = caller[q]
  BY <1>t DEF DmaTypeOK
<1>2. DmaTypeOK'
  BY <1>t, <1>1 DEF DmaTypeOK
<1>n. \A q \in Callers : caller[q] \notin {"switch", "wait", "compare"}
  BY DmaAssumption DEF DmaInv, LockHeld
<1>c. cmd[p] = "MEM_DMA"
  BY <1>1 DEF DmaInv, WaitsLoaded, Waits
<1>3. LockHeld' /\ Prepared' /\ OpenLoaded' /\ MovesLoaded'
  BY <1>1, <1>n DEF DmaInv, LockHeld, Prepared, OpenLoaded, MovesLoaded
<1>4. WaitsLoaded'
  BY <1>1 DEF DmaInv, WaitsLoaded, Waits
<1>5. CpuCopied'
  BY <1>1, <1>c DEF DmaInv, CpuCopied
<1>6. Undisturbed'
  BY DEF Undisturbed
<1>7. ErrorsExplained' /\ DmaFaultsExplained'
  BY DEF DmaInv, ErrorsExplained, DmaFaultsExplained
<1>b. Filled'
  BY <1>1 DEF DmaInv, Filled, Busy
<1> QED
  BY <1>2, <1>3, <1>4, <1>5, <1>6, <1>7, <1>b DEF DmaInv

LEMMA CompareInv == ASSUME DmaInv, dmaFault = {}, NEW p \in Callers, Compare(p) PROVE DmaInv'
<1> USE DEF Compare, loadVars, callVars, chanVars, noteVars
<1>t. DmaTypeOK
  BY DEF DmaInv
<1>1. /\ caller[p] = "compare" /\ caller'[p] = "open"
      /\ \A q \in Callers \ {p} : caller'[q] = caller[q]
  BY <1>t DEF DmaTypeOK
<1>2. DmaTypeOK'
  <2> DEFINE verdict == IF my_dst = Copied THEN "OK" ELSE "ERROR"
  <2>1. cmd[p] \in Cmds /\ verdict \in {"OK", "ERROR"}
    BY <1>t DEF DmaTypeOK
  <2>2. results' \subseteq Cmds \X {"OK", "ERROR"}
    <3>1. results \subseteq Cmds \X {"OK", "ERROR"}
      BY <1>t DEF DmaTypeOK
    <3>2. <<cmd[p], verdict>> \in Cmds \X {"OK", "ERROR"}
      BY <2>1
    <3> QED
      BY <3>1, <3>2
  <2>3. TypedLoads' /\ TypedCalls'
    BY <1>t, <1>1, DmaTypes DEF TypedLoads, TypedCalls
  <2>4. TypedMoves'
    BY <1>t, <2>2, DmaTypes DEF TypedMoves
  <2> QED
    BY <2>3, <2>4 DEF DmaTypeOK, TypedLoads, TypedCalls, TypedMoves
<1>3. LockHeld' /\ Prepared' /\ OpenLoaded' /\ MovesLoaded'
  BY <1>1 DEF DmaInv, LockHeld, Prepared, OpenLoaded, MovesLoaded
<1>4. WaitsLoaded'
  BY <1>1 DEF DmaInv, WaitsLoaded, Waits
<1>5. CpuCopied'
  BY <1>1 DEF DmaInv, CpuCopied
<1>6. Undisturbed'
  <2> SUFFICES ASSUME ~interfered PROVE (OneCall /\ MovesForIt /\ HasBytes /\ ~again)'
    BY DEF Undisturbed
  <2>1. OneCall /\ MovesForIt /\ HasBytes /\ ~again
    BY DEF DmaInv, Undisturbed
  <2>2. OneCall'
    BY <1>1, <2>1 DEF OneCall, Busy
  <2>3. moving = Stopped
    BY <1>1, <2>1 DEF OneCall, Busy, MovesForIt
  <2>4. MovesForIt'
    BY <2>3 DEF MovesForIt
  <2>5. HasBytes'
    BY <1>1, <2>1 DEF HasBytes, Waits
  <2> QED
    BY <2>1, <2>2, <2>4, <2>5
<1>8. ErrorsExplained'
  <2>1. ErrorsExplained
    BY DEF DmaInv
  <2>2. CASE my_dst = Copied
    <3>1. results' = results \cup {<<cmd[p], "OK">>}
      BY <2>2
    <3> QED
      BY <2>1, <3>1 DEF ErrorsExplained
  <2>3. CASE my_dst # Copied
    <3>1. results' = results \cup {<<cmd[p], "ERROR">>}
      BY <2>3
    <3>2. cmd[p] # "MEM_NO_DMA"
      BY <1>1, <2>3 DEF DmaInv, CpuCopied
    <3>3. interfered
      BY <1>1, <2>3 DEF DmaInv, Undisturbed, HasBytes
    <3> QED
      BY <2>1, <3>1, <3>2, <3>3 DEF ErrorsExplained
  <2> QED
    BY <2>2, <2>3
<1>7. DmaFaultsExplained'
  BY DEF DmaInv, DmaFaultsExplained
<1>b. Filled'
  BY <1>1 DEF DmaInv, Filled, Busy
<1> QED
  BY <1>2, <1>3, <1>4, <1>5, <1>6, <1>7, <1>8, <1>b DEF DmaInv

\* Init and exit.
LEMMA InitNodeInv == ASSUME DmaInv, dmaFault = {}, InitNode PROVE DmaInv'
<1> USE DEF InitNode, DmaLoad, loadRest, callVars, chanVars, noteVars
<1>1. DmaTypeOK'
  BY DEF DmaInv, DmaTypeOK
<1>2. LockHeld' /\ Prepared' /\ OpenLoaded' /\ WaitsLoaded' /\ MovesLoaded'
  BY DEF DmaInv, LockHeld, Prepared, OpenLoaded, WaitsLoaded, Waits, MovesLoaded
<1>3. CpuCopied' /\ Undisturbed'
  BY DEF DmaInv, CpuCopied, Undisturbed, OneCall, Busy, MovesForIt, HasBytes, Waits
<1>4. ErrorsExplained' /\ DmaFaultsExplained'
  BY DEF DmaInv, ErrorsExplained, DmaFaultsExplained
<1>b. Filled'
  BY DEF DmaInv, Filled, Busy, Prepared
<1> QED
  BY <1>1, <1>2, <1>3, <1>4, <1>b DEF DmaInv

LEMMA InitMemoryInv == ASSUME DmaInv, dmaFault = {}, InitMemory PROVE DmaInv'
<1> USE DEF InitMemory, DmaLoad, loadRest, callVars, chanVars, noteVars
<1>1. DmaTypeOK'
  BY DEF DmaInv, DmaTypeOK
<1>2. LockHeld' /\ Prepared' /\ OpenLoaded' /\ WaitsLoaded' /\ MovesLoaded'
  BY DEF DmaInv, LockHeld, Prepared, OpenLoaded, WaitsLoaded, Waits, MovesLoaded
<1>3. CpuCopied' /\ Undisturbed'
  BY DEF DmaInv, CpuCopied, Undisturbed, OneCall, Busy, MovesForIt, HasBytes, Waits
<1>4. ErrorsExplained' /\ DmaFaultsExplained'
  BY DEF DmaInv, ErrorsExplained, DmaFaultsExplained
<1>b. Filled'
  BY DEF DmaInv, Filled, Busy, Prepared
<1> QED
  BY <1>1, <1>2, <1>3, <1>4, <1>b DEF DmaInv

LEMMA InitIrqInv == ASSUME DmaInv, dmaFault = {}, InitIrq PROVE DmaInv'
<1> USE DEF InitIrq, DmaLoad, loadRest, callVars, chanVars, noteVars
<1>1. DmaTypeOK'
  BY DEF DmaInv, DmaTypeOK
<1>2. LockHeld' /\ Prepared' /\ OpenLoaded' /\ WaitsLoaded' /\ MovesLoaded'
  BY DEF DmaInv, LockHeld, Prepared, OpenLoaded, WaitsLoaded, Waits, MovesLoaded
<1>3. CpuCopied' /\ Undisturbed'
  BY DEF DmaInv, CpuCopied, Undisturbed, OneCall, Busy, MovesForIt, HasBytes, Waits
<1>4. ErrorsExplained' /\ DmaFaultsExplained'
  BY DEF DmaInv, ErrorsExplained, DmaFaultsExplained
<1>b. Filled'
  BY DEF DmaInv, Filled, Busy, Prepared
<1> QED
  BY <1>1, <1>2, <1>3, <1>4, <1>b DEF DmaInv

LEMMA InitRegsInv == ASSUME DmaInv, dmaFault = {}, InitRegs PROVE DmaInv'
<1> USE DEF InitRegs, DmaLoad, loadRest, callVars, chanVars, noteVars
<1>1. DmaTypeOK'
  BY DEF DmaInv, DmaTypeOK
<1>2. LockHeld' /\ Prepared' /\ OpenLoaded' /\ WaitsLoaded' /\ MovesLoaded'
  BY DEF DmaInv, LockHeld, Prepared, OpenLoaded, WaitsLoaded, Waits, MovesLoaded
<1>3. CpuCopied' /\ Undisturbed'
  BY DEF DmaInv, CpuCopied, Undisturbed, OneCall, Busy, MovesForIt, HasBytes, Waits
<1>4. ErrorsExplained' /\ DmaFaultsExplained'
  BY DEF DmaInv, ErrorsExplained, DmaFaultsExplained
<1>b. Filled'
  BY DEF DmaInv, Filled, Busy, Prepared
<1> QED
  BY <1>1, <1>2, <1>3, <1>4, <1>b DEF DmaInv

LEMMA InitFailsInv == ASSUME DmaInv, dmaFault = {}, InitFails PROVE DmaInv'
<1> USE DEF InitFails, GiveBack, DmaFaulty, DmaLoad, loadRest, callVars, chanVars, noteVars
<1>1. DmaTypeOK'
  BY DEF DmaInv, DmaTypeOK
<1>2. LockHeld' /\ Prepared' /\ OpenLoaded' /\ WaitsLoaded' /\ MovesLoaded'
  BY DEF DmaInv, LockHeld, Prepared, OpenLoaded, WaitsLoaded, Waits, MovesLoaded
<1>3. CpuCopied' /\ Undisturbed'
  BY DEF DmaInv, CpuCopied, Undisturbed, OneCall, Busy, MovesForIt, HasBytes, Waits
<1>4. ErrorsExplained' /\ DmaFaultsExplained'
  BY DEF DmaInv, ErrorsExplained, DmaFaultsExplained
<1>b. Filled'
  BY DEF DmaInv, Filled, Busy, Prepared
<1> QED
  BY <1>1, <1>2, <1>3, <1>4, <1>b DEF DmaInv

LEMMA ExitIrqInv == ASSUME DmaInv, dmaFault = {}, ExitIrq PROVE DmaInv'
<1> USE DEF ExitIrq, DmaLoad, loadRest, callVars, chanVars, noteVars, ExitAllowed
<1>1. DmaTypeOK'
  BY DEF DmaInv, DmaTypeOK
<1>2. LockHeld' /\ Prepared' /\ OpenLoaded' /\ WaitsLoaded' /\ MovesLoaded'
  BY DEF DmaInv, LockHeld, Prepared, OpenLoaded, WaitsLoaded, Waits, MovesLoaded
<1>3. CpuCopied' /\ Undisturbed'
  BY DEF DmaInv, CpuCopied, Undisturbed, OneCall, Busy, MovesForIt, HasBytes, Waits
<1>4. ErrorsExplained' /\ DmaFaultsExplained'
  BY DEF DmaInv, ErrorsExplained, DmaFaultsExplained
<1>b. Filled'
  BY DEF DmaInv, Filled, Busy, Prepared
<1> QED
  BY <1>1, <1>2, <1>3, <1>4, <1>b DEF DmaInv

LEMMA ExitMemoryInv == ASSUME DmaInv, dmaFault = {}, ExitMemory PROVE DmaInv'
<1> USE DEF ExitMemory, GiveBack, DmaFaulty, DmaLoad, loadRest, callVars, chanVars, noteVars
<1>1. DmaTypeOK'
  BY DEF DmaInv, DmaTypeOK
<1>2. LockHeld' /\ Prepared' /\ OpenLoaded' /\ WaitsLoaded' /\ MovesLoaded'
  BY DEF DmaInv, LockHeld, Prepared, OpenLoaded, WaitsLoaded, Waits, MovesLoaded
<1>3. CpuCopied' /\ Undisturbed'
  BY DEF DmaInv, CpuCopied, Undisturbed, OneCall, Busy, MovesForIt, HasBytes, Waits
<1>4. ErrorsExplained' /\ DmaFaultsExplained'
  BY DEF DmaInv, ErrorsExplained, DmaFaultsExplained
<1>b. Filled'
  BY DEF DmaInv, Filled, Busy, Prepared
<1> QED
  BY <1>1, <1>2, <1>3, <1>4, <1>b DEF DmaInv

LEMMA DmaNextInv == DmaInv /\ DmaNext => DmaInv'
  BY MoveUnitInv, DmaFuncInv, OpenDmaInv, CloseDmaInv, IoctlInv, CopyByCpuInv, StartDmaInv,
     WrongCmdInv, WaitEventInv, ReacquireInv, SignalInv, CompareInv, InitNodeInv,
     InitMemoryInv, InitIrqInv, InitRegsInv, InitFailsInv, ExitIrqInv, ExitMemoryInv
  DEF DmaNext

LEMMA DmaRests == DmaInv /\ UNCHANGED dmaVars => DmaInv'
<1> SUFFICES ASSUME DmaInv, UNCHANGED dmaVars PROVE DmaInv'
  OBVIOUS
<1> USE DEF dmaVars, loadVars, callVars, chanVars, noteVars
<1>1. DmaTypeOK'
  <2>1. TypedLoads' /\ TypedCalls'
    BY DmaTypes DEF DmaInv, TypedLoads, TypedCalls
  <2>2. TypedMoves'
    BY DmaTypes DEF DmaInv, TypedMoves
  <2> QED
    BY <2>1, <2>2 DEF DmaTypeOK, TypedLoads, TypedCalls, TypedMoves
<1>2. LockHeld' /\ Prepared' /\ OpenLoaded' /\ WaitsLoaded' /\ MovesLoaded'
  BY DEF DmaInv, LockHeld, Prepared, OpenLoaded, WaitsLoaded, Waits, MovesLoaded
<1>3. CpuCopied' /\ Undisturbed'
  BY DEF DmaInv, CpuCopied, Undisturbed, OneCall, Busy, MovesForIt, HasBytes, Waits
<1>4. ErrorsExplained' /\ DmaFaultsExplained'
  BY DEF DmaInv, ErrorsExplained, DmaFaultsExplained
<1>b. Filled'
  BY DEF DmaInv, Filled, Busy, Prepared
<1> QED
  BY <1>1, <1>2, <1>3, <1>4, <1>b DEF DmaInv

-----------------------------------------------------------------------------
(* The two drivers of GPIO port F.                                         *)

\* While the button driver is not up, a timer of its or a read of a pin is
\* what a stray interrupt has left; add_timer's own comes after the device.
OnlyStrays == keyAt # "loaded" => (keyTimer \/ keyFunc # Idle => stray)

PortInv == KeyTypeOK /\ HwTypeOK /\ OnlyStrays /\ KeyFaultsExplained /\ LevelsDriven

LEMMA PortInitInv == PortInit => PortInv
<1> SUFFICES ASSUME PortInit PROVE PortInv
  OBVIOUS
<1>1. KeyMoves \in Nat /\ HwFiles \in Nat
  BY KeyAssumption, HwAssumption
<1>2. KeyTypeOK
  <2>1. keyMoves \in 0..KeyMoves
    BY <1>1 DEF PortInit, KeyInit
  <2>2. pinFn \in [Pins -> {"input", "output", "eint"}] /\ latch \in [Pins -> {0, 1}]
    BY DEF PortInit, KeyInit
  <2> QED
    BY <2>1, <2>2 DEF PortInit, KeyInit, KeyTypeOK
<1>3. HwTypeOK
  <2>1. hwOpen \in 0..HwFiles
    BY <1>1 DEF PortInit
  <2>2. hwLevels \in [OutPins -> {0, 1}]
    BY DEF PortInit
  <2> QED
    BY <2>1, <2>2 DEF PortInit, HwTypeOK
<1>4. OnlyStrays /\ KeyFaultsExplained /\ LevelsDriven
  BY DEF PortInit, KeyInit, OnlyStrays, KeyFaultsExplained, LevelsDriven
<1> QED
  BY <1>2, <1>3, <1>4 DEF PortInv

LEMMA PortRests == PortInv /\ UNCHANGED portVars => PortInv'
<1> SUFFICES ASSUME PortInv, UNCHANGED portVars PROVE PortInv'
  OBVIOUS
<1> USE DEF PortInv, portVars, keyVars, gotVars, hwVars, pinVars, btnVars, dbncVars, repVars
<1>1. KeyTypeOK'
  BY DEF KeyTypeOK
<1>2. HwTypeOK' /\ LevelsDriven'
  BY DEF HwTypeOK, LevelsDriven
<1>3. OnlyStrays' /\ KeyFaultsExplained'
  BY DEF OnlyStrays, KeyFaultsExplained
<1> QED
  BY <1>1, <1>2, <1>3

\* The buttons that are left to set up, or to give back, have a lowest one.
LEMMA LowestPin == ASSUME NEW S, S \subseteq KeyPins, S # {} PROVE LowestOf(S) \in S
<1> DEFINE Less == OpToRel(<, Nat)
<1>1. S \subseteq Nat
  BY KeyAssumption DEF Pins
<1>2. \A p, q \in Nat : q < p => <<q, p>> \in Less
  BY DEF OpToRel
<1>3. IsWellFoundedOn(Less, Nat)
  BY NatLessThanWellFounded
<1> HIDE DEF Less
<1>4. PICK p \in S : \A q \in S : <<q, p>> \notin Less
  BY <1>1, <1>3, WFMin
<1>5. \A q \in S : p <= q
  <2>1. SUFFICES ASSUME NEW q \in S, ~(p <= q) PROVE FALSE
    OBVIOUS
  <2>2. p \in Nat /\ q \in Nat
    BY <1>1
  <2>3. q < p
    BY <2>1, <2>2
  <2> QED
    BY <1>2, <1>4, <2>2, <2>3
<1> QED
  BY <1>5 DEF LowestOf

\* The module's own steps keep what the other driver has, in their types.
KeyStep == KeyNext /\ hwDisturbed' = (hwDisturbed \/ pinFn' # pinFn)
           /\ UNCHANGED <<hwOpen, hwLevels>>

LEMMA KeyKeepsHw == PortInv /\ KeyStep => HwTypeOK' /\ LevelsDriven'
<1> SUFFICES ASSUME PortInv, KeyStep PROVE HwTypeOK' /\ LevelsDriven'
  OBVIOUS
<1>1. latch' = latch
  BY DEF KeyStep, KeyNext, Press, Release, key_input_handleirq, KeyTimerRead, KeyTimerReport,
         KeyInitPin, KeyInitDevice, KeyInitNoDevice, KeyAddTimer, KeyExitTimer, KeyExitDevice, KeyExitIrq,
         KeyExitDone, pinVars
<1>2. HwTypeOK'
  BY DEF PortInv, HwTypeOK, KeyStep
<1>3. LevelsDriven'
  BY <1>1 DEF PortInv, HwTypeOK, LevelsDriven, KeyStep
<1> QED
  BY <1>2, <1>3

LEMMA KeyStepInv == PortInv /\ KeyStep => PortInv'
<1> SUFFICES ASSUME PortInv, KeyStep PROVE PortInv'
  OBVIOUS
<1> USE DEF gotVars, pinVars, btnVars, dbncVars, repVars, KeyRuns, NoKeyIrq, InProcess, KeyProcess
<1>t. KeyTypeOK /\ OnlyStrays /\ KeyFaultsExplained
  BY DEF PortInv
<1> DEFINE Goal == KeyTypeOK' /\ OnlyStrays' /\ KeyFaultsExplained'
<1>m. KeyMoves \in Nat
  BY KeyAssumption
<1>g. SUFFICES Goal
  BY KeyKeepsHw DEF PortInv
<1>1. ASSUME NEW p \in KeyPins, Press(p) PROVE Goal
  <2>1. KeyTypeOK'
    <3>1. keyMoves \in 0..KeyMoves /\ keyMoves < KeyMoves /\ keyMoves' = keyMoves + 1
      BY <1>t, <1>1 DEF KeyTypeOK, Press
    <3>2. keyMoves' \in 0..KeyMoves
      BY <1>m, <3>1
    <3> QED
      BY <1>t, <1>1, <3>2 DEF KeyTypeOK, Press
  <2>2. OnlyStrays' /\ KeyFaultsExplained'
    BY <1>t, <1>1 DEF OnlyStrays, KeyFaultsExplained, Press
  <2> QED
    BY <2>1, <2>2
<1>2. ASSUME NEW p \in KeyPins, Release(p) PROVE Goal
  <2>1. KeyTypeOK'
    <3>1. keyMoves \in 0..KeyMoves /\ keyMoves < KeyMoves /\ keyMoves' = keyMoves + 1
      BY <1>t, <1>2 DEF KeyTypeOK, Release
    <3>2. keyMoves' \in 0..KeyMoves
      BY <1>m, <3>1
    <3> QED
      BY <1>t, <1>2, <3>2 DEF KeyTypeOK, Release
  <2>2. OnlyStrays' /\ KeyFaultsExplained'
    BY <1>t, <1>2 DEF OnlyStrays, KeyFaultsExplained, Release
  <2> QED
    BY <2>1, <2>2
<1>3. ASSUME NEW p \in KeyPins, key_input_handleirq(p) PROVE Goal
  <2>1. KeyTypeOK'
    BY <1>t, <1>3 DEF KeyTypeOK, key_input_handleirq, Remember
  <2>2. OnlyStrays' /\ KeyFaultsExplained'
    BY <1>t, <1>3 DEF KeyTypeOK, OnlyStrays, KeyFaultsExplained, key_input_handleirq
  <2> QED
    BY <2>1, <2>2
<1>4. CASE KeyTimerRead
  <2>1. keyAt = "gone" => stray
    BY <1>t, <1>4 DEF OnlyStrays, KeyTimerRead
  <2>2. keyFunc' \in [key : KeyPins, low : BOOLEAN] \cup {Idle}
    <3>1. CASE keyAt = "gone" \/ irq_info = NoKey
      BY <1>t, <1>4, <3>1 DEF KeyTimerRead, KeyTypeOK
    <3>2. CASE keyAt # "gone" /\ irq_info # NoKey
      <4>1. PinLow(irq_info) \in BOOLEAN
        <5>1. CASE pinFn[irq_info] = "output"
          BY <5>1 DEF PinLow
        <5>2. CASE pinFn[irq_info] # "output"
          BY <5>2 DEF PinLow
        <5> QED
          BY <5>1, <5>2
      <4>2. irq_info \in KeyPins
        BY <1>t, <3>2 DEF KeyTypeOK
      <4>3. keyFunc' = [key |-> irq_info, low |-> PinLow(irq_info)]
        BY <1>4, <3>2 DEF KeyTimerRead
      <4> HIDE DEF PinLow
      <4> QED
        BY <4>1, <4>2, <4>3
    <3> QED
      BY <3>1, <3>2
  <2>3. KeyTypeOK'
    BY <1>t, <1>4, <2>2 DEF KeyTypeOK, KeyTimerRead
  <2>4. OnlyStrays' /\ KeyFaultsExplained'
    BY <1>t, <1>4, <2>1 DEF OnlyStrays, KeyFaultsExplained, KeyTimerRead
  <2> QED
    BY <2>3, <2>4
<1>5. CASE KeyTimerReport
  <2>1. DeviceFault # {} => stray
    BY <1>t, <1>5 DEF OnlyStrays, KeyTimerReport, DeviceFault
  <2>2. DeviceFault \subseteq {"no device", "device freed"}
    BY DEF DeviceFault
  <2>3. keyFunc.key \in KeyPins
    BY <1>t, <1>5 DEF KeyTimerReport, KeyTypeOK
  <2>4. KeyTypeOK'
    BY <1>t, <1>5, <2>2, <2>3 DEF KeyTypeOK, KeyTimerReport
  <2>5. OnlyStrays' /\ KeyFaultsExplained'
    BY <1>t, <1>5, <2>1 DEF OnlyStrays, KeyFaultsExplained, KeyTimerReport
  <2> QED
    BY <2>4, <2>5
<1>6. CASE KeyInitPin
  <2>1. LowestOf(KeyPins \ keyDone) \in KeyPins
    BY <1>t, <1>6, LowestPin DEF KeyInitPin, KeyTypeOK
  <2>2. KeyTypeOK'
    BY <1>t, <1>6, <2>1 DEF KeyTypeOK, KeyInitPin
  <2>3. OnlyStrays' /\ KeyFaultsExplained'
    BY <1>t, <1>6 DEF OnlyStrays, KeyFaultsExplained, KeyInitPin
  <2> QED
    BY <2>2, <2>3
<1>7. CASE KeyInitDevice \/ KeyInitNoDevice \/ KeyAddTimer \/ KeyExitTimer
  <2>1. KeyTypeOK'
    BY <1>t, <1>7 DEF KeyTypeOK, KeyInitDevice, KeyInitNoDevice, KeyAddTimer, KeyExitTimer
  <2>2. OnlyStrays'
    BY <1>t, <1>7 DEF OnlyStrays, KeyInitDevice, KeyInitNoDevice, KeyAddTimer, KeyExitTimer
  <2>3. KeyFaultsExplained'
    BY <1>t, <1>7 DEF OnlyStrays, KeyFaultsExplained, KeyInitDevice, KeyInitNoDevice,
       KeyAddTimer, KeyExitTimer
  <2> QED
    BY <2>1, <2>2, <2>3
<1>8. CASE KeyExitDevice
  <2>1. KeyTypeOK'
    BY <1>t, <1>8 DEF KeyTypeOK, KeyExitDevice
  <2>2. OnlyStrays' /\ KeyFaultsExplained'
    BY <1>t, <1>8 DEF OnlyStrays, KeyFaultsExplained, KeyExitDevice
  <2> QED
    BY <2>1, <2>2
<1>9. CASE KeyExitIrq
  <2>1. KeyTypeOK'
    BY <1>t, <1>9 DEF KeyTypeOK, KeyExitIrq
  <2>2. OnlyStrays' /\ KeyFaultsExplained'
    BY <1>t, <1>9 DEF OnlyStrays, KeyFaultsExplained, KeyExitIrq
  <2> QED
    BY <2>1, <2>2
<1>10. CASE KeyExitDone
  <2>1. KeyTypeOK'
    BY <1>t, <1>10 DEF KeyTypeOK, KeyExitDone
  <2>2. OnlyStrays' /\ KeyFaultsExplained'
    <3>1. keyAt = "freed" /\ keyAt' = "gone" /\ keyFault' = keyFault /\ stray' = stray
      BY <1>10 DEF KeyExitDone
    <3>2. OnlyStrays'
      BY <1>t, <1>10 DEF OnlyStrays, KeyExitDone
    <3> QED
      BY <1>t, <3>1, <3>2 DEF KeyFaultsExplained
  <2> QED
    BY <2>1, <2>2
<1> QED
  BY <1>1, <1>2, <1>3, <1>4, <1>5, <1>6, <1>7, <1>8, <1>9, <1>10 DEF KeyStep, KeyNext

LEMMA PortNextInv == PortInv /\ PortNext => PortInv'
<1> SUFFICES ASSUME PortInv, PortNext PROVE PortInv'
  OBVIOUS
<1> USE DEF gotVars, pinVars, btnVars, dbncVars, repVars, keyOnly, InProcess
<1>m. HwFiles \in Nat
  BY HwAssumption
<1>1. CASE KeyStep
  BY <1>1, KeyStepInv
<1>2. CASE hw_control_open
  <2>1. KeyTypeOK'
    BY <1>2 DEF PortInv, KeyTypeOK, hw_control_open
  <2>2. HwTypeOK'
    <3>1. hwOpen \in 0..HwFiles /\ hwOpen < HwFiles /\ hwOpen' = hwOpen + 1
      BY <1>2 DEF PortInv, HwTypeOK, hw_control_open
    <3>2. hwOpen' \in 0..HwFiles
      BY <1>m, <3>1
    <3> QED
      BY <1>2, <3>2 DEF HwTypeOK, hw_control_open
  <2>3. OnlyStrays' /\ KeyFaultsExplained'
    BY <1>2 DEF PortInv, OnlyStrays, KeyFaultsExplained, hw_control_open
  <2>4. LevelsDriven'
    BY <1>2 DEF LevelsDriven, hw_control_open, Pins
  <2> QED
    BY <2>1, <2>2, <2>3, <2>4 DEF PortInv
<1>3. CASE hw_control_write
  <2>1. KeyTypeOK'
    BY <1>3 DEF PortInv, KeyTypeOK, hw_control_write
  <2>2. HwTypeOK'
    BY <1>3 DEF PortInv, HwTypeOK, hw_control_write
  <2>3. OnlyStrays' /\ KeyFaultsExplained'
    BY <1>3 DEF PortInv, OnlyStrays, KeyFaultsExplained, hw_control_write
  <2>4. LevelsDriven'
    BY <1>3 DEF PortInv, LevelsDriven, hw_control_write, Pins
  <2> QED
    BY <2>1, <2>2, <2>3, <2>4 DEF PortInv
<1>4. CASE hw_control_close
  <2>1. KeyTypeOK'
    BY <1>4 DEF PortInv, KeyTypeOK, hw_control_close
  <2>2. HwTypeOK'
    BY <1>4, <1>m DEF PortInv, HwTypeOK, hw_control_close
  <2>3. OnlyStrays' /\ KeyFaultsExplained'
    BY <1>4 DEF PortInv, OnlyStrays, KeyFaultsExplained, hw_control_close
  <2>4. LevelsDriven'
    BY <1>4 DEF LevelsDriven, hw_control_close
  <2> QED
    BY <2>1, <2>2, <2>3, <2>4 DEF PortInv
<1> QED
  BY <1>1, <1>2, <1>3, <1>4 DEF PortNext, KeyStep

-----------------------------------------------------------------------------
(* The humidity sensor.                                                    *)

AmTyped ==
  /\ AmTypeOK
  /\ amValue \in Nat \ {0} /\ measured \in Nat /\ clock \in Nat
  /\ got \in [AmUsers -> [1..Bytes -> Nat]]

\* Who reads has returned no data, and as long as nothing delays or disturbs him he
\* is at the byte the sensor gives, having got those before it of one measurement.
KeepsUp(p) == amReader[p] # 0 =>
                /\ amResult[p] # "data"
                /\ p \notin slipped =>
                     /\ given \in {amReader[p], Silent}
                     /\ \A i \in 1..Bytes : i < amReader[p] => got[p][i] = amValue

AmInv == AmTyped /\ (\A p \in AmUsers : KeepsUp(p)) /\ OneMeasurement

LEMMA AmInitInv == AmInit => AmInv
<1> SUFFICES ASSUME AmInit PROVE AmInv
  OBVIOUS
<1> USE DEF AmInit, Silent, Unknown
<1>1. amCalls \in 0..AmCalls /\ amTroubles \in 0..AmTroubles
  BY Am2305Assumption
<1>2. amReader \in [AmUsers -> 0..Bytes] /\ given \in 0..Bytes
  BY DEF Bytes
<1>3. measured <= clock /\ amValue <= measured
  OBVIOUS
<1>4. AmTypeOK
  BY <1>1, <1>2, <1>3 DEF AmTypeOK
<1>5. got \in [AmUsers -> [1..Bytes -> Nat]]
  OBVIOUS
<1>6. AmTyped
  BY <1>4, <1>5 DEF AmTyped
<1>7. (\A p \in AmUsers : KeepsUp(p)) /\ OneMeasurement
  BY DEF KeepsUp, OneMeasurement
<1> QED
  BY <1>6, <1>7 DEF AmInv

LEMMA AmRests == AmInv /\ UNCHANGED amVars => AmInv'
<1> SUFFICES ASSUME AmInv, UNCHANGED amVars PROVE AmInv'
  OBVIOUS
<1> USE DEF AmInv, amVars, amProcs, amSensor
<1>1. AmTyped'
  BY DEF AmTyped, AmTypeOK
<1>2. \A p \in AmUsers : KeepsUp(p)'
  BY DEF KeepsUp
<1>3. OneMeasurement'
  BY DEF OneMeasurement
<1> QED
  BY <1>1, <1>2, <1>3

\* The sensor is asked.
LEMMA AskTyped ==
  ASSUME AmTyped, Ask
  PROVE  /\ given' \in 0..Bytes /\ measured' <= clock' /\ amValue' <= measured'
         /\ rested' \in BOOLEAN /\ alive' \in BOOLEAN /\ clock' = clock
         /\ amValue' \in Nat \ {0} /\ measured' \in Nat /\ clock' \in Nat
<1>1. /\ amValue \in Nat \ {0} /\ measured \in Nat /\ clock \in Nat
      /\ measured <= clock /\ amValue <= measured /\ alive \in BOOLEAN
  BY DEF AmTyped, AmTypeOK
<1>2. CASE alive /\ rested
  <2>1. /\ given' = 1 /\ amValue' = measured /\ measured' = clock /\ rested' = FALSE
        /\ clock' = clock /\ alive' = alive
    BY <1>2 DEF Ask
  <2>2. rested' \in BOOLEAN /\ alive' \in BOOLEAN
    BY <1>1, <2>1
  <2>3. given' \in 0..Bytes /\ measured' <= clock' /\ amValue' <= measured'
    BY <1>1, <2>1 DEF Bytes
  <2>4. amValue' \in Nat \ {0} /\ measured' \in Nat /\ clock' \in Nat
    BY <1>1, <2>1
  <2> QED
    BY <2>1, <2>2, <2>3, <2>4
<1>3. CASE ~(alive /\ rested)
  <2>1. /\ given' = 0 /\ amValue' = amValue /\ measured' = measured /\ rested' = FALSE
        /\ clock' = clock /\ alive' = alive
    BY <1>3 DEF Ask, Silent
  <2>2. rested' \in BOOLEAN /\ alive' \in BOOLEAN
    BY <1>1, <2>1
  <2>3. given' \in 0..Bytes /\ measured' <= clock' /\ amValue' <= measured'
    BY <1>1, <2>1 DEF Bytes
  <2>4. amValue' \in Nat \ {0} /\ measured' \in Nat /\ clock' \in Nat
    BY <1>1, <2>1
  <2> QED
    BY <2>1, <2>2, <2>3, <2>4
<1> QED
  BY <1>2, <1>3

\* One more call, or one more trouble.
LEMMA AmCounts ==
  ASSUME AmTyped
  PROVE  /\ amCalls < AmCalls => amCalls + 1 \in 0..AmCalls
         /\ amTroubles < AmTroubles => amTroubles + 1 \in 0..AmTroubles
<1>1. amCalls \in 0..AmCalls /\ amTroubles \in 0..AmTroubles
  BY DEF AmTyped, AmTypeOK
<1> QED
  BY <1>1, Am2305Assumption

LEMMA AmOpenInv == ASSUME AmInv, NEW p \in AmUsers, am2305_open(p) PROVE AmInv'
<1> USE DEF am2305_open
<1>t. AmTyped
  BY DEF AmInv
<1>1. Ask
  OBVIOUS
<1>2. amResult' \in [AmUsers -> {"none", "opened", "error", "data"}]
  BY <1>t DEF AmTyped, AmTypeOK
<1>3. amResult'[p] # "data" /\ \A q \in AmUsers \ {p} : amResult'[q] = amResult[q]
  BY <1>t DEF AmTyped, AmTypeOK
<1>4. /\ amOpen' \subseteq AmUsers /\ slipped' \subseteq AmUsers
      /\ slipped \subseteq slipped' /\ AmReading \subseteq slipped'
  BY <1>t DEF AmTyped, AmTypeOK, AmReading
<1>5. /\ amReader' = amReader /\ got' = got /\ amTroubles' = amTroubles
      /\ amCalls' \in 0..AmCalls
  BY <1>t, AmCounts
<1> HIDE DEF am2305_open
<1>6. AmTyped'
  BY <1>t, <1>1, <1>2, <1>4, <1>5, AskTyped DEF AmTyped, AmTypeOK
<1>7. \A q \in AmUsers : KeepsUp(q)'
  BY <1>3, <1>4, <1>5 DEF KeepsUp, AmInv, AmReading
<1>c. clock' = clock
  BY <1>t, <1>1, AskTyped
<1>8. OneMeasurement'
  BY <1>3, <1>4, <1>5, <1>c DEF OneMeasurement, AmInv
<1> QED
  BY <1>6, <1>7, <1>8 DEF AmInv

LEMMA AmCloseInv == ASSUME AmInv, NEW p \in AmUsers, am2305_close(p) PROVE AmInv'
<1> USE DEF am2305_close, amSensor
<1>t. AmTyped
  BY DEF AmInv
<1>2. amResult' \in [AmUsers -> {"none", "opened", "error", "data"}]
  BY <1>t DEF AmTyped, AmTypeOK
<1>3. amResult'[p] # "data" /\ \A q \in AmUsers \ {p} : amResult'[q] = amResult[q]
  BY <1>t DEF AmTyped, AmTypeOK
<1>4. [i \in 1..Bytes |-> Unknown] \in [1..Bytes -> Nat]
  BY DEF Unknown
<1>5. got' \in [AmUsers -> [1..Bytes -> Nat]] /\ \A q \in AmUsers \ {p} : got'[q] = got[q]
  BY <1>t, <1>4 DEF AmTyped
<1>6. AmTyped'
  BY <1>t, <1>2, <1>5 DEF AmTyped, AmTypeOK
<1>7. \A q \in AmUsers : KeepsUp(q)'
  BY <1>3, <1>5 DEF KeepsUp, AmInv
<1>8. OneMeasurement'
  BY <1>3, <1>5 DEF OneMeasurement, AmInv
<1> QED
  BY <1>6, <1>7, <1>8 DEF AmInv

LEMMA AmReadInv == ASSUME AmInv, NEW p \in AmUsers, am2305_read(p) PROVE AmInv'
<1> USE DEF am2305_read
<1>t. AmTyped
  BY DEF AmInv
<1>1. Ask /\ amReader[p] = 0
  OBVIOUS
<1>2. amResult' \in [AmUsers -> {"none", "opened", "error", "data"}]
  BY <1>t DEF AmTyped, AmTypeOK
<1>3. amResult'[p] # "data" /\ \A q \in AmUsers \ {p} : amResult'[q] = amResult[q]
  BY <1>t DEF AmTyped, AmTypeOK
<1>4. [i \in 1..Bytes |-> Unknown] \in [1..Bytes -> Nat]
  BY DEF Unknown
<1>5. got' \in [AmUsers -> [1..Bytes -> Nat]] /\ \A q \in AmUsers \ {p} : got'[q] = got[q]
  BY <1>t, <1>4 DEF AmTyped
<1>6. /\ amReader' \in [AmUsers -> 0..Bytes] /\ amReader'[p] \in {0, 1}
      /\ amReader'[p] = 1 => given' = 1
      /\ \A q \in AmUsers \ {p} : amReader'[q] = amReader[q]
  <2>1. 1 \in 0..Bytes /\ amReader \in [AmUsers -> 0..Bytes]
    BY <1>t DEF AmTyped, AmTypeOK, Bytes
  <2>2. CASE Answers
    <3>1. amReader' = [amReader EXCEPT ![p] = 1] /\ given' = 1
      BY <2>2 DEF Answers, Ask
    <3> QED
      BY <2>1, <3>1
  <2>3. CASE ~Answers
    BY <1>1, <2>1, <2>3
  <2> QED
    BY <2>2, <2>3
<1>7. /\ slipped' \subseteq AmUsers /\ AmReading \subseteq slipped'
      /\ \A q \in AmUsers \ {p} : q \in slipped => q \in slipped'
  BY <1>t DEF AmTyped, AmTypeOK, AmReading
<1>8. amOpen' = amOpen /\ amTroubles' = amTroubles /\ amCalls' \in 0..AmCalls
  BY <1>t, AmCounts
<1> HIDE DEF am2305_read
<1>9. AmTyped'
  BY <1>t, <1>1, <1>2, <1>5, <1>6, <1>7, <1>8, AskTyped DEF AmTyped, AmTypeOK
<1>10. ASSUME NEW q \in AmUsers PROVE KeepsUp(q)'
  <2>1. CASE q = p
    BY <1>3, <1>6, <2>1 DEF KeepsUp
  <2>2. CASE q # p
    BY <1>3, <1>5, <1>6, <1>7, <2>2 DEF KeepsUp, AmInv, AmReading
  <2> QED
    BY <2>1, <2>2
<1>c. clock' = clock
  BY <1>t, <1>1, AskTyped
<1>11. OneMeasurement'
  BY <1>3, <1>5, <1>7, <1>c DEF OneMeasurement, AmInv
<1> QED
  BY <1>9, <1>10, <1>11 DEF AmInv

LEMMA AmByteInv == ASSUME AmInv, NEW p \in AmUsers, read_SensorData(p) PROVE AmInv'
<1> USE DEF read_SensorData
<1>t. AmTyped
  BY DEF AmInv
<1> DEFINE j == amReader[p]
           byte == IF j = given /\ p \notin slipped THEN amValue ELSE Unknown
<1>1. j \in 1..Bytes /\ given \in 1..Bytes
  BY <1>t DEF AmTyped, AmTypeOK, Silent, Bytes
<1>2. byte \in Nat
  BY <1>t DEF AmTyped, Unknown
<1>3. got' = [got EXCEPT ![p][j] = byte]
  OBVIOUS
<1> HIDE DEF byte
<1>4. /\ got' \in [AmUsers -> [1..Bytes -> Nat]]
      /\ \A q \in AmUsers \ {p} : got'[q] = got[q]
      /\ got'[p][j] = byte /\ \A i \in 1..Bytes : i # j => got'[p][i] = got[p][i]
  <2>1. got \in [AmUsers -> [1..Bytes -> Nat]] /\ got[p] \in [1..Bytes -> Nat]
    BY <1>t DEF AmTyped
  <2>2. got' = [got EXCEPT ![p] = [got[p] EXCEPT ![j] = byte]]
    BY <1>3
  <2>3. [got[p] EXCEPT ![j] = byte] \in [1..Bytes -> Nat]
    BY <1>2, <2>1
  <2>4. got'[p] = [got[p] EXCEPT ![j] = byte]
    BY <2>1, <2>2
  <2> HIDE DEF j
  <2> QED
    BY <1>1, <2>1, <2>2, <2>3, <2>4
<1>5. /\ amReader' \in [AmUsers -> 0..Bytes]
      /\ amReader'[p] = IF j = Bytes THEN 0 ELSE j + 1
      /\ \A q \in AmUsers \ {p} : amReader'[q] = amReader[q]
  <2>1. amReader \in [AmUsers -> 0..Bytes] /\ (IF j = Bytes THEN 0 ELSE j + 1) \in 0..Bytes
    BY <1>t, <1>1 DEF AmTyped, AmTypeOK, Bytes
  <2>2. amReader' = [amReader EXCEPT ![p] = IF j = Bytes THEN 0 ELSE j + 1]
    OBVIOUS
  <2> HIDE DEF j
  <2> QED
    BY <2>1, <2>2
<1>6. /\ amResult' \in [AmUsers -> {"none", "opened", "error", "data"}]
      /\ amResult'[p] = IF j = Bytes THEN "data" ELSE amResult[p]
      /\ \A q \in AmUsers \ {p} : amResult'[q] = amResult[q]
  BY <1>t DEF AmTyped, AmTypeOK
<1>7. given' = (IF given = Bytes THEN Silent ELSE given + 1) /\ given' \in 0..Bytes
  BY <1>1 DEF Silent, Bytes
<1>8. /\ slipped \subseteq slipped' /\ slipped' \subseteq AmUsers
      /\ p \in slipped' => p \in slipped
      /\ \A q \in AmUsers \ {p} : amReader[q] # 0 => q \in slipped'
  BY <1>t DEF AmTyped, AmTypeOK, AmReading
<1>9. UNCHANGED <<amOpen, amValue, measured, clock, rested, alive, amCalls, amTroubles>>
  OBVIOUS
<1> HIDE DEF read_SensorData
<1>10. AmTyped'
  BY <1>t, <1>4, <1>5, <1>6, <1>7, <1>8, <1>9 DEF AmTyped, AmTypeOK
<1>11. KeepsUp(p)
  BY DEF AmInv
<1>12. p \notin slipped => /\ j = given /\ byte = amValue
                           /\ \A i \in 1..Bytes : i <= j => got'[p][i] = amValue
  <2> SUFFICES ASSUME p \notin slipped
               PROVE  /\ j = given /\ byte = amValue
                      /\ \A i \in 1..Bytes : i <= j => got'[p][i] = amValue
    OBVIOUS
  <2>1. j = given
    BY <1>1, <1>11 DEF KeepsUp, Silent
  <2>2. byte = amValue
    BY <2>1 DEF byte
  <2>3. \A i \in 1..Bytes : i < j => got[p][i] = amValue
    BY <1>1, <1>11 DEF KeepsUp
  <2> HIDE DEF j
  <2> QED
    BY <1>1, <1>4, <2>1, <2>2, <2>3
<1>13. ASSUME NEW q \in AmUsers PROVE KeepsUp(q)'
  <2>1. CASE q # p
    BY <1>5, <1>6, <1>8, <2>1 DEF KeepsUp, AmInv
  <2>2. CASE q = p /\ j = Bytes
    BY <1>5, <2>2 DEF KeepsUp
  <2>3. CASE q = p /\ j # Bytes
    <3>1. amReader'[p] = j + 1 /\ amResult'[p] = amResult[p] /\ amResult[p] # "data"
      BY <1>1, <1>5, <1>6, <1>11, <2>3 DEF KeepsUp
    <3>2. p \notin slipped' => given' = j + 1
      BY <1>7, <1>8, <1>12, <2>3
    <3>3. p \notin slipped' => \A i \in 1..Bytes : i <= j => got'[p][i] = amValue'
      BY <1>8, <1>9, <1>12
    <3>4. \A i \in 1..Bytes : i < j + 1 => i <= j
      BY <1>1
    <3> HIDE DEF j
    <3> QED
      BY <2>3, <3>1, <3>2, <3>3, <3>4 DEF KeepsUp
  <2> QED
    BY <2>1, <2>2, <2>3
<1>14. ASSUME NEW q \in AmUsers, amResult'[q] = "data", q \notin slipped'
       PROVE  \E v \in 1..clock' : \A i \in 1..Bytes : got'[q][i] = v
  <2>1. CASE q # p
    BY <1>4, <1>6, <1>8, <1>9, <1>14, <2>1 DEF OneMeasurement, AmInv
  <2>2. CASE q = p
    <3>1. j = Bytes
      BY <1>1, <1>6, <1>11, <1>14, <2>2 DEF KeepsUp
    <3>2. \A i \in 1..Bytes : got'[q][i] = amValue
      BY <1>8, <1>12, <1>14, <2>2, <3>1 DEF Bytes
    <3>3. amValue \in 1..clock'
      BY <1>t, <1>9 DEF AmTyped, AmTypeOK
    <3> QED
      BY <3>2, <3>3
  <2> QED
    BY <2>1, <2>2
<1> QED
  BY <1>10, <1>13, <1>14 DEF AmInv, OneMeasurement

LEMMA AmNextInv == AmInv /\ AmNext => AmInv'
<1> SUFFICES ASSUME AmInv, AmNext PROVE AmInv'
  OBVIOUS
<1> USE DEF amProcs
<1>t. AmTyped
  BY DEF AmInv
<1>1. CASE \E p \in AmUsers : am2305_open(p) \/ am2305_close(p) \/ am2305_read(p)
                              \/ read_SensorData(p)
  BY <1>1, AmOpenInv, AmCloseInv, AmReadInv, AmByteInv
<1>2. CASE GivesUnread
  <2>1. AmTyped'
    BY <1>t, <1>2 DEF GivesUnread, AmTyped, AmTypeOK, Silent, Bytes
  <2>2. \A p \in AmUsers : KeepsUp(p)'
    BY <1>2 DEF GivesUnread, KeepsUp, AmInv
  <2>3. OneMeasurement'
    BY <1>2 DEF GivesUnread, OneMeasurement, AmInv
  <2> QED
    BY <2>1, <2>2, <2>3 DEF AmInv
<1>3. CASE Delayed
  <2>1. given' \in 0..Bytes /\ amTroubles' \in 0..AmTroubles /\ slipped' \subseteq AmUsers
    <3>1. given' \in 0..Bytes
      BY <1>t, <1>3 DEF Delayed, AmTyped, AmTypeOK, Silent, Bytes
    <3>2. amTroubles' \in 0..AmTroubles
      BY <1>t, <1>3, AmCounts DEF Delayed
    <3> QED
      BY <1>t, <1>3, <3>1, <3>2 DEF Delayed, AmTyped, AmTypeOK, AmReading
  <2>2. AmTyped'
    BY <1>t, <1>3, <2>1 DEF Delayed, AmTyped, AmTypeOK
  <2>3. \A p \in AmUsers : KeepsUp(p)'
    BY <1>3 DEF Delayed, KeepsUp, AmInv, AmReading
  <2>4. OneMeasurement'
    BY <1>3 DEF Delayed, OneMeasurement, AmInv
  <2> QED
    BY <2>2, <2>3, <2>4 DEF AmInv
<1>4. CASE SensorFails
  <2>1. given' \in 0..Bytes /\ amTroubles' \in 0..AmTroubles
    <3>1. given' \in 0..Bytes
      BY <1>4 DEF SensorFails, Silent, Bytes
    <3> QED
      BY <1>t, <1>4, <3>1, AmCounts DEF SensorFails
  <2>2. AmTyped'
    BY <1>t, <1>4, <2>1 DEF SensorFails, AmTyped, AmTypeOK
  <2>3. \A p \in AmUsers : KeepsUp(p)'
    BY <1>4 DEF SensorFails, KeepsUp, AmInv
  <2>4. OneMeasurement'
    BY <1>4 DEF SensorFails, OneMeasurement, AmInv
  <2> QED
    BY <2>2, <2>3, <2>4 DEF AmInv
<1>5. CASE Rests
  <2>1. measured' <= clock' /\ clock' \in Nat
    BY <1>t, <1>5 DEF Rests, AmTyped, AmTypeOK
  <2>2. AmTyped'
    BY <1>t, <1>5, <2>1 DEF Rests, AmTyped, AmTypeOK
  <2>3. \A p \in AmUsers : KeepsUp(p)'
    BY <1>5 DEF Rests, KeepsUp, AmInv
  <2>4. 1..clock \subseteq 1..clock'
    BY <1>t, <1>5 DEF Rests, AmTyped
  <2>5. OneMeasurement'
    BY <1>5, <2>4 DEF Rests, OneMeasurement, AmInv
  <2> QED
    BY <2>2, <2>3, <2>5 DEF AmInv
<1> QED
  BY <1>1, <1>2, <1>3, <1>4, <1>5 DEF AmNext

-----------------------------------------------------------------------------
(* Counters that wrap round.                                               *)

\* Any number is a whole number of rounds and a rest, ...
LEMMA Remainder ==
  ASSUME NEW n \in Nat \ {0}, NEW x \in Int
  PROVE  /\ x % n \in 0..n - 1
         /\ \E q \in Int : x = n * q + (x % n)
<1>1. x % n \in 0..n - 1
  BY SMT
<1>2. x = n * (x \div n) + (x % n) /\ x \div n \in Int
  BY SMT
<1> QED
  BY <1>1, <1>2

\* ... in one way only, ...
LEMMA OneRemainder ==
  ASSUME NEW n \in Nat \ {0}, NEW q \in Int, NEW p \in Int,
         NEW r \in 0..n - 1, NEW s \in 0..n - 1, n * q + r = n * p + s
  PROVE  r = s
<1>1. n * (q - p) = s - r
  BY SMT
<1>2. ~(q - p >= 1)
  <2> SUFFICES ASSUME q - p >= 1 PROVE FALSE
    OBVIOUS
  <2> DEFINE d == q - p
  <2>1. d \in Int /\ d >= 1 /\ n * d = s - r
    BY <1>1
  <2> HIDE DEF d
  <2>2. n * d >= n
    BY <2>1
  <2> QED
    BY <2>1, <2>2
<1>3. ~(p - q >= 1)
  <2> SUFFICES ASSUME p - q >= 1 PROVE FALSE
    OBVIOUS
  <2> DEFINE d == p - q
  <2>0. n * (p - q) = r - s
    BY <1>1
  <2>1. d \in Int /\ d >= 1 /\ n * d = r - s
    BY <2>0
  <2> HIDE DEF d
  <2>2. n * d >= n
    BY <2>1
  <2> QED
    BY <2>1, <2>2
<1>4. q = p
  BY <1>2, <1>3
<1> QED
  BY <1>4

\* ... so whole rounds do not matter, ...
LEMMA DropRounds ==
  ASSUME NEW n \in Nat \ {0}, NEW d \in Int, NEW e \in Int, NEW m \in Int, d = n * m + e
  PROVE  d % n = e % n
<1>1. PICK s \in Int : d = n * s + (d % n)
  BY Remainder
<1>2. PICK r \in Int : e = n * r + (e % n)
  BY Remainder
<1>3. d % n \in 0..n - 1 /\ e % n \in 0..n - 1
  BY Remainder
<1>4. n * m + n * r = n * (m + r)
  BY SMT
<1>5. n * (m + r) + (e % n) = n * s + (d % n)
  BY <1>1, <1>2, <1>3, <1>4, SMT
<1>6. m + r \in Int
  BY SMT
<1> QED
  BY <1>3, <1>5, <1>6, OneRemainder

\* ... and the difference of two readings is that of what was counted.
LEMMA SameReading ==
  ASSUME NEW n \in Nat \ {0}, NEW a \in Int, NEW b \in Int
  PROVE  ((a % n) - (b % n)) % n = (a - b) % n
<1>1. PICK p \in Int : a = n * p + (a % n)
  BY Remainder
<1>2. PICK q \in Int : b = n * q + (b % n)
  BY Remainder
<1> DEFINE d == a - b
           e == (a % n) - (b % n)
           m == p - q
<1>3. a % n \in Int /\ b % n \in Int
  BY Remainder
<1>4. d = n * m + e /\ d \in Int /\ e \in Int /\ m \in Int
  BY <1>1, <1>2, <1>3, SMT
<1> HIDE DEF d, e, m
<1>5. d % n = e % n
  BY <1>4, DropRounds
<1> QED
  BY <1>5 DEF d, e

\* The sign tells a difference of at most half the range.
LEMMA SignOfDifference ==
  ASSUME NEW half \in Nat \ {0}, NEW d \in Int, d < half, d >= -half
  PROVE  Signed(d % (2 * half), half) = d
<1> DEFINE n == 2 * half
<1>1. n \in Nat \ {0}
  BY SMT
<1>2. PICK q \in Int : d = n * q + (d % n)
  BY <1>1, Remainder
<1>3. d % n \in 0..n - 1
  BY <1>1, Remainder
<1>4. CASE d >= 0
  <2>1. n * q + (d % n) = n * 0 + d /\ d \in 0..n - 1
    BY <1>2, <1>4
  <2>2. d % n = d
    BY <1>1, <1>3, <2>1, OneRemainder
  <2> QED
    BY <2>2, <1>4 DEF Signed
<1>5. CASE d < 0
  <2>1. n * q + (d % n) = n * (-1) + (d + n) /\ d + n \in 0..n - 1
    BY <1>2, <1>5
  <2>2. d % n = d + n
    BY <1>1, <1>3, <2>1, OneRemainder
  <2> QED
    BY <2>2, <1>5 DEF Signed
<1> QED
  BY <1>4, <1>5

\* time_after orders any two times less than half the range apart, however often
\* the counter has wrapped round since; two that are exactly half of it apart
\* are each after the other (main.c, for a counter of any width).
THEOREM TimesInOrder ==
  ASSUME NEW half \in Nat \ {0}, NEW a \in Int, NEW b \in Int
  PROVE  /\ a - b < half /\ b - a < half =>
              (time_after(Wrapped(a, half), Wrapped(b, half), half) <=> a > b)
         /\ a - b = half =>
              /\ time_after(Wrapped(a, half), Wrapped(b, half), half)
              /\ time_after(Wrapped(b, half), Wrapped(a, half), half)
<1>1. 2 * half \in Nat \ {0}
  BY SMT
<1>2. \A x, y \in Int : Wrapped(Wrapped(x, half) - Wrapped(y, half), half) = (x - y) % (2 * half)
  BY <1>1, SameReading DEF Wrapped
<1>3. \A x, y \in Int : y - x < half /\ y - x >= -half =>
        (time_after(Wrapped(x, half), Wrapped(y, half), half) <=> y - x < 0)
  <2> SUFFICES ASSUME NEW x \in Int, NEW y \in Int, y - x < half, y - x >= -half
               PROVE  time_after(Wrapped(x, half), Wrapped(y, half), half) <=> y - x < 0
    OBVIOUS
  <2>1. Signed((y - x) % (2 * half), half) = y - x
    BY SignOfDifference
  <2> QED
    BY <1>2, <2>1 DEF time_after
<1>4. ASSUME a - b = half
      PROVE  time_after(Wrapped(b, half), Wrapped(a, half), half)
  <2>1. half % (2 * half) = half
    BY SMT
  <2>2. Signed((a - b) % (2 * half), half) < 0
    BY <1>4, <2>1 DEF Signed
  <2> QED
    BY <1>2, <2>2 DEF time_after
<1> QED
  BY <1>3, <1>4

-----------------------------------------------------------------------------
(* The touch screen.                                                       *)

\* The sums are of the samples counted, and from del_timer on a timer that is
\* pending, or was used too late, was armed again.
SumsCounted == xp = count /\ reported \in {None, 4}
LateTimer == /\ tsAt \in {"del_timer", "free_irq_tc", "free_irq_adc", "gone"} =>
                  (tsTimer => tsRearmed)
             /\ tsFault => tsRearmed

TsInv == TsTypeOK /\ SumsCounted /\ LateTimer

LEMMA TsInitInv == TsInit => TsInv
<1> SUFFICES ASSUME TsInit PROVE TsInv
  OBVIOUS
<1> USE DEF TsInit
<1>1. TsHalf \in Nat \ {0} /\ TsPenMoves \in Nat
  BY TouchAssumption
<1>2. jiffies \in 0 .. 2 * TsHalf - 1 /\ penMoves \in 0..TsPenMoves
  BY <1>1
<1>3. count \in 0..4 /\ xp \in 0..4 /\ touch \in {0, 1} /\ reported \in {None} \cup 0..4
  OBVIOUS
<1>4. TsTypeOK
  BY <1>2, <1>3 DEF TsTypeOK, Expiry
<1>5. SumsCounted /\ LateTimer
  BY DEF SumsCounted, LateTimer
<1> QED
  BY <1>4, <1>5 DEF TsInv

LEMMA TsRests == TsInv /\ UNCHANGED tsVars => TsInv'
<1> SUFFICES ASSUME TsInv, UNCHANGED tsVars PROVE TsInv'
  OBVIOUS
<1> USE DEF TsInv, tsVars, screenVars, sampleVars, timerVars
<1>1. TsTypeOK'
  BY DEF TsTypeOK
<1>2. SumsCounted' /\ LateTimer'
  BY DEF SumsCounted, LateTimer
<1> QED
  BY <1>1, <1>2

\* The clock goes round.
LEMMA TickTyped ==
  ASSUME NEW n \in Nat \ {0}, NEW j \in 0 .. 2 * n - 1
  PROVE  Wrapped(j + 1, n) \in 0 .. 2 * n - 1
<1>1. 2 * n \in Nat \ {0} /\ j + 1 \in Nat
  OBVIOUS
<1> QED
  BY <1>1 DEF Wrapped

LEMMA MovePenInv == TsInv /\ MovePen => TsInv'
<1> SUFFICES ASSUME TsInv, MovePen PROVE TsInv'
  OBVIOUS
<1> USE DEF MovePen, sampleVars, timerVars
<1>1. TsPenMoves \in Nat
  BY TouchAssumption
<1>2. penMoves \in 0..TsPenMoves
  BY DEF TsInv, TsTypeOK
<1>3. penMoves' \in 0..TsPenMoves
  BY <1>1, <1>2
<1>4. pen' \in {"up", "down"}
  OBVIOUS
<1>5. penIrq' \in BOOLEAN
  BY DEF TsInv, TsTypeOK, DetectPen
<1>6. TsTypeOK'
  BY <1>3, <1>4, <1>5 DEF TsInv, TsTypeOK
<1>7. SumsCounted' /\ LateTimer'
  BY DEF TsInv, SumsCounted, LateTimer
<1> QED
  BY <1>6, <1>7 DEF TsInv

\* What raises the pen's interrupt leaves the rest alone.
LEMMA TsIrqInv == TsInv /\ myts_ts_irq => TsInv'
<1> SUFFICES ASSUME TsInv, myts_ts_irq PROVE TsInv'
  OBVIOUS
<1> USE DEF myts_ts_irq, timerVars, sampleVars
<1>1. penIrq' \in BOOLEAN
  BY DEF DetectPen
<1>2. CASE pen = "down" /\ myts_sample /\ UNCHANGED sampleVars
  <2>1. TsTypeOK'
    BY <1>1, <1>2 DEF TsInv, TsTypeOK, myts_sample
  <2>2. SumsCounted' /\ LateTimer'
    BY <1>2 DEF TsInv, SumsCounted, LateTimer
  <2> QED
    BY <2>1, <2>2 DEF TsInv
<1>3. CASE pen = "up" /\ myts_lifted
  <2>1. TsTypeOK'
    BY <1>1, <1>3 DEF TsInv, TsTypeOK, myts_lifted
  <2>2. SumsCounted' /\ LateTimer'
    BY <1>3 DEF TsInv, SumsCounted, LateTimer, myts_lifted
  <2> QED
    BY <2>1, <2>2 DEF TsInv
<1> QED
  BY <1>2, <1>3

LEMMA AdcIrqInv == TsInv /\ myts_adc_irq => TsInv'
<1> SUFFICES ASSUME TsInv, myts_adc_irq PROVE TsInv'
  OBVIOUS
<1> USE DEF myts_adc_irq, timerVars
<1>1. adcIrq' \in BOOLEAN /\ penIrq' \in BOOLEAN
  BY DEF TsInv, TsTypeOK, DetectPen
<1>2. CASE pen = "down" /\ count = 4 /\ ReportSamples
  <2> USE DEF ReportSamples
  <2>1. reported' = 4 /\ count' = 0 /\ xp' = 0
    BY <1>2 DEF TsInv, SumsCounted
  <2>2. TsTypeOK'
    BY <1>1, <1>2, <2>1 DEF TsInv, TsTypeOK
  <2>3. SumsCounted'
    BY <2>1 DEF SumsCounted
  <2>4. tsAt' = tsAt /\ tsFault' = tsFault /\ (tsRearmed => tsRearmed')
    BY <1>2
  <2>5. tsAt \in {"del_timer", "free_irq_tc", "free_irq_adc", "gone"} => tsRearmed'
    BY <1>2 DEF AdcIrq, AdcIrqOn, PenIrqOn
  <2>6. LateTimer'
    BY <2>4, <2>5 DEF TsInv, LateTimer
  <2> QED
    BY <2>2, <2>3, <2>6 DEF TsInv
<1>3. CASE pen = "down" /\ count # 4 /\ AddSample /\ UNCHANGED timerVars
  <2> USE DEF AddSample, myts_sample
  <2>1. count \in 0..4 /\ xp = count /\ count # 4
    BY <1>3 DEF TsInv, TsTypeOK, SumsCounted
  <2>2. count' \in 0..4 /\ xp' = count'
    BY <1>3, <2>1
  <2>3. TsTypeOK'
    BY <1>1, <1>3, <2>2 DEF TsInv, TsTypeOK
  <2>4. SumsCounted' /\ LateTimer'
    BY <1>3, <2>2 DEF TsInv, SumsCounted, LateTimer
  <2> QED
    BY <2>3, <2>4 DEF TsInv
<1>4. CASE pen = "up" /\ myts_lifted /\ UNCHANGED timerVars
  <2>1. TsTypeOK'
    BY <1>1, <1>4 DEF TsInv, TsTypeOK, myts_lifted
  <2>2. SumsCounted' /\ LateTimer'
    BY <1>4 DEF TsInv, SumsCounted, LateTimer, myts_lifted
  <2> QED
    BY <2>1, <2>2 DEF TsInv
<1> QED
  BY <1>2, <1>3, <1>4

LEMMA TsNextInv == TsInv /\ TsNext => TsInv'
<1> SUFFICES ASSUME TsInv, TsNext PROVE TsInv'
  OBVIOUS
<1> USE DEF screenVars, sampleVars, timerVars, TsProcess
<1>1. CASE MovePen \/ myts_ts_irq \/ myts_adc_irq
  BY <1>1, MovePenInv, TsIrqInv, AdcIrqInv
<1>2. CASE EndConversion
  <2>1. TsTypeOK'
    <3>1. /\ converting' = FALSE /\ adcIrq' = TRUE
          /\ UNCHANGED <<tsAt, pen, penMoves, adctsc, penIrq, count, xp, touch, reported>>
          /\ UNCHANGED <<jiffies, tsTimer, tsExpires, tsFunc, tsRearmed, tsFault>>
      BY <1>2 DEF EndConversion
    <3>2. converting' \in BOOLEAN /\ adcIrq' \in BOOLEAN
      BY <3>1
    <3> HIDE DEF screenVars, sampleVars, timerVars, TsProcess
    <3> QED
      BY <3>1, <3>2 DEF TsInv, TsTypeOK
  <2>2. SumsCounted' /\ LateTimer'
    BY <1>2 DEF TsInv, SumsCounted, LateTimer, EndConversion
  <2> QED
    BY <2>1, <2>2 DEF TsInv
<1>3. CASE TsTick
  <2>1. jiffies' \in 0 .. 2 * TsHalf - 1
    BY <1>3, TouchAssumption, TickTyped DEF TsInv, TsTypeOK, TsTick
  <2>2. TsTypeOK'
    BY <1>3, <2>1 DEF TsInv, TsTypeOK, TsTick
  <2>3. SumsCounted' /\ LateTimer'
    BY <1>3 DEF TsInv, SumsCounted, LateTimer, TsTick
  <2> QED
    BY <2>2, <2>3 DEF TsInv
<1>4. CASE TimerRead
  <2>1. TsTypeOK'
    BY <1>4, ZenonT(30) DEF TsInv, TsTypeOK, TimerRead
  <2>2. SumsCounted'
    BY <1>4 DEF TsInv, SumsCounted, TimerRead
  <2>3. LateTimer'
    BY <1>4 DEF TsInv, LateTimer, TimerRead, TimerDue
  <2> QED
    BY <2>1, <2>2, <2>3 DEF TsInv
<1>5. CASE TimerAct
  <2>1. penIrq' \in BOOLEAN
    BY <1>5 DEF TsInv, TsTypeOK, TimerAct, DetectPen
  <2>2. TsTypeOK'
    BY <1>5, <2>1, ZenonT(30) DEF TsInv, TsTypeOK, TimerAct, myts_sample
  <2>3. SumsCounted' /\ LateTimer'
    BY <1>5 DEF TsInv, SumsCounted, LateTimer, TimerAct
  <2> QED
    BY <2>2, <2>3 DEF TsInv
<1>6. CASE InitIrqs
  <2>1. TsTypeOK'
    BY <1>6 DEF TsInv, TsTypeOK, InitIrqs, AdcIrqOn, PenIrqOn
  <2>2. SumsCounted' /\ LateTimer'
    BY <1>6 DEF TsInv, SumsCounted, LateTimer, InitIrqs
  <2> QED
    BY <2>1, <2>2 DEF TsInv
<1>7. CASE InitWaitDown
  <2>1. penIrq' \in BOOLEAN
    BY <1>7 DEF TsInv, TsTypeOK, InitWaitDown, DetectPen
  <2>2. TsTypeOK'
    BY <1>7, <2>1 DEF TsInv, TsTypeOK, InitWaitDown, AdcIrqOn, PenIrqOn
  <2>3. SumsCounted' /\ LateTimer'
    BY <1>7 DEF TsInv, SumsCounted, LateTimer, InitWaitDown
  <2> QED
    BY <2>2, <2>3 DEF TsInv
<1>8. CASE DelTimer \/ FreeIrqTc
  <2>1. TsTypeOK'
    BY <1>8, ZenonT(30) DEF TsInv, TsTypeOK, DelTimer, FreeIrqTc, AdcIrqOn, PenIrqOn
  <2>2. SumsCounted' /\ LateTimer'
    BY <1>8 DEF TsInv, SumsCounted, LateTimer, DelTimer, FreeIrqTc
  <2> QED
    BY <2>1, <2>2 DEF TsInv
<1>9. CASE FreeIrqAdc \/ Unmap
  <2>1. TsTypeOK'
    BY <1>9 DEF TsInv, TsTypeOK, FreeIrqAdc, Unmap, AdcIrqOn, PenIrqOn
  <2>2. SumsCounted' /\ LateTimer'
    BY <1>9 DEF TsInv, SumsCounted, LateTimer, FreeIrqAdc, Unmap
  <2> QED
    BY <2>1, <2>2 DEF TsInv
<1> QED
  BY <1>1, <1>2, <1>3, <1>4, <1>5, <1>6, <1>7, <1>8, <1>9 DEF TsNext

LEMMA TsGood == TsInv => TouchSafe
BY DEF TsInv, SumsCounted, LateTimer, TouchSafe, FourSamples, OnlyTimerOutlives

-----------------------------------------------------------------------------
(* The thermometer: two bytes and what is made of them.                    *)

Measurable(raw) == raw \in Int /\ -880 <= raw /\ raw <= 2000

\* The chip's sixteenths of a degree are 16 bits in two's complement.
LEMMA WordIs ==
  ASSUME NEW raw \in Int, -880 <= raw, raw <= 2000
  PROVE  \E w \in Int : /\ w = Word(raw) /\ 0 <= w /\ w <= 65535
                        /\ w = IF raw < 0 THEN raw + 65536 ELSE raw
BY DEF Word

LEMMA Sixteenths ==
  ASSUME NEW h \in 0..256, NEW l \in 0..255
  PROVE  (256 * h + l) \div 16 = h * 16 + l \div 16 /\ (256 * h + l) % 16 = l % 16
OBVIOUS

\* The whole degrees that are lost.
Lost(raw) == IF raw < 0 /\ Word(raw) % 256 = 0 THEN 16 ELSE 0

\* The conversion of what the chip measures.
LEMMA Converted ==
  ASSUME NEW raw, Measurable(raw)
  PROVE  Shown(Word(raw) \div 256, Word(raw) % 256)
           = [Actual(raw) EXCEPT !.whole = @ - Lost(raw)]
<1>1. raw \in Int /\ -880 <= raw /\ raw <= 2000
  BY DEF Measurable
<1>2. PICK w \in Int : /\ w = Word(raw) /\ 0 <= w /\ w <= 65535
                       /\ w = IF raw < 0 THEN raw + 65536 ELSE raw
  BY <1>1, WordIs
<1>3. PICK h, l \in 0..255 : h = w \div 256 /\ l = w % 256 /\ w = 256 * h + l
  <2> DEFINE high == w \div 256
             low == w % 256
  <2>1. w \in Int /\ 0 <= w /\ w <= 65535
    BY <1>2
  <2>2. low \in 0..255
    BY <2>1
  <2>3. high \in Int /\ w = 256 * high + low
    BY <2>1
  <2>4. high = w \div 256 /\ low = w % 256
    OBVIOUS
  <2> HIDE DEF high, low
  <2>5. high \in 0..255
    BY <2>1, <2>2, <2>3
  <2> QED
    BY <2>2, <2>3, <2>4, <2>5, Zenon
<1>4. PICK lost \in {0, 16} : lost = Lost(raw) /\ lost = IF raw < 0 /\ l = 0 THEN 16 ELSE 0
  BY <1>2, <1>3 DEF Lost
<1>5. SUFFICES Shown(h, l) = [Actual(raw) EXCEPT !.whole = @ - lost]
  BY <1>2, <1>3, <1>4
<1>6. CASE raw >= 0
  <2>1. raw = 256 * h + l /\ lost = 0
    BY <1>1, <1>2, <1>3, <1>4, <1>6
  <2>2. h \div 8 = 0
    <3>1. h < 8
      BY <1>1, <1>3, <2>1
    <3> QED
      BY <1>3, <3>1
  <2>3. raw \div 16 = h * 16 + l \div 16 /\ raw % 16 = l % 16
    BY <1>3, <2>1, Sixteenths
  <2>4. PICK whole, tenths \in Int : /\ whole = h * 16 + l \div 16
                                    /\ tenths = ((l % 16) * 10) \div 16
    OBVIOUS
  <2>5. Shown(h, l) = [sign |-> "+", whole |-> whole, tenths |-> tenths]
    BY <2>2, <2>4 DEF Shown
  <2>6. Actual(raw) = [sign |-> "+", whole |-> whole, tenths |-> tenths]
    BY <1>1, <1>6, <2>3, <2>4 DEF Actual
  <2> QED
    BY <2>1, <2>5, <2>6
<1>7. CASE raw < 0
  <2>1. raw + 65536 = 256 * h + l /\ lost = IF l = 0 THEN 16 ELSE 0
    BY <1>1, <1>2, <1>3, <1>4, <1>7
  <2>2. h \div 8 # 0
    <3>1. h >= 8
      BY <1>1, <1>3, <2>1
    <3> QED
      BY <1>3, <3>1
  <2>3. PICK t \in 0..255 : t = ((255 - l) + 1) % 256 /\ t = IF l = 0 THEN 0 ELSE 256 - l
    <3>1. CASE l = 0
      <4>1. ((255 - l) + 1) % 256 = 0
        BY <3>1
      <4> QED
        BY <3>1, <4>1
    <3>2. CASE l # 0
      <4>1. ((255 - l) + 1) % 256 = 256 - l /\ 256 - l \in 0..255
        BY <1>3, <3>2
      <4> QED
        BY <3>2, <4>1
    <3> QED
      BY <3>1, <3>2
  <2>4. PICK whole, tenths \in Int : /\ whole = (255 - h) * 16 + t \div 16
                                    /\ tenths = ((t % 16) * 10) \div 16
    OBVIOUS
  <2>5. Shown(h, l) = [sign |-> "-", whole |-> whole, tenths |-> tenths]
    BY <2>2, <2>3, <2>4 DEF Shown
  <2>6. (-raw) \div 16 = whole + lost /\ (-raw) % 16 = t % 16
    <3>1. CASE l = 0
      <4>1. -raw = 256 * (256 - h) + 0 /\ 256 - h \in 0..256
        BY <1>1, <1>3, <2>1, <3>1
      <4>2. (-raw) \div 16 = (256 - h) * 16 + 0 \div 16 /\ (-raw) % 16 = 0 % 16
        BY <4>1, Sixteenths
      <4> QED
        BY <1>3, <2>1, <2>3, <2>4, <3>1, <4>2
    <3>2. CASE l # 0
      <4>1. -raw = 256 * (255 - h) + t /\ 255 - h \in 0..256
        BY <1>1, <1>3, <2>1, <2>3, <3>2
      <4>2. (-raw) \div 16 = (255 - h) * 16 + t \div 16 /\ (-raw) % 16 = t % 16
        BY <2>3, <4>1, Sixteenths
      <4> QED
        BY <2>1, <2>4, <3>2, <4>2
    <3> QED
      BY <3>1, <3>2
  <2>7. Actual(raw) = [sign |-> "-", whole |-> whole + lost, tenths |-> tenths]
    BY <1>7, <2>4, <2>6 DEF Actual
  <2>8. (whole + lost) - lost = whole
    OBVIOUS
  <2> QED
    BY <2>5, <2>7, <2>8
<1> QED
  BY <1>1, <1>6, <1>7

-----------------------------------------------------------------------------
(* The thermometer: reads.                                                 *)

Wires == [state : {"idle", "rom", "function", "sending"}, sent : 0..2]
Texts == [sign : {"none", "+", "-"}, whole : Int, tenths : Int]
ReaderSteps == {"idle", "jump_to_convert", "convert", "wait", "jump_to_read", "read_ram",
                "tl", "th"}

DsTyped ==
  /\ DsTypeOK
  /\ Measurable(scratch) /\ Measurable(temperature)
  /\ dsShown \in [Readers -> [text : Texts, of : Int]]

\* Who reads has the device open, a conversion is awaited by whoever has begun it, ...
OpenReads == \A p \in Readers : reader[p] # "idle" => p \in dsOpen
Awaited == dsMeasuring # Nobody => reader[dsMeasuring] = "wait"

\* ... and as long as nobody interferes the wire is where a reader has brought it ...
OnWire(s, n) == wire = IF dsAttached THEN [state |-> s, sent |-> n] ELSE WireIdle
LeftAlone(p) == p \notin disturbed =>
  /\ reader[p] = "jump_to_read" => OnWire("rom", 0)
  /\ reader[p] = "read_ram" => OnWire("function", 0)
  /\ reader[p] = "tl" => OnWire("sending", 0)
  /\ reader[p] = "th" => /\ OnWire("sending", 1)
                         /\ tl[p] = IF dsAttached THEN Word(scratch) % 256 ELSE 255

\* ... and what he shows in the end is what was measured.
TextOf(raw) == IF raw = NoChip THEN [sign |-> "-", whole |-> 0, tenths |-> 0]
               ELSE [Actual(raw) EXCEPT !.whole = @ - Lost(raw)]
ShownRight(p) == Finished(p) => dsShown[p].text = TextOf(dsShown[p].of)

DsInv == /\ DsTyped /\ OpenReads /\ Awaited
         /\ \A p \in Readers : LeftAlone(p) /\ ShownRight(p)

LEMMA DsGood == DsInv => DsTypeOK /\ ShowsMeasured
<1> SUFFICES ASSUME DsInv PROVE DsTypeOK /\ ShowsMeasured
  OBVIOUS
<1>1. \A p \in Readers : Finished(p) => dsShown[p].text = TextOf(dsShown[p].of)
  BY DEF DsInv, ShownRight
<1>2. ShowsMeasured
  BY <1>1, Zenon DEF ShowsMeasured, TextOf, Lost
<1> QED
  BY <1>2 DEF DsInv, DsTyped

\* What goes over the wire.
LEMMA Heard ==
  ASSUME DsTypeOK
  PROVE  /\ WireIdle \in Wires /\ \A order : Hears(order) \in Wires
         /\ Pulse => wire' \in Wires
<1>1. wire \in Wires
  BY DEF DsTypeOK, Wires
<1>2. WireIdle \in Wires /\ [state |-> "function", sent |-> 0] \in Wires
      /\ [state |-> "sending", sent |-> 0] \in Wires /\ [state |-> "rom", sent |-> 0] \in Wires
  BY DEF WireIdle, Wires
<1>3. [wire EXCEPT !.sent = IF @ < 2 THEN @ + 1 ELSE @] \in Wires
  BY <1>1 DEF Wires
<1>4. ASSUME NEW order PROVE Hears(order) \in Wires
  BY <1>2, <1>3 DEF Hears
<1>5. Pulse => wire' \in Wires
  BY <1>2 DEF Pulse
<1> QED
  BY <1>2, <1>4, <1>5

LEMMA HeardAlone ==
  /\ OnWire("rom", 0) =>
       Hears("jump_rom") = IF dsAttached THEN [state |-> "function", sent |-> 0] ELSE WireIdle
  /\ OnWire("function", 0) =>
       Hears("read_ram") = IF dsAttached THEN [state |-> "sending", sent |-> 0] ELSE WireIdle
  /\ OnWire("sending", 0) =>
       Hears("nothing") = IF dsAttached THEN [state |-> "sending", sent |-> 1] ELSE WireIdle
<1>1. CASE dsAttached
  BY <1>1 DEF OnWire, Hears
<1>2. CASE ~dsAttached
  BY <1>2 DEF OnWire, Hears, WireIdle
<1> QED
  BY <1>1, <1>2

\* The bytes of the temperature.
LEMMA BytesOf ==
  ASSUME NEW raw, Measurable(raw)
  PROVE  Word(raw) % 256 \in 0..255 /\ Word(raw) \div 256 \in 0..255
<1>1. raw \in Int /\ -880 <= raw /\ raw <= 2000
  BY DEF Measurable
<1>2. PICK w \in Int : /\ w = Word(raw) /\ 0 <= w /\ w <= 65535
                       /\ w = IF raw < 0 THEN raw + 65536 ELSE raw
  BY <1>1, WordIs
<1>3. w % 256 \in 0..255 /\ w \div 256 \in 0..255
  BY <1>2
<1> QED
  BY <1>2, <1>3

LEMMA ByteIs ==
  ASSUME Measurable(scratch)
  PROVE  /\ Byte \in 0..255
         /\ OnWire("sending", 0) => Byte = IF dsAttached THEN Word(scratch) % 256 ELSE 255
         /\ OnWire("sending", 1) => Byte = IF dsAttached THEN Word(scratch) \div 256 ELSE 255
<1>1. Word(scratch) % 256 \in 0..255 /\ Word(scratch) \div 256 \in 0..255
  BY BytesOf
<1>2. Byte \in {Word(scratch) % 256, Word(scratch) \div 256, 75, 255}
  BY DEF Byte
<1>3. Byte \in 0..255
  BY <1>1, <1>2
<1>4. CASE dsAttached
  BY <1>3, <1>4 DEF OnWire, Byte
<1>5. CASE ~dsAttached
  BY <1>3, <1>5 DEF OnWire, Byte, WireIdle
<1> QED
  BY <1>4, <1>5

LEMMA ShownTyped ==
  ASSUME NEW h \in 0..255, NEW l \in 0..255
  PROVE  Shown(h, l) \in Texts
<1>1. CASE h \div 8 = 0
  <2>1. PICK whole, tenths \in Int : /\ whole = h * 16 + l \div 16
                                    /\ tenths = ((l % 16) * 10) \div 16
    OBVIOUS
  <2> QED
    BY <1>1, <2>1 DEF Shown, Texts
<1>2. CASE h \div 8 # 0
  <2>1. PICK t \in 0..255 : t = ((255 - l) + 1) % 256
    OBVIOUS
  <2>2. PICK whole, tenths \in Int : /\ whole = (255 - h) * 16 + t \div 16
                                    /\ tenths = ((t % 16) * 10) \div 16
    OBVIOUS
  <2> QED
    BY <1>2, <2>1, <2>2 DEF Shown, Texts
<1> QED
  BY <1>1, <1>2

\* Without a chip all bits are ones.
LEMMA ShownOnes == Shown(255, 255) = [sign |-> "-", whole |-> 0, tenths |-> 0]
<1>1. 255 \div 8 # 0 /\ ((255 - 255) + 1) % 256 = 1
  OBVIOUS
<1>2. (255 - 255) * 16 + 1 \div 16 = 0 /\ ((1 % 16) * 10) \div 16 = 0 /\ ~(1 > 255)
  OBVIOUS
<1> QED
  BY <1>1, <1>2 DEF Shown

\* Whatever process p does, those who are reading have been disturbed, and the others
\* have what they had.
LEMMA OthersApart ==
  ASSUME DsInv, NEW p \in Readers,
         \A q \in Readers \ {p} : /\ reader'[q] = reader[q] /\ dsShown'[q] = dsShown[q]
                                  /\ q \in disturbed \/ reader[q] # "idle" => q \in disturbed'
  PROVE  \A q \in Readers \ {p} : LeftAlone(q)' /\ ShownRight(q)'
<1> SUFFICES ASSUME NEW q \in Readers \ {p} PROVE LeftAlone(q)' /\ ShownRight(q)'
  OBVIOUS
<1>1. LeftAlone(q)'
  BY DEF LeftAlone
<1>2. Finished(q)' => Finished(q)
  BY DEF Finished
<1>3. ShownRight(q)'
  BY <1>2 DEF ShownRight, DsInv
<1> QED
  BY <1>1, <1>3

\* What p does of ds18b20_read, p being disturbed by nobody at that moment.
LEMMA GoesInv ==
  ASSUME DsInv, NEW p \in Readers, NEW from \in ReaderSteps \ {"idle"}, NEW to \in ReaderSteps,
         Goes(p, from, to), Disturbs(p)
  PROVE  /\ reader' \in [Readers -> ReaderSteps] /\ reader[p] = from /\ reader'[p] = to
         /\ p \in dsOpen /\ disturbed' \subseteq Readers /\ disturbed \subseteq disturbed'
         /\ p \in disturbed' => p \in disturbed
         /\ \A q \in Readers \ {p} : /\ reader'[q] = reader[q]
                                     /\ q \in disturbed \/ reader[q] # "idle" => q \in disturbed'
<1>1. reader \in [Readers -> ReaderSteps] /\ disturbed \subseteq Readers
  BY DEF DsInv, DsTyped, DsTypeOK, ReaderSteps
<1>2. /\ reader' \in [Readers -> ReaderSteps] /\ reader[p] = from /\ reader'[p] = to
      /\ \A q \in Readers \ {p} : reader'[q] = reader[q]
  BY <1>1 DEF Goes
<1>3. p \in dsOpen
  BY <1>2 DEF DsInv, OpenReads
<1>4. disturbed' = disturbed \cup (Reading \ {p}) /\ Reading \subseteq Readers
  BY DEF Disturbs, Reading
<1>5. \A q \in Readers \ {p} : reader[q] # "idle" => q \in Reading
  BY DEF Reading
<1> QED
  BY <1>1, <1>2, <1>3, <1>4, <1>5

\* Such a step, before the last one.
LEMMA StepInv ==
  ASSUME DsInv, NEW p \in Readers, NEW from \in ReaderSteps \ {"idle"},
         NEW to \in ReaderSteps \ {"idle"},
         Goes(p, from, to), Disturbs(p), wire' \in Wires, tl' \in [Readers -> 0..255],
         \A q \in Readers \ {p} : tl'[q] = tl[q],
         dsMeasuring' = dsMeasuring, dsMeasuring = p => from # "wait",
         UNCHANGED <<dsOpen, dsShown, scratch, temperature, dsAttached, dsReads, dsEvents>>,
         LeftAlone(p)'
  PROVE  DsInv'
<1>1. /\ reader' \in [Readers -> ReaderSteps] /\ reader[p] = from /\ reader'[p] = to
      /\ p \in dsOpen /\ disturbed' \subseteq Readers
      /\ \A q \in Readers \ {p} : /\ reader'[q] = reader[q]
                                  /\ q \in disturbed \/ reader[q] # "idle" => q \in disturbed'
  BY GoesInv
<1>2. DsTyped'
  BY <1>1 DEF DsInv, DsTyped, DsTypeOK, ReaderSteps, Wires
<1>3. OpenReads'
  BY <1>1 DEF DsInv, OpenReads
<1>4. Awaited'
  <2>1. dsMeasuring # Nobody => dsMeasuring \in Readers /\ dsMeasuring # p
    BY <1>1 DEF DsInv, DsTyped, DsTypeOK, Awaited
  <2> QED
    BY <1>1, <2>1 DEF DsInv, Awaited
<1>5. \A q \in Readers \ {p} : LeftAlone(q)' /\ ShownRight(q)'
  BY <1>1, OthersApart
<1>6. ShownRight(p)'
  BY <1>1 DEF ShownRight, Finished
<1> QED
  BY <1>2, <1>3, <1>4, <1>5, <1>6 DEF DsInv

LEMMA WriteJumpInv == ASSUME DsInv, NEW p \in Readers, WriteJump(p) PROVE DsInv'
<1> USE DEF WriteJump
<1>1. wire' \in Wires /\ tl \in [Readers -> 0..255]
  BY Heard DEF DsInv, DsTyped, DsTypeOK
<1>2. CASE Goes(p, "jump_to_convert", "convert")
  <2>1. LeftAlone(p)'
    BY <1>2, GoesInv DEF LeftAlone, ReaderSteps
  <2> QED
    BY <1>1, <1>2, <2>1, StepInv DEF ReaderSteps
<1>3. CASE Goes(p, "jump_to_read", "read_ram")
  <2>1. /\ reader[p] = "jump_to_read" /\ reader'[p] = "read_ram"
        /\ (p \in disturbed' <=> p \in disturbed)
    BY <1>3, GoesInv DEF ReaderSteps
  <2>2. LeftAlone(p)
    BY DEF DsInv
  <2>3. p \notin disturbed' =>
          wire' = IF dsAttached THEN [state |-> "function", sent |-> 0] ELSE WireIdle
    BY <2>1, <2>2, HeardAlone DEF LeftAlone
  <2>4. LeftAlone(p)'
    BY <2>1, <2>3 DEF LeftAlone, OnWire
  <2> QED
    BY <1>1, <1>3, <2>4, StepInv DEF ReaderSteps
<1> QED
  BY <1>2, <1>3

LEMMA WorkInitInv == ASSUME DsInv, NEW p \in Readers, WorkInit(p) PROVE DsInv'
<1> USE DEF WorkInit
<1>1. wire' \in Wires /\ tl \in [Readers -> 0..255]
  BY Heard DEF DsInv, DsTyped, DsTypeOK
<1>2. Goes(p, "wait", "jump_to_read") /\ dsMeasuring # p
  OBVIOUS
<1>3. reader'[p] = "jump_to_read"
  BY <1>2, GoesInv DEF ReaderSteps
<1>4. LeftAlone(p)'
  BY <1>3 DEF LeftAlone, OnWire, Pulse
<1> QED
  BY <1>1, <1>2, <1>4, StepInv DEF ReaderSteps

LEMMA WriteReadRamInv == ASSUME DsInv, NEW p \in Readers, WriteReadRam(p) PROVE DsInv'
<1> USE DEF WriteReadRam
<1>1. wire' \in Wires /\ tl \in [Readers -> 0..255]
  BY Heard DEF DsInv, DsTyped, DsTypeOK
<1>2. Goes(p, "read_ram", "tl")
  OBVIOUS
<1>3. reader[p] = "read_ram" /\ reader'[p] = "tl" /\ (p \in disturbed' <=> p \in disturbed)
  BY <1>2, GoesInv DEF ReaderSteps
<1>4. LeftAlone(p)
  BY DEF DsInv
<1>5. p \notin disturbed' =>
        wire' = IF dsAttached THEN [state |-> "sending", sent |-> 0] ELSE WireIdle
  BY <1>3, <1>4, HeardAlone DEF LeftAlone
<1>6. LeftAlone(p)'
  BY <1>3, <1>5 DEF LeftAlone, OnWire
<1> QED
  BY <1>1, <1>2, <1>6, StepInv DEF ReaderSteps

LEMMA ReadLowInv == ASSUME DsInv, NEW p \in Readers, ReadLow(p) PROVE DsInv'
<1> USE DEF ReadLow
<1>1. wire' \in Wires /\ Byte \in 0..255
  BY Heard, ByteIs DEF DsInv, DsTyped
<1>2. Goes(p, "tl", "th")
  OBVIOUS
<1>3. reader[p] = "tl" /\ reader'[p] = "th" /\ (p \in disturbed' <=> p \in disturbed)
  BY <1>2, GoesInv DEF ReaderSteps
<1>4. LeftAlone(p) /\ Measurable(scratch)
  BY DEF DsInv, DsTyped
<1>5. /\ tl' \in [Readers -> 0..255] /\ tl'[p] = Byte
      /\ \A q \in Readers \ {p} : tl'[q] = tl[q]
  BY <1>1 DEF DsInv, DsTyped, DsTypeOK
<1>6. p \notin disturbed' =>
        /\ wire' = IF dsAttached THEN [state |-> "sending", sent |-> 1] ELSE WireIdle
        /\ tl'[p] = IF dsAttached THEN Word(scratch) % 256 ELSE 255
  BY <1>3, <1>4, <1>5, HeardAlone, ByteIs DEF LeftAlone
<1>7. LeftAlone(p)'
  BY <1>3, <1>6 DEF LeftAlone, OnWire
<1> QED
  BY <1>1, <1>2, <1>5, <1>7, StepInv DEF ReaderSteps

LEMMA WriteConvertInv == ASSUME DsInv, NEW p \in Readers, WriteConvert(p) PROVE DsInv'
<1> USE DEF WriteConvert
<1>1. wire' \in Wires
  BY Heard DEF DsInv, DsTyped
<1>2. Goes(p, "convert", "wait")
  OBVIOUS
<1>3. /\ reader' \in [Readers -> ReaderSteps] /\ reader[p] = "convert" /\ reader'[p] = "wait"
      /\ p \in dsOpen /\ disturbed' \subseteq Readers
      /\ \A q \in Readers \ {p} : /\ reader'[q] = reader[q]
                                  /\ q \in disturbed \/ reader[q] # "idle" => q \in disturbed'
  BY <1>2, GoesInv DEF ReaderSteps
<1>4. dsMeasuring' \in Readers \cup {Nobody} /\ dsMeasuring' \in {dsMeasuring, p}
  BY DEF DsInv, DsTyped, DsTypeOK
<1>5. DsTyped'
  BY <1>1, <1>3, <1>4 DEF DsInv, DsTyped, DsTypeOK, ReaderSteps, Wires
<1>6. OpenReads'
  BY <1>3 DEF DsInv, OpenReads
<1>7. Awaited'
  BY <1>3, <1>4, <1>5 DEF DsInv, DsTyped, DsTypeOK, Awaited
<1>8. \A q \in Readers \ {p} : LeftAlone(q)' /\ ShownRight(q)'
  BY <1>3, OthersApart
<1>9. LeftAlone(p)' /\ ShownRight(p)'
  BY <1>3 DEF LeftAlone, ShownRight, Finished
<1> QED
  BY <1>5, <1>6, <1>7, <1>8, <1>9 DEF DsInv

LEMMA ReadHighInv == ASSUME DsInv, NEW p \in Readers, ReadHigh(p) PROVE DsInv'
<1> USE DEF ReadHigh
<1>1. wire' \in Wires /\ Byte \in 0..255 /\ Measurable(scratch)
  BY Heard, ByteIs DEF DsInv, DsTyped
<1>2. Goes(p, "th", "idle")
  OBVIOUS
<1>3. /\ reader' \in [Readers -> ReaderSteps] /\ reader[p] = "th" /\ reader'[p] = "idle"
      /\ p \in dsOpen /\ disturbed' \subseteq Readers /\ (p \in disturbed' <=> p \in disturbed)
      /\ \A q \in Readers \ {p} : /\ reader'[q] = reader[q]
                                  /\ q \in disturbed \/ reader[q] # "idle" => q \in disturbed'
  BY <1>2, GoesInv DEF ReaderSteps
<1> DEFINE of == IF dsAttached THEN scratch ELSE NoChip
           show == [text |-> Shown(Byte, tl[p]), of |-> of]
<1>4. tl' \in [Readers -> 0..255] /\ tl[p] \in 0..255
  BY DEF DsInv, DsTyped, DsTypeOK
<1>5. /\ dsShown' \in [Readers -> [text : Texts, of : Int]] /\ dsShown'[p] = show
      /\ \A q \in Readers \ {p} : dsShown'[q] = dsShown[q]
  <2>1. Shown(Byte, tl[p]) \in Texts
    BY <1>1, <1>4, ShownTyped
  <2>2. of \in Int
    BY <1>1 DEF Measurable, NoChip
  <2>3. show \in [text : Texts, of : Int]
    BY <2>1, <2>2
  <2>4. /\ dsShown' = [dsShown EXCEPT ![p] = show]
        /\ dsShown \in [Readers -> [text : Texts, of : Int]]
    BY DEF DsInv, DsTyped
  <2> HIDE DEF show
  <2> QED
    BY <2>3, <2>4
<1>6. DsTyped'
  BY <1>1, <1>3, <1>4, <1>5 DEF DsInv, DsTyped, DsTypeOK, ReaderSteps, Wires
<1>7. OpenReads'
  BY <1>3 DEF DsInv, OpenReads
<1>8. Awaited'
  BY <1>3 DEF DsInv, DsTyped, DsTypeOK, Awaited
<1>9. \A q \in Readers \ {p} : LeftAlone(q)' /\ ShownRight(q)'
  BY <1>3, <1>5, OthersApart
<1>10. LeftAlone(p)'
  BY <1>3 DEF LeftAlone
<1>11. p \notin disturbed => Shown(Byte, tl[p]) = TextOf(of)
  <2> SUFFICES ASSUME p \notin disturbed PROVE Shown(Byte, tl[p]) = TextOf(of)
    OBVIOUS
  <2>1. OnWire("sending", 1) /\ tl[p] = IF dsAttached THEN Word(scratch) % 256 ELSE 255
    BY <1>3 DEF DsInv, LeftAlone
  <2>2. CASE dsAttached
    <3>1. Byte = Word(scratch) \div 256 /\ tl[p] = Word(scratch) % 256 /\ of = scratch
      BY <1>1, <2>1, <2>2, ByteIs
    <3>2. scratch # NoChip
      BY <1>1 DEF Measurable, NoChip
    <3>3. TextOf(scratch) = [Actual(scratch) EXCEPT !.whole = @ - Lost(scratch)]
      BY <3>2 DEF TextOf
    <3> QED
      BY <1>1, <3>1, <3>3, Converted
  <2>3. CASE ~dsAttached
    <3>1. Byte = 255 /\ tl[p] = 255 /\ of = NoChip
      BY <1>1, <2>1, <2>3, ByteIs
    <3> QED
      BY <3>1, ShownOnes DEF TextOf
  <2> QED
    BY <2>2, <2>3
<1>12. ShownRight(p)'
  BY <1>3, <1>5, <1>11 DEF ShownRight, Finished
<1> QED
  BY <1>6, <1>7, <1>8, <1>9, <1>10, <1>12 DEF DsInv

LEMMA DsOpenInv == ASSUME DsInv, NEW p \in Readers, ds18b20_open(p) PROVE DsInv'
<1> USE DEF ds18b20_open
<1>1. wire' \in Wires
  BY Heard DEF DsInv, DsTyped
<1>2. reader[p] = "idle"
  BY DEF DsInv, OpenReads
<1>3. disturbed' = disturbed \cup (Reading \ {p}) /\ Reading \subseteq Readers
  BY DEF Disturbs, Reading
<1>4. \A q \in Readers \ {p} : reader[q] # "idle" => q \in Reading
  BY DEF Reading
<1>5. DsTyped'
  <2>1. dsOpen' \subseteq Readers /\ disturbed' \subseteq Readers
    BY <1>3 DEF DsInv, DsTyped, DsTypeOK
  <2> QED
    BY <1>1, <2>1 DEF DsInv, DsTyped, DsTypeOK, Wires
<1>6. OpenReads' /\ Awaited'
  BY DEF DsInv, OpenReads, Awaited
<1>7. \A q \in Readers \ {p} : LeftAlone(q)' /\ ShownRight(q)'
  BY <1>3, <1>4, OthersApart
<1>8. LeftAlone(p)'
  BY <1>2 DEF LeftAlone
<1>9. ShownRight(p)'
  BY <1>3 DEF DsInv, ShownRight, Finished
<1> QED
  BY <1>5, <1>6, <1>7, <1>8, <1>9 DEF DsInv

LEMMA DsReadInv == ASSUME DsInv, NEW p \in Readers, ds18b20_read(p) PROVE DsInv'
<1> USE DEF ds18b20_read
<1>1. wire' \in Wires
  BY Heard DEF DsInv, DsTyped
<1>2. disturbed' = (disturbed \ {p}) \cup (Reading \ {p}) /\ Reading \subseteq Readers
  BY DEF Reading
<1>3. \A q \in Readers \ {p} : reader[q] # "idle" => q \in Reading
  BY DEF Reading
<1>4. /\ reader' \in [Readers -> ReaderSteps] /\ reader'[p] = "jump_to_convert"
      /\ \A q \in Readers \ {p} : reader'[q] = reader[q]
  BY DEF DsInv, DsTyped, DsTypeOK, ReaderSteps
<1>5. NotYet \in [text : Texts, of : Int]
  BY DEF NotYet, Texts
<1>6. /\ dsShown' \in [Readers -> [text : Texts, of : Int]]
      /\ \A q \in Readers \ {p} : dsShown'[q] = dsShown[q]
  BY <1>5 DEF DsInv, DsTyped
<1>7. DsTyped'
  <2>1. dsReads \in 0..DsReads /\ dsReads < DsReads /\ dsReads' = dsReads + 1 /\ DsReads \in Nat
    BY Ds18b20Assumption DEF DsInv, DsTyped, DsTypeOK
  <2>2. dsReads' \in 0..DsReads
    BY <2>1
  <2>3. disturbed' \subseteq Readers
    BY <1>2 DEF DsInv, DsTyped, DsTypeOK
  <2> QED
    BY <1>1, <1>4, <1>6, <2>2, <2>3 DEF DsInv, DsTyped, DsTypeOK, ReaderSteps, Wires
<1>8. OpenReads'
  BY <1>4 DEF DsInv, OpenReads
<1>9. Awaited'
  BY <1>4 DEF DsInv, DsTyped, DsTypeOK, Awaited
<1>10. \A q \in Readers \ {p} : LeftAlone(q)' /\ ShownRight(q)'
  BY <1>2, <1>3, <1>4, <1>6, OthersApart
<1>11. LeftAlone(p)' /\ ShownRight(p)'
  BY <1>4 DEF LeftAlone, ShownRight, Finished
<1> QED
  BY <1>7, <1>8, <1>9, <1>10, <1>11 DEF DsInv

LEMMA DsCloseInv == ASSUME DsInv, NEW p \in Readers, ds18b20_close(p) PROVE DsInv'
<1> USE DEF ds18b20_close, dsChip
<1>1. DsTyped'
  BY DEF DsInv, DsTyped, DsTypeOK
<1>2. OpenReads' /\ Awaited'
  BY DEF DsInv, OpenReads, Awaited
<1>3. \A q \in Readers : LeftAlone(q)' /\ ShownRight(q)'
  BY DEF DsInv, LeftAlone, OnWire, ShownRight, Finished
<1> QED
  BY <1>1, <1>2, <1>3 DEF DsInv

LEMMA DsRests == DsInv /\ UNCHANGED dsVars => DsInv'
<1> SUFFICES ASSUME DsInv, UNCHANGED dsVars PROVE DsInv'
  OBVIOUS
<1> USE DEF dsVars, dsProcs, dsChip
<1>1. DsTyped'
  BY DEF DsInv, DsTyped, DsTypeOK
<1>2. OpenReads' /\ Awaited'
  BY DEF DsInv, OpenReads, Awaited
<1>3. \A q \in Readers : LeftAlone(q)' /\ ShownRight(q)'
  BY DEF DsInv, LeftAlone, OnWire, ShownRight, Finished
<1> QED
  BY <1>1, <1>2, <1>3 DEF DsInv

\* The chip measures; whoever has not started that and is reading is disturbed.
LEMMA ChipMeasuredInv == DsInv /\ ChipMeasured => DsInv'
<1> SUFFICES ASSUME DsInv, ChipMeasured PROVE DsInv'
  OBVIOUS
<1> USE DEF ChipMeasured, dsProcs
<1>1. PICK p \in Readers : p = dsMeasuring /\ reader[p] = "wait"
  BY DEF DsInv, DsTyped, DsTypeOK, Awaited
<1>2. disturbed' = disturbed \cup (Reading \ {p}) /\ Reading \subseteq Readers
  BY <1>1 DEF Disturbs, Reading
<1>3. \A q \in Readers \ {p} : reader[q] # "idle" => q \in Reading
  BY DEF Reading
<1>4. Measurable(scratch')
  BY DEF DsInv, DsTyped
<1>5. DsTyped'
  BY <1>2, <1>4 DEF DsInv, DsTyped, DsTypeOK
<1>6. OpenReads' /\ Awaited'
  BY DEF DsInv, OpenReads, Awaited
<1>7. \A q \in Readers \ {p} : LeftAlone(q)' /\ ShownRight(q)'
  BY <1>1, <1>2, <1>3, OthersApart
<1>8. LeftAlone(p)' /\ ShownRight(p)'
  BY <1>1 DEF LeftAlone, ShownRight, Finished
<1> QED
  BY <1>5, <1>6, <1>7, <1>8 DEF DsInv

LEMMA DsEventCounts == ASSUME DsTypeOK, dsEvents < DsEvents PROVE dsEvents + 1 \in 0..DsEvents
<1>1. dsEvents \in 0..DsEvents /\ DsEvents \in Nat
  BY Ds18b20Assumption DEF DsTypeOK
<1> QED
  BY <1>1

LEMMA WeatherInv == DsInv /\ WeatherChanges => DsInv'
<1> SUFFICES ASSUME DsInv, WeatherChanges PROVE DsInv'
  OBVIOUS
<1> USE DEF WeatherChanges, dsProcs
<1>1. dsEvents' \in 0..DsEvents
  BY DsEventCounts DEF DsInv, DsTyped
<1>2. Measurable(temperature')
  BY Ds18b20Assumption DEF Measurable
<1>3. DsTyped'
  BY <1>1, <1>2 DEF DsInv, DsTyped, DsTypeOK
<1>4. OpenReads' /\ Awaited'
  BY DEF DsInv, OpenReads, Awaited
<1>5. \A q \in Readers : LeftAlone(q)' /\ ShownRight(q)'
  BY DEF DsInv, LeftAlone, OnWire, ShownRight, Finished
<1> QED
  BY <1>3, <1>4, <1>5 DEF DsInv

LEMMA ChipPluggedInv == DsInv /\ ChipPlugged => DsInv'
<1> SUFFICES ASSUME DsInv, ChipPlugged PROVE DsInv'
  OBVIOUS
<1> USE DEF ChipPlugged, dsProcs
<1>1. dsEvents' \in 0..DsEvents
  BY DsEventCounts DEF DsInv, DsTyped
<1>2. Measurable(scratch')
  BY DEF Measurable
<1>3. wire' \in Wires /\ disturbed' \subseteq Readers /\ dsAttached' \in BOOLEAN
  BY Heard DEF DsInv, DsTyped, DsTypeOK, Reading
<1>4. DsTyped'
  BY <1>1, <1>2, <1>3 DEF DsInv, DsTyped, DsTypeOK, Wires
<1>5. OpenReads' /\ Awaited'
  BY DEF DsInv, OpenReads, Awaited
<1>6. ASSUME NEW q \in Readers PROVE LeftAlone(q)' /\ ShownRight(q)'
  <2>1. reader[q] # "idle" => q \in disturbed'
    BY DEF Reading
  <2>2. LeftAlone(q)'
    BY <2>1 DEF LeftAlone
  <2>3. Finished(q)' => Finished(q)
    BY DEF Finished
  <2> QED
    BY <2>2, <2>3 DEF DsInv, ShownRight
<1> QED
  BY <1>4, <1>5, <1>6 DEF DsInv

LEMMA DsInitInv == DsInit => DsInv
<1> SUFFICES ASSUME DsInit PROVE DsInv
  OBVIOUS
<1> USE DEF DsInit
<1>1. dsReads \in 0..DsReads /\ dsEvents \in 0..DsEvents
  BY Ds18b20Assumption
<1>2. wire \in Wires
  BY DEF WireIdle, Wires
<1>3. DsTypeOK
  BY <1>1, <1>2 DEF DsTypeOK, Wires
<1>4. Measurable(scratch) /\ Measurable(temperature)
  BY DEF Measurable
<1>5. NotYet \in [text : Texts, of : Int]
  BY DEF NotYet, Texts
<1>6. DsTyped
  BY <1>3, <1>4, <1>5 DEF DsTyped
<1>7. OpenReads /\ Awaited
  BY DEF OpenReads, Awaited
<1>8. \A p \in Readers : LeftAlone(p) /\ ShownRight(p)
  BY DEF LeftAlone, ShownRight, Finished
<1> QED
  BY <1>6, <1>7, <1>8 DEF DsInv

LEMMA DsNextInv == DsInv /\ DsNext => DsInv'
<1> SUFFICES ASSUME DsInv, DsNext PROVE DsInv'
  OBVIOUS
<1>1. CASE \E p \in Readers : ds18b20_open(p) \/ ds18b20_close(p) \/ ds18b20_read(p)
  BY <1>1, DsOpenInv, DsCloseInv, DsReadInv
<1>2. CASE \E p \in Readers : DsStep(p)
  BY <1>2, WriteJumpInv, WriteConvertInv, WorkInitInv, WriteReadRamInv, ReadLowInv, ReadHighInv
  DEF DsStep
<1>3. CASE ChipMeasured \/ WeatherChanges \/ ChipPlugged
  BY <1>3, ChipMeasuredInv, WeatherInv, ChipPluggedInv
<1> QED
  BY <1>1, <1>2, <1>3 DEF DsNext

-----------------------------------------------------------------------------
(* What that says of the demonstrations.  A step of Demos is a step of the *)
(* one demonstration that was chosen, and the others rest.                 *)

LEMMA TouchKept == TsInv /\ [Next]_demoVars => TsInv'
<1> SUFFICES ASSUME TsInv, [Next]_demoVars PROVE TsInv'
  OBVIOUS
<1>1. CASE Touch
  BY <1>1, TsNextInv DEF Touch
<1>2. CASE UNCHANGED tsVars
  BY <1>2, TsRests
<1>3. Touch \/ UNCHANGED tsVars
  BY DEF Next, demoVars, Port, Mouse, Dma, Disk, Op, I2c, Life, Ds, Am
<1> QED
  BY <1>1, <1>2, <1>3

LEMMA PortKept == PortInv /\ [Next]_demoVars => PortInv'
<1> SUFFICES ASSUME PortInv, [Next]_demoVars PROVE PortInv'
  OBVIOUS
<1>1. CASE Port
  BY <1>1, PortNextInv DEF Port
<1>2. CASE UNCHANGED portVars
  BY <1>2, PortRests
<1>3. Port \/ UNCHANGED portVars
  BY DEF Next, demoVars, Touch, Mouse, Dma, Disk, Op, I2c, Life, Ds, Am
<1> QED
  BY <1>1, <1>2, <1>3

LEMMA MouseKept == MouseInv /\ [Next]_demoVars => MouseInv'
<1> SUFFICES ASSUME MouseInv, [Next]_demoVars PROVE MouseInv'
  OBVIOUS
<1>1. CASE Mouse
  BY <1>1, MouseNextInv DEF Mouse
<1>2. CASE UNCHANGED mouseVars
  BY <1>2, MouseRests
<1>3. Mouse \/ UNCHANGED mouseVars
  BY DEF Next, demoVars, Touch, Port, Dma, Disk, Op, I2c, Life, Ds, Am
<1> QED
  BY <1>1, <1>2, <1>3

LEMMA DmaKept == DmaInv /\ [Next]_demoVars => DmaInv'
<1> SUFFICES ASSUME DmaInv, [Next]_demoVars PROVE DmaInv'
  OBVIOUS
<1>1. CASE Dma
  BY <1>1, DmaNextInv DEF Dma
<1>2. CASE UNCHANGED dmaVars
  BY <1>2, DmaRests
<1>3. Dma \/ UNCHANGED dmaVars
  BY DEF Next, demoVars, Touch, Port, Mouse, Disk, Op, I2c, Life, Ds, Am
<1> QED
  BY <1>1, <1>2, <1>3

LEMMA DiskKept == DiskInv /\ [Next]_demoVars => DiskInv'
<1> SUFFICES ASSUME DiskInv, [Next]_demoVars PROVE DiskInv'
  OBVIOUS
<1>1. CASE Disk
  BY <1>1, DiskNextInv DEF Disk
<1>2. CASE UNCHANGED diskVars
  BY <1>2, DiskRests
<1>3. Disk \/ UNCHANGED diskVars
  BY DEF Next, demoVars, Touch, Port, Mouse, Dma, Op, I2c, Life, Ds, Am
<1> QED
  BY <1>1, <1>2, <1>3

LEMMA OpKept == OpInv /\ [Next]_demoVars => OpInv'
<1> SUFFICES ASSUME OpInv, [Next]_demoVars PROVE OpInv'
  OBVIOUS
<1>1. CASE Op
  BY <1>1, OpNextInv DEF Op
<1>2. CASE UNCHANGED opVars
  BY <1>2, OpRests
<1>3. Op \/ UNCHANGED opVars
  BY DEF Next, demoVars, Touch, Port, Mouse, Dma, Disk, I2c, Life, Ds, Am
<1> QED
  BY <1>1, <1>2, <1>3

LEMMA I2cKept == I2cInv /\ [Next]_demoVars => I2cInv'
<1> SUFFICES ASSUME I2cInv, [Next]_demoVars PROVE I2cInv'
  OBVIOUS
<1>1. CASE I2c
  BY <1>1, I2cNextInv DEF I2c
<1>2. CASE UNCHANGED i2cVars
  BY <1>2, I2cRests
<1>3. I2c \/ UNCHANGED i2cVars
  BY DEF Next, demoVars, Touch, Port, Mouse, Dma, Disk, Op, Life, Ds, Am
<1> QED
  BY <1>1, <1>2, <1>3

LEMMA LifeKept == LifeInv /\ [Next]_demoVars => LifeInv'
<1> SUFFICES ASSUME LifeInv, [Next]_demoVars PROVE LifeInv'
  OBVIOUS
<1>1. CASE Life
  BY <1>1, LifeNextInv DEF Life
<1>2. CASE UNCHANGED lifeVars
  BY <1>2, LifeRests
<1>3. Life \/ UNCHANGED lifeVars
  BY DEF Next, demoVars, Touch, Port, Mouse, Dma, Disk, Op, I2c, Ds, Am
<1> QED
  BY <1>1, <1>2, <1>3

LEMMA DsKept == DsInv /\ [Next]_demoVars => DsInv'
<1> SUFFICES ASSUME DsInv, [Next]_demoVars PROVE DsInv'
  OBVIOUS
<1>1. CASE Ds
  BY <1>1, DsNextInv DEF Ds
<1>2. CASE UNCHANGED dsVars
  BY <1>2, DsRests
<1>3. Ds \/ UNCHANGED dsVars
  BY DEF Next, demoVars, Touch, Port, Mouse, Dma, Disk, Op, I2c, Life, Am
<1> QED
  BY <1>1, <1>2, <1>3

LEMMA AmKept == AmInv /\ [Next]_demoVars => AmInv'
<1> SUFFICES ASSUME AmInv, [Next]_demoVars PROVE AmInv'
  OBVIOUS
<1>1. CASE Am
  BY <1>1, AmNextInv DEF Am
<1>2. CASE UNCHANGED amVars
  BY <1>2, AmRests
<1>3. Am \/ UNCHANGED amVars
  BY DEF Next, demoVars, Touch, Port, Mouse, Dma, Disk, Op, I2c, Life, Ds
<1> QED
  BY <1>1, <1>2, <1>3

\* While one mouse is there at a time, usb_mid uses no freed URB or buffer,
\* leaves nothing of a mouse that is gone and hears the one it has; usb_hard
\* fails only by putting its input device twice and by taking a probe without
\* a result for a failure (usb_mid.c, usb_hard.c), for any number of mice.
THEOREM MouseAlone == Spec => []MouseSafeAlone
<1>1. Init => MouseInv
  BY InitInv DEF Init
<1>2. MouseInv /\ [Next]_demoVars => MouseInv'
  BY MouseKept
<1>3. MouseInv => MouseSafeAlone
  BY DEF MouseInv
<1> QED
  BY <1>1, <1>2, <1>3, PTL DEF Spec

\* What netif_op has set stays set until it sets it again, and what ethtool_op
\* prints last is what the interface has, unless another program came in between
\* (netif_op.c, ethtool_op.c).
THEOREM SettingsStay == Spec => []SettingsStick
<1>1. Init => OpInv
  BY OpInitInv DEF Init
<1>2. OpInv /\ [Next]_demoVars => OpInv'
  BY OpKept
<1>3. OpInv => SettingsStick
  BY DEF OpInv
<1> QED
  BY <1>1, <1>2, <1>3, PTL DEF Spec

\* The drivers on the I2C bus and the other small modules are loaded and
\* unloaded in any order, some of their calls failing, without using what is
\* gone or leaving more than what they are known to leave (the module_init and
\* module_exit functions of the drivers).
THEOREM ModulesComeAndGoHolds == Spec => []ModulesComeAndGo
<1>1. Init => I2cInv /\ LifeInv
  BY I2cInitInv, LifeInitInv DEF Init
<1>2. I2cInv /\ [Next]_demoVars => I2cInv'
  BY I2cKept
<1>3. LifeInv /\ [Next]_demoVars => LifeInv'
  BY LifeKept
<1>4. I2cInv /\ LifeInv => ModulesComeAndGo
  BY I2cGood, LifeGood DEF ModulesComeAndGo
<1> QED
  BY <1>1, <1>2, <1>3, <1>4, PTL DEF Spec

\* What a block driver's disk holds is what was written to it, and a read brings
\* what its sectors held, for any requests of any users at once, in whatever
\* order the loops over segments and bios interleave (blk_simp.c, blk_mid.c,
\* blk_hard.c).
THEOREM DiskDataKept == Spec => []DiskKeepsData
<1>1. Init => DiskInv
  BY DiskInitInv DEF Init
<1>2. DiskInv /\ [Next]_demoVars => DiskInv'
  BY DiskKept
<1>3. DiskInv => DiskKeepsData
  BY DiskGood
<1> QED
  BY <1>1, <1>2, <1>3, PTL DEF Spec

\* A DMA ioctl that finds the wrong bytes, and everything that faults, has one of
\* the named causes, for any number of callers (the_dma.c): an open before init was
\* through, a second caller or a signal, a buffer or a class that init did not get.
THEOREM DmaExplained == Spec => [](ErrorsExplained /\ DmaFaultsExplained)
<1>1. Init => DmaInv
  BY DmaInitInv DEF Init
<1>2. DmaInv /\ [Next]_demoVars => DmaInv'
  BY DmaKept
<1>3. DmaInv => ErrorsExplained /\ DmaFaultsExplained
  BY DEF DmaInv
<1> QED
  BY <1>1, <1>2, <1>3, PTL DEF Spec

\* Unless an interrupt came before the button driver was up or while it was going
\* away, its only faults are the second put of its device at every unload and the
\* use of a device that it could not allocate or register; and the pins that
\* hw_control drives are at the levels last written, unless somebody else has
\* configured them
\* (key_input.c, hw_control.c), for any pins.
THEOREM PortSafe == Spec => [](KeyFaultsExplained /\ LevelsDriven)
<1>1. Init => PortInv
  BY PortInitInv DEF Init
<1>2. PortInv /\ [Next]_demoVars => PortInv'
  BY PortKept
<1>3. PortInv => KeyFaultsExplained /\ LevelsDriven
  BY DEF PortInv
<1> QED
  BY <1>1, <1>2, <1>3, PTL DEF Spec

\* Each position that is reported is of four samples, and what outlives the
\* module is a timer that was armed after del_timer (my_ts.c), for any period of
\* jiffies.
THEOREM TouchSafeHolds == Spec => []TouchSafe
<1>1. Init => TsInv
  BY TsInitInv DEF Init
<1>2. TsInv /\ [Next]_demoVars => TsInv'
  BY TouchKept
<1>3. TsInv => TouchSafe
  BY TsGood
<1> QED
  BY <1>1, <1>2, <1>3, PTL DEF Spec

\* A read of either sensor that nobody interfered with returns what was measured:
\* the temperature but for the 16 degrees that are known to be missing, and five
\* bytes of one measurement (ds18b20.c, am2305.c), for any processes and any
\* temperatures.
THEOREM SensorsShow == Spec => [](ShowsMeasured /\ OneMeasurement)
<1>1. Init => DsInv /\ AmInv
  BY DsInitInv, AmInitInv DEF Init
<1>2. DsInv /\ [Next]_demoVars => DsInv'
  BY DsKept
<1>3. AmInv /\ [Next]_demoVars => AmInv'
  BY AmKept
<1>4. DsInv /\ AmInv => ShowsMeasured /\ OneMeasurement
  BY DsGood DEF AmInv
<1> QED
  BY <1>1, <1>2, <1>3, <1>4, PTL DEF Spec

\* Every variable of every demonstration has its type, and the demonstration
\* stays the one that was chosen.
THEOREM DemosTypesHold == Spec => []DemosTypeOK
<1> DEFINE Invs == /\ demo \in Studied /\ TsInv /\ PortInv /\ MouseInv /\ DmaInv /\ DiskInv
                    /\ OpInv /\ I2cInv /\ LifeInv /\ DsInv /\ AmInv
<1>1. Init => Invs
  BY TsInitInv, PortInitInv, InitInv, DmaInitInv, DiskInitInv, OpInitInv, I2cInitInv,
     LifeInitInv, DsInitInv, AmInitInv DEF Init
<1>2. Invs /\ [Next]_demoVars => Invs'
  <2>1. demo \in Studied /\ [Next]_demoVars => (demo \in Studied)'
    BY DEF Next, demoVars, Rest, Touch, Port, Mouse, Dma, Disk, Op, I2c, Life, Ds, Am
  <2> QED
    BY <2>1, TouchKept, PortKept, MouseKept, DmaKept, DiskKept, OpKept, I2cKept, LifeKept,
       DsKept, AmKept
<1>3. Invs => DemosTypeOK
  BY DiskGood, OpTypes, LifeGood, DsGood
  DEF DemosTypeOK, TsInv, PortInv, MouseInv, DmaInv, I2cInv, AmInv, AmTyped
<1> QED
  BY <1>1, <1>2, <1>3, PTL DEF Spec
=============================================================================
