------------------------------ MODULE NetifOp ------------------------------
(***************************************************************************)
(* The programs netif_op.c, which configures the interface eth2 by one     *)
(* ioctl after the other and then prints what it finds, and ethtool_op.c,  *)
(* which prints speed, duplex and link of an interface.  An administrator, *)
(* or another program, may configure the same interface in between, and    *)
(* the interface may go.  What the kernel does with each request is        *)
(* external.                                                               *)
(***************************************************************************)
EXTENDS Integers, Sequences, FiniteSets

CONSTANTS Indexes,      \* interface indexes in use may be any of these sets
          AdminMoves    \* bound on what the administrator does

ASSUME NetifOpAssumption == /\ \A I \in Indexes : I \subseteq Nat \ {0}
                            /\ AdminMoves \in Nat

VARIABLES program,      \* "none", "netif_op" or "ethtool_op"
          step,         \* the request that is next
          eth,          \* the interface
          present,      \* is it there
          indexes,      \* the interface indexes in use
          root,         \* may the program change anything
          live,         \* does its driver change the MAC address while it is up
          req,          \* what a request has read for the next one to change
          done,         \* settings whose request has succeeded
          shown,        \* what has been printed, by setting
          touched,      \* settings the administrator changed after the program
          wish,         \* the administrator's last values of what both change
          raced,        \* the administrator came between read and write
          adminMoves

opVars == <<program, step, eth, present, indexes, root, live, req, done, shown,
            touched, wish, raced, adminMoves>>
hostVars == <<present, indexes, root, live>>

AddrSettings == {"addr", "dst", "brd", "mask"}
Settings == AddrSettings \cup {"mtu", "qlen"}

\* What demo_about_set sets; "reset" stands for what the kernel derives from a
\* new address.
Fresh == [addr |-> "mine", dst |-> "reset", brd |-> "reset", mask |-> "reset"]
Merge(new, old) == [f \in DOMAIN old |-> IF f \in DOMAIN new THEN new[f] ELSE old[f]]

-----------------------------------------------------------------------------
(* The requests.                                                           *)

\* Mutation of about_set: the address comes after what depends on it.
AddressLast == <<"SIOCGIFFLAGS", "SIOCSIFFLAGS", "SIOCSIFDSTADDR", "SIOCSIFBRDADDR",
                 "SIOCSIFNETMASK", "SIOCSIFADDR", "SIOCSIFMTU", "SIOCSIFTXQLEN",
                 "SIOCGIFHWADDR", "SIOCSIFHWADDR">>

\* demo_about_set; the flags and the MAC address are read before they are set.
about_set == <<"SIOCGIFFLAGS", "SIOCSIFFLAGS", "SIOCSIFADDR", "SIOCSIFDSTADDR",
               "SIOCSIFBRDADDR", "SIOCSIFNETMASK", "SIOCSIFMTU", "SIOCSIFTXQLEN",
               "SIOCGIFHWADDR", "SIOCSIFHWADDR">>

\* demo_about_get, for what it prints of the settings
about_get == <<"name", "flags", "addr", "dst", "brd", "mask", "mtu", "mac", "qlen",
               "conf">>

Setting == program = "netif_op" /\ step <= Len(about_set)
Getting == program = "netif_op" /\ step \in Len(about_set) + 1 ..
                                           Len(about_set) + Len(about_get)

At(request) == Setting /\ about_set[step] = request
Next1 == step' = step + 1
May == present /\ root

\* demo_SIOCSIFFLAGS(1) reads the flags ...
SIOCGIFFLAGS ==
  /\ At("SIOCGIFFLAGS")
  /\ IF present THEN req' = [req EXCEPT !.flags = eth.flags] /\ Next1
     ELSE step' = step + 2 /\ UNCHANGED req
  /\ UNCHANGED <<program, eth, hostVars, done, shown, touched, wish, raced, adminMoves>>

\* ... and writes them with three more set.
SIOCSIFFLAGS ==
  /\ At("SIOCSIFFLAGS") /\ Next1
  /\ IF May
     THEN /\ eth' = [eth EXCEPT !.flags = req.flags \cup {"UP", "ALLMULTI", "PROMISC"}]
          /\ done' = done \cup {"flags"} /\ touched' = touched \ {"flags"}
     ELSE UNCHANGED <<eth, done, touched>>
  /\ UNCHANGED <<program, hostVars, req, shown, wish, raced, adminMoves>>

\* A setting f of eth2 is set: the result is eth', which is eth on failure.
Sets(f, allowed, result) ==
  /\ Next1
  /\ IF May /\ allowed
     THEN eth' = result /\ done' = done \cup {f} /\ touched' = touched \ {f}
     ELSE UNCHANGED <<eth, done, touched>>
  /\ UNCHANGED <<program, hostVars, req, shown, wish, raced, adminMoves>>

\* The kernel replaces the address, and with it all that is derived from it,
\* unless the interface has that address already.
SIOCSIFADDR ==
  /\ At("SIOCSIFADDR")
  /\ Sets("addr", TRUE, IF eth.addr = "mine" THEN eth ELSE Merge(Fresh, eth))

\* These need an address.  Setting the mask keeps a broadcast address that was
\* set to something else than what follows from the mask.
SIOCSIFDSTADDR == At("SIOCSIFDSTADDR") /\
  Sets("dst", eth.addr # "none", [eth EXCEPT !.dst = "mine"])

SIOCSIFBRDADDR == At("SIOCSIFBRDADDR") /\
  Sets("brd", eth.addr # "none", [eth EXCEPT !.brd = "mine"])

SIOCSIFNETMASK == At("SIOCSIFNETMASK") /\
  Sets("mask", eth.addr # "none", [eth EXCEPT !.mask = "mine"])

SIOCSIFMTU == At("SIOCSIFMTU") /\ Sets("mtu", TRUE, [eth EXCEPT !.mtu = "mine"])

SIOCSIFTXQLEN == At("SIOCSIFTXQLEN") /\ Sets("qlen", TRUE, [eth EXCEPT !.qlen = "mine"])

\* demo_SIOCSIFHWADDR reads the MAC address ...
SIOCGIFHWADDR ==
  /\ At("SIOCGIFHWADDR")
  /\ IF present THEN req' = [req EXCEPT !.mac = eth.mac] /\ Next1
     ELSE step' = step + 2 /\ UNCHANGED req
  /\ UNCHANGED <<program, eth, hostVars, done, shown, touched, wish, raced, adminMoves>>

\* ... and writes it with the last two bytes changed, which most drivers refuse
\* while the interface is up.
SIOCSIFHWADDR ==
  /\ At("SIOCSIFHWADDR")
  /\ Sets("mac", live \/ "UP" \notin eth.flags,
          [eth EXCEPT !.mac = [head |-> req.mac.head, tail |-> "87:88"]])

\* demo_about_get, one request after the other: what is printed of setting f.
Prints(f, lines) ==
  /\ Getting /\ about_get[step - Len(about_set)] = f
  /\ shown' = [shown EXCEPT ![f] = lines]
  /\ Next1
  /\ UNCHANGED <<program, eth, hostVars, req, done, touched, wish, raced, adminMoves>>

\* A request that fails prints nothing of the setting.
PrintsOf(f) == Prints(f, IF present THEN <<eth[f]>> ELSE <<>>)

\* demo_SIOCGIFNAME counts the index up and stops at the first not in use.
SIOCGIFNAME == Prints("name", <<{i \in indexes : 1..i \subseteq indexes}>>)

GetFlags == PrintsOf("flags")
GetAddress == \E f \in AddrSettings : PrintsOf(f)
GetLink == \E f \in {"mtu", "mac", "qlen"} : PrintsOf(f)

\* The list of the interfaces that have an address.
SIOCGIFCONF == Prints("conf", IF present /\ eth.addr # "none" THEN <<eth.addr>> ELSE <<>>)

-----------------------------------------------------------------------------
(* ethtool_op.c                                                            *)

\* ETHTOOL_GSET; every duplex but DUPLEX_HALF is printed as DuplexFull.
ETHTOOL_GSET ==
  /\ program = "ethtool_op" /\ step = 1
  /\ step' = IF present THEN 2 ELSE 3
  /\ IF present
     THEN shown' = [shown EXCEPT
            !.speed = <<IF eth.link = "up" THEN "1000" ELSE "unknown">>,
            !.duplex = <<IF eth.link = "up" /\ eth.duplex = "half"
                         THEN "DuplexHalf" ELSE "DuplexFull">>]
     ELSE UNCHANGED shown
  /\ UNCHANGED <<program, eth, hostVars, req, done, touched, wish, raced, adminMoves>>

ETHTOOL_GLINK ==
  /\ program = "ethtool_op" /\ step = 2
  /\ step' = 3
  /\ shown' = IF present THEN [shown EXCEPT !.link = <<eth.link>>] ELSE shown
  /\ UNCHANGED <<program, eth, hostVars, req, done, touched, wish, raced, adminMoves>>

-----------------------------------------------------------------------------
(* Everybody else.                                                         *)

Other(new, fields) ==
  /\ adminMoves < AdminMoves /\ adminMoves' = adminMoves + 1
  /\ present
  /\ eth' = new
  /\ touched' = touched \cup fields
  /\ UNCHANGED <<program, step, hostVars, req, done, shown>>

Between(r) == Setting /\ about_set[step] = r

AdminNoarp ==
  /\ Other([eth EXCEPT !.flags = IF "NOARP" \in @ THEN @ \ {"NOARP"} ELSE @ \cup {"NOARP"}],
           {"flags"})
  /\ wish' = [wish EXCEPT !.noarp = "NOARP" \in eth'.flags]
  /\ raced' = (raced \/ Between("SIOCSIFFLAGS"))

AdminDown ==
  /\ Other([eth EXCEPT !.flags = @ \ {"UP"}], {"flags"})
  /\ UNCHANGED <<wish, raced>>

AdminAddr ==
  /\ Other(Merge([Fresh EXCEPT !.addr = "other"], eth), AddrSettings)
  /\ UNCHANGED <<wish, raced>>

AdminMac ==
  /\ Other([eth EXCEPT !.mac = [head |-> "other", tail |-> "other"]], {"mac"})
  /\ wish' = [wish EXCEPT !.head = "other"]
  /\ raced' = (raced \/ Between("SIOCSIFHWADDR"))

PullCable ==
  /\ Other([eth EXCEPT !.link = IF @ = "up" THEN "down" ELSE "up"], {"link"})
  /\ raced' = (raced \/ (program = "ethtool_op" /\ step = 2))
  /\ UNCHANGED wish

\* The interface goes and with it its settings.
EthGone ==
  /\ adminMoves < AdminMoves /\ adminMoves' = adminMoves + 1
  /\ present /\ present' = FALSE
  /\ touched' = Settings \cup {"flags", "mac", "link"}
  /\ UNCHANGED <<program, step, eth, indexes, root, live, req, done, shown, wish, raced>>

-----------------------------------------------------------------------------
Factory == [flags |-> {}, addr |-> "none", dst |-> "reset", brd |-> "reset",
            mask |-> "reset", mtu |-> "default", qlen |-> "default",
            mac |-> [head |-> "factory", tail |-> "factory"],
            link |-> "up", duplex |-> "full"]

OpInit ==
  /\ program = "none" /\ step = 1
  /\ eth = Factory /\ present = TRUE
  /\ indexes = {} /\ root = TRUE /\ live = FALSE
  /\ req = [flags |-> {}, mac |-> Factory.mac] /\ done = {}
  /\ shown = [f \in {"name", "flags", "addr", "dst", "brd", "mask", "mtu", "mac",
                     "qlen", "conf", "speed", "duplex", "link"} |-> <<>>]
  /\ touched = {} /\ wish = [noarp |-> FALSE, head |-> "factory"]
  /\ raced = FALSE /\ adminMoves = 0

\* A program is started on a host as it happens to be.
Start ==
  /\ program = "none"
  /\ program' \in {"netif_op", "ethtool_op"}
  /\ root' \in BOOLEAN /\ live' \in BOOLEAN /\ indexes' \in Indexes
  /\ \E addr \in {"none", "mine", "other"}, duplex \in {"half", "full"} :
        eth' = [eth EXCEPT !.addr = addr, !.duplex = duplex]
  /\ UNCHANGED <<step, present, req, done, shown, touched, wish, raced, adminMoves>>

OpNext ==
  \/ Start
  \/ SIOCGIFFLAGS \/ SIOCSIFFLAGS \/ SIOCSIFADDR \/ SIOCSIFDSTADDR \/ SIOCSIFBRDADDR
  \/ SIOCSIFNETMASK \/ SIOCSIFMTU \/ SIOCSIFTXQLEN \/ SIOCGIFHWADDR \/ SIOCSIFHWADDR
  \/ SIOCGIFNAME \/ GetFlags \/ GetAddress \/ GetLink \/ SIOCGIFCONF
  \/ ETHTOOL_GSET \/ ETHTOOL_GLINK
  \/ /\ program # "none"
     /\ AdminNoarp \/ AdminDown \/ AdminAddr \/ AdminMac \/ PullCable \/ EthGone

-----------------------------------------------------------------------------
OpTypeOK ==
  /\ program \in {"none", "netif_op", "ethtool_op"}
  /\ step \in 1 .. Len(about_set) + Len(about_get) + 1
  /\ eth.flags \subseteq {"UP", "ALLMULTI", "PROMISC", "NOARP"}
  /\ eth.addr \in {"none", "mine", "other"}
  /\ \A f \in {"dst", "brd", "mask"} : eth[f] \in {"reset", "mine"}
  /\ done \subseteq Settings \cup {"flags", "mac"}
  /\ touched \subseteq Settings \cup {"flags", "mac", "link"}
  /\ adminMoves \in 0..AdminMoves

\* What a request has set stays set through all the later requests, of which
\* the kernel lets some reset others, unless somebody else has changed it.
Stuck ==
  /\ \A f \in (done \cap Settings) \ touched : eth[f] = "mine"
  /\ "flags" \in done \ touched => {"UP", "ALLMULTI", "PROMISC"} \subseteq eth.flags
  /\ "mac" \in done \ touched => eth.mac.tail = "87:88"

\* ... and it is what the program prints in the end.
PrintedTrue ==
  \A f \in (done \cap Settings) \ touched :
    /\ shown[f] \in {<<>>, <<"mine">>}
    /\ f = "addr" => shown.conf \in {<<>>, <<"mine">>}

\* What somebody else has set of the flags and of the MAC address is lost only
\* if it came between the program's reading and its writing of them.
OthersSettingsKept ==
  ~raced => /\ "NOARP" \in eth.flags <=> wish.noarp
            /\ eth.mac.head = wish.head

\* Speed and link are of different moments: they disagree only if the link
\* changed in between.
LinkAgrees ==
  shown.link # <<>> /\ ~raced => (shown.speed = <<"1000">> <=> shown.link = <<"up">>)

SettingsStick == Stuck /\ PrintedTrue /\ OthersSettingsKept /\ LinkAgrees
=============================================================================
