----------------------------- MODULE NetifEvent -----------------------------
(***************************************************************************)
(* The netlink event server (netif_event.c, with the interface list of     *)
(* netif_list.c).  main opens a netlink socket, asks the kernel for all    *)
(* IPv4 addresses, starts the event thread and then initialises the list   *)
(* the thread works on.  The thread reads the messages about links and     *)
(* addresses and keeps one node per interface name.                        *)
(*                                                                         *)
(* The kernel is the environment: it owns the real links and addresses and *)
(* multicasts every change into the socket's receive buffer, which drops   *)
(* what does not fit.                                                      *)
(***************************************************************************)
EXTENDS Naturals, Sequences, FiniteSets

CONSTANTS Ifs,          \* interface names
          Addrs,        \* IPv4 addresses
          NoAddr,       \* 0.0.0.0
          MaxAddrs,     \* bound: addresses on one interface
          MaxEvents,    \* bound: changes the kernel makes
          RcvBuf,       \* datagrams the socket's receive buffer holds
          RecvMsgs,     \* messages that fit the 2048 bytes of buff
          MayFail       \* whether system calls and malloc may fail

ASSUME NetifAssumption == /\ IsFiniteSet(Ifs) /\ IsFiniteSet(Addrs)
                          /\ NoAddr \notin Addrs
                          /\ MaxAddrs \in Nat \ {0}
                          /\ MaxEvents \in Nat
                          /\ RcvBuf \in Nat \ {0}
                          /\ RecvMsgs \in Nat \ {0}
                          /\ MayFail \in BOOLEAN

VARIABLES
  kif,          \* the kernel's interfaces
  events,       \* how many changes the kernel has made
  bound,        \* the netlink socket exists and is in its multicast groups
  dumpDue,      \* the address dump waits for room in the receive buffer
  rxq,          \* the receive buffer: datagrams, each a sequence of messages
  overrun,      \* the socket holds an ENOBUFS error to report
  mpc,          \* where main is
  tpc,          \* where the event thread is
  buff,         \* the messages of buff that are still to be dispatched
  headReady,    \* netif_head.listHead points to itself or to nodes, not NULL
  nodes,        \* the names on the list
  attr,         \* the attributes of the nodes
  lost,         \* history: some message never reached its handler
  announced     \* history: interfaces whose link was announced to the socket

kernelVars == <<kif, events>>
socketVars == <<bound, dumpDue, rxq, overrun>>
listVars   == <<headReady, nodes, attr>>
vars == <<kernelVars, socketVars, mpc, tpc, buff, listVars, lost, announced>>

-----------------------------------------------------------------------------
\* ifi_flags: neither IFF_UP nor IFF_LOWER_UP, IFF_UP alone, or both.
LinkFlags == {"down", "up", "running"}

\* NETIF_EVENT_TYPE, and the 0 of a node that has had no event
EventType == {"none", "IF_DOWN", "IF_UP", "IF_DELADDR", "IF_NEWADDR"}

LinkMsg == [type : {"NEWLINK", "DELLINK"}, name : Ifs, link : LinkFlags]
AddrMsg == [type : {"NEWADDR", "DELADDR"}, name : Ifs, addr : Addrs]
Msg == LinkMsg \cup AddrMsg \cup {[type |-> "DONE"]}

\* netif_node_add clears the attributes of a new node.
ClearAttr == [link |-> "down", current_state |-> "none", ipaddr |-> NoAddr]

\* The sequences that list each element of a finite set once.
Orders(S) == {f \in [1..Cardinality(S) -> S] : \A x \in S : \E k \in DOMAIN f : f[k] = x}

Running == mpc # "exited" /\ tpc # "crashed"

-----------------------------------------------------------------------------
(* The kernel.                                                             *)

\* What the receive buffer keeps of the datagrams sent to it.
Deliver(datagrams) ==
  IF ~bound
    THEN UNCHANGED <<rxq, overrun, lost>>
    ELSE LET room == RcvBuf - Len(rxq)
             fit  == IF Len(datagrams) <= room THEN Len(datagrams) ELSE room
         IN /\ rxq' = rxq \o SubSeq(datagrams, 1, fit)
            /\ overrun' = (overrun \/ fit < Len(datagrams))
            /\ lost' = (lost \/ fit < Len(datagrams))

KernelStep == /\ Running
              /\ events < MaxEvents
              /\ events' = events + 1
              /\ UNCHANGED <<bound, dumpDue, mpc, tpc, buff, listVars>>

LinkUpdate(type, i, link) == <<[type |-> type, name |-> i, link |-> link]>>
AddrUpdate(type, i, a) == <<[type |-> type, name |-> i, addr |-> a]>>

Announce(i) == announced' = IF bound THEN announced \cup {i} ELSE announced

\* A new interface, or a change of the flags of an existing one.
KernelNewLink(i, link) ==
  /\ KernelStep
  /\ kif[i].exists => kif[i].link # link
  /\ kif' = [kif EXCEPT ![i].exists = TRUE, ![i].link = link]
  /\ Deliver(<<LinkUpdate("NEWLINK", i, link)>>)
  /\ Announce(i)

\* An interface goes away: down first, then its addresses, then the link.
KernelDelLink(i) ==
  /\ KernelStep
  /\ kif[i].exists
  /\ kif' = [kif EXCEPT ![i] = [exists |-> FALSE, link |-> "down", addrs |-> {}]]
  /\ \E order \in Orders(kif[i].addrs) :
       Deliver([k \in DOMAIN order |-> AddrUpdate("DELADDR", i, order[k])]
               \o <<LinkUpdate("DELLINK", i, "down")>>)
  /\ Announce(i)

\* A port leaves its bridge: DELLINK for an interface that stays as it is.
KernelLeaveBridge(i) ==
  /\ KernelStep
  /\ kif[i].exists
  /\ Deliver(<<LinkUpdate("DELLINK", i, kif[i].link)>>)
  /\ Announce(i)
  /\ UNCHANGED kif

KernelNewAddr(i, a) ==
  /\ KernelStep
  /\ kif[i].exists
  /\ a \notin kif[i].addrs
  /\ Cardinality(kif[i].addrs) < MaxAddrs
  /\ kif' = [kif EXCEPT ![i].addrs = @ \cup {a}]
  /\ Deliver(<<AddrUpdate("NEWADDR", i, a)>>)
  /\ UNCHANGED announced

KernelDelAddr(i, a) ==
  /\ KernelStep
  /\ a \in kif[i].addrs
  /\ kif' = [kif EXCEPT ![i].addrs = @ \ {a}]
  /\ Deliver(<<AddrUpdate("DELADDR", i, a)>>)
  /\ UNCHANGED announced

\* The replies to RTM_GETADDR: every address of every interface, in some
\* order, then DONE.
Assigned == {ia \in Ifs \X Addrs : ia[2] \in kif[ia[1]].addrs}

Dumps == {[k \in DOMAIN order |->
             [type |-> "NEWADDR", name |-> order[k][1], addr |-> order[k][2]]]
            \o <<[type |-> "DONE"]>> : order \in Orders(Assigned)}

-----------------------------------------------------------------------------
(* main: netif_event_server_init, then sleep.                              *)

MainAt(from, to) == /\ Running
                    /\ mpc = from
                    /\ mpc' = to

EpollCreate == /\ MainAt("epoll_create", "create_netlink_socket")
               /\ UNCHANGED <<kernelVars, socketVars, tpc, buff, listVars, lost, announced>>

\* Mutation of CreateNetlinkSocket: the socket joins no multicast group.
CreateSocketNoGroups ==
  /\ MainAt("create_netlink_socket", "epoll_add_fd")
  /\ UNCHANGED <<kernelVars, socketVars, tpc, buff, listVars, lost, announced>>

\* create_netlink_socket: the socket joins its groups with bind.
CreateNetlinkSocket ==
  /\ MainAt("create_netlink_socket", "epoll_add_fd")
  /\ bound' = TRUE
  /\ UNCHANGED <<kernelVars, dumpDue, rxq, overrun, tpc, buff, listVars, lost, announced>>

EpollAddFd == /\ MainAt("epoll_add_fd", "netif_coldboot")
              /\ UNCHANGED <<kernelVars, socketVars, tpc, buff, listVars, lost, announced>>

\* netif_coldboot: the kernel builds the dump at once when it has room.
Coldboot ==
  /\ MainAt("netif_coldboot", "common_create_thread")
  /\ IF Len(rxq) < RcvBuf
       THEN (\E dump \in Dumps : rxq' = Append(rxq, dump)) /\ UNCHANGED dumpDue
       ELSE dumpDue' = TRUE /\ UNCHANGED rxq
  /\ UNCHANGED <<kernelVars, bound, overrun, tpc, buff, listVars, lost, announced>>

CreateThread == /\ MainAt("common_create_thread", "pthread_mutex_init")
                /\ tpc' = "epoll_wait"
                /\ UNCHANGED <<kernelVars, socketVars, buff, listVars, lost, announced>>

MutexInit == /\ MainAt("pthread_mutex_init", "init_list_head")
             /\ UNCHANGED <<kernelVars, socketVars, tpc, buff, listVars, lost, announced>>

\* COMMON_INIT_LIST_HEAD makes the list empty, whatever was on it.
InitListHead == /\ MainAt("init_list_head", "sleep")
                /\ headReady' = TRUE
                /\ nodes' = {}
                /\ UNCHANGED <<kernelVars, socketVars, tpc, buff, attr, lost, announced>>

\* func_exec returns on the first failure, and main with it.
InitFails == /\ MayFail
             /\ Running
             /\ mpc \in {"epoll_create", "create_netlink_socket", "epoll_add_fd",
                         "netif_coldboot", "common_create_thread"}
             /\ mpc' = "exited"
             /\ UNCHANGED <<kernelVars, socketVars, tpc, buff, listVars, lost, announced>>

-----------------------------------------------------------------------------
(* The event thread.                                                       *)

\* rcv_netinfo_process: the first readable event enters netlink_event_handle,
\* which never returns.
EpollWait == /\ Running
             /\ tpc = "epoll_wait"
             /\ rxq # <<>> \/ overrun
             /\ tpc' = "recvfrom"
             /\ UNCHANGED <<kernelVars, socketVars, mpc, buff, listVars, lost, announced>>

\* recvfrom fails with ENOBUFS: r_size is negative, nothing is dispatched and
\* the loop goes on.
RecvError == /\ Running
             /\ tpc = "recvfrom" /\ buff = <<>>
             /\ overrun
             /\ overrun' = FALSE
             /\ UNCHANGED <<kernelVars, bound, dumpDue, rxq, mpc, tpc, buff, listVars,
                            lost, announced>>

\* recvfrom returns one datagram, cut off at the size of buff; a dump that
\* was waiting for room is built now.
Recv == /\ Running
        /\ tpc = "recvfrom" /\ buff = <<>>
        /\ ~overrun
        /\ rxq # <<>>
        /\ LET dgram == Head(rxq)
               n     == IF Len(dgram) <= RecvMsgs THEN Len(dgram) ELSE RecvMsgs
           IN /\ buff' = SubSeq(dgram, 1, n)
              /\ lost' = (lost \/ n < Len(dgram))
        /\ IF dumpDue
             THEN \E dump \in Dumps : rxq' = Append(Tail(rxq), dump)
             ELSE rxq' = Tail(rxq)
        /\ dumpDue' = FALSE
        /\ UNCHANGED <<kernelVars, bound, overrun, mpc, tpc, listVars, announced>>

Dispatch == /\ Running
            /\ tpc = "recvfrom" /\ buff # <<>>
            /\ UNCHANGED <<kernelVars, socketVars, mpc, announced>>

\* Mutation of DispatchDone: the end of the dump ends the thread.
DispatchDoneReturns == /\ Dispatch
                       /\ Head(buff).type = "DONE"
                       /\ buff' = Tail(buff)
                       /\ tpc' = "none"
                       /\ UNCHANGED <<listVars, lost>>

\* NLMSG_DONE: the break leaves only the switch.
DispatchDone == /\ Dispatch
                /\ Head(buff).type = "DONE"
                /\ buff' = Tail(buff)
                /\ UNCHANGED <<tpc, listVars, lost>>

\* netif_node_find starts from listHead.next: before main has initialised the
\* list that is NULL, and the thread takes the process down.
WalkUninitialisedList == /\ Dispatch
                         /\ Head(buff).type # "DONE"
                         /\ ~headReady
                         /\ tpc' = "crashed"
                         /\ UNCHANGED <<buff, listVars, lost>>

\* malloc fails in netif_node_add: the handler returns without the message.
NodeAddFails == /\ MayFail
                /\ Dispatch
                /\ Head(buff).type # "DONE"
                /\ headReady
                /\ Head(buff).name \notin nodes
                /\ buff' = Tail(buff)
                /\ lost' = TRUE
                /\ UNCHANGED <<tpc, listVars>>

\* netif_node_find, and netif_node_add when there is none
FindOrAdd(name) == IF name \in nodes THEN attr[name] ELSE ClearAttr

\* Mutation of Notified: a deleted address stays in the node.
NotifiedNoClear(node, type) == [node EXCEPT !.current_state = type]

\* net_event_notify: an event of the kind the node is already in does nothing
\* but be recorded; only the deletion of an address changes an attribute.
Notified(node, type) ==
  [node EXCEPT !.ipaddr = IF type = "IF_DELADDR" /\ node.current_state # type
                            THEN NoAddr ELSE @,
               !.current_state = type]

\* Mutation of AfterLinkMsg: the flags are recorded in place of the event.
AfterLinkMsgFlags(m) ==
  LET node == [FindOrAdd(m.name) EXCEPT !.link = m.link]
  IN Notified(node, node.link)

\* Mutation of AfterLinkMsg: a removed link keeps the flags it had.
AfterLinkMsgStale(m) ==
  LET node == IF m.type = "NEWLINK" THEN [FindOrAdd(m.name) EXCEPT !.link = m.link]
              ELSE FindOrAdd(m.name)
  IN Notified(node, IF m.type = "NEWLINK" /\ node.link # "down" THEN "IF_UP" ELSE "IF_DOWN")

\* ifinfomsg_handle
AfterLinkMsg(m) ==
  LET node == [FindOrAdd(m.name) EXCEPT !.link = m.link]
  IN Notified(node, IF m.type = "NEWLINK" /\ node.link # "down" THEN "IF_UP" ELSE "IF_DOWN")

\* Mutation of AfterAddrMsg: the two events are confused.
AfterAddrMsgSwapped(m) ==
  LET node == [FindOrAdd(m.name) EXCEPT !.ipaddr = m.addr]
  IN Notified(node, IF m.type = "NEWADDR" THEN "IF_DELADDR" ELSE "IF_NEWADDR")

\* ifaddrmsg_handle: the address is copied before the type is looked at.
AfterAddrMsg(m) ==
  LET node == [FindOrAdd(m.name) EXCEPT !.ipaddr = m.addr]
  IN Notified(node, IF m.type = "NEWADDR" THEN "IF_NEWADDR" ELSE "IF_DELADDR")

Store(name, node) == /\ nodes' = nodes \cup {name}
                     /\ attr' = [attr EXCEPT ![name] = node]
                     /\ buff' = Tail(buff)
                     /\ UNCHANGED <<tpc, headReady, lost>>

IfinfomsgHandle == /\ Dispatch
                   /\ headReady
                   /\ Head(buff).type \in {"NEWLINK", "DELLINK"}
                   /\ Store(Head(buff).name, AfterLinkMsg(Head(buff)))

\* Mutation of IfaddrmsgHandle: the head can be walked before main has
\* initialised it.
IfaddrmsgHandleEarly == /\ Dispatch
                        /\ Head(buff).type \in {"NEWADDR", "DELADDR"}
                        /\ Store(Head(buff).name, AfterAddrMsg(Head(buff)))

IfaddrmsgHandle == /\ Dispatch
                   /\ headReady
                   /\ Head(buff).type \in {"NEWADDR", "DELADDR"}
                   /\ Store(Head(buff).name, AfterAddrMsg(Head(buff)))

-----------------------------------------------------------------------------
Init == /\ kif \in [Ifs -> [exists : BOOLEAN, link : LinkFlags,
                            addrs : {s \in SUBSET Addrs : Cardinality(s) <= MaxAddrs}]]
        /\ \A i \in Ifs : ~kif[i].exists => kif[i].addrs = {} /\ kif[i].link = "down"
        /\ events = 0
        /\ bound = FALSE /\ dumpDue = FALSE /\ rxq = <<>> /\ overrun = FALSE
        /\ mpc = "epoll_create"
        /\ tpc = "none" /\ buff = <<>>
        /\ headReady = FALSE /\ nodes = {} /\ attr = [i \in Ifs |-> ClearAttr]
        /\ lost = FALSE /\ announced = {}

Kernel == \E i \in Ifs : \/ \E link \in LinkFlags : KernelNewLink(i, link)
                         \/ KernelDelLink(i)
                         \/ KernelLeaveBridge(i)
                         \/ \E a \in Addrs : KernelNewAddr(i, a) \/ KernelDelAddr(i, a)

Main == \/ EpollCreate \/ CreateNetlinkSocket \/ EpollAddFd \/ Coldboot
        \/ CreateThread \/ MutexInit \/ InitListHead

Thread == \/ EpollWait \/ RecvError \/ Recv
          \/ DispatchDone \/ WalkUninitialisedList \/ IfinfomsgHandle \/ IfaddrmsgHandle

Next == Kernel \/ Main \/ InitFails \/ Thread \/ NodeAddFails

Spec == Init /\ [][Next]_vars

\* main and the event thread are threads of one process: the scheduler runs
\* each of them again and again while it has something to do.
FairSpec == Spec /\ WF_vars(Main) /\ WF_vars(Thread \/ NodeAddFails)

-----------------------------------------------------------------------------
\* Types of the variables; the receive buffer stays within its size.
TypeOK == /\ kif \in [Ifs -> [exists : BOOLEAN, link : LinkFlags, addrs : SUBSET Addrs]]
          /\ events \in 0..MaxEvents
          /\ bound \in BOOLEAN /\ dumpDue \in BOOLEAN /\ overrun \in BOOLEAN
          /\ rxq \in Seq(Seq(Msg)) /\ Len(rxq) <= RcvBuf
          /\ mpc \in {"epoll_create", "create_netlink_socket", "epoll_add_fd",
                      "netif_coldboot", "common_create_thread", "pthread_mutex_init",
                      "init_list_head", "sleep", "exited"}
          /\ tpc \in {"none", "epoll_wait", "recvfrom", "crashed"}
          /\ buff \in Seq(Msg)
          /\ headReady \in BOOLEAN /\ nodes \in SUBSET Ifs
          /\ attr \in [Ifs -> [link : LinkFlags, current_state : EventType,
                               ipaddr : Addrs \cup {NoAddr}]]
          /\ lost \in BOOLEAN /\ announced \in SUBSET Ifs

\* Every message sent to the socket has been handled.
CaughtUp == /\ mpc = "sleep" /\ tpc # "crashed"
            /\ rxq = <<>> /\ buff = <<>> /\ ~dumpDue /\ ~lost

\* The server subscribes before it asks for the dump, so no address falls
\* between the two: once it has caught up it knows every interface that has
\* one, those configured before it started as well as those that changed
\* while it was starting.
NoAddressMissed ==
  CaughtUp => \A i \in Ifs : kif[i].addrs # {} => i \in nodes

\* With one address per interface, a server that has caught up shows the
\* address each interface has, and 0.0.0.0 for one that has lost it: the copy
\* that ifaddrmsg_handle makes on RTM_DELADDR too is undone by
\* net_event_notify.
AddressesCurrent ==
  CaughtUp /\ MaxAddrs = 1 =>
    \A i \in nodes : attr[i].ipaddr = IF kif[i].addrs = {} THEN NoAddr
                                      ELSE CHOOSE a \in kif[i].addrs : TRUE

\* With any number of addresses, what a node shows is still an address of the
\* interface as long as the last event of the interface was a new address.
NewAddressCurrent ==
  CaughtUp => \A i \in nodes : attr[i].current_state = "IF_NEWADDR" =>
                                 attr[i].ipaddr \in kif[i].addrs

\* A server that has caught up shows the flags of every interface whose link
\* was announced since the socket was bound, a removed one as down.
LinksCurrent ==
  CaughtUp => \A i \in announced : i \in nodes /\ attr[i].link = kif[i].link

\* No node ever leaves the list: main's late initialisation of the list head
\* does not drop what the event thread has inserted.
NodesKept == [][nodes \subseteq nodes']_vars

\* The kernel does not change for ever, so the server ends up having handled
\* every message, unless it failed, crashed or lost one.
CatchesUp == <>[](CaughtUp \/ lost \/ ~Running)
=============================================================================
