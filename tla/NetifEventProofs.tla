-------------------------- MODULE NetifEventProofs --------------------------
(***************************************************************************)
(* For any interfaces and addresses, any size of the receive buffer and    *)
(* any number of kernel events: the types of the netlink event server, no  *)
(* node ever leaves its list, and no address is missed by a server that    *)
(* has caught up.                                                          *)
(*                                                                         *)
(* The last is not inductive by itself.  AddrInv says where an interface   *)
(* with an address can be while the server is behind: already on the list, *)
(* in a message that is on its way, in a dump still to be built, or among  *)
(* what was lost.  It holds from the moment the dump was asked for, which  *)
(* is after the socket has joined its groups (Subscribed).                 *)
(***************************************************************************)
EXTENDS NetifEvent, FiniteSetTheorems, TLAPS

\* A message about interface i is among msgs.
About(i, msgs) == \E j \in DOMAIN msgs : msgs[j].type # "DONE" /\ msgs[j].name = i

\* A message about interface i is on its way to its handler.
Pending(i) == About(i, buff) \/ \E k \in DOMAIN rxq : About(i, rxq[k])

BeforeDump == {"epoll_create", "create_netlink_socket", "epoll_add_fd", "netif_coldboot"}

Subscribed == mpc \notin {"epoll_create", "create_netlink_socket", "exited"} => bound

HeadReadyAtEnd == headReady <=> mpc = "sleep"

EmptyBeforeInit == ~headReady => nodes = {}

AddrInv == mpc \notin BeforeDump \cup {"exited"} =>
             \A i \in Ifs : kif[i].addrs # {} =>
               i \in nodes \/ Pending(i) \/ dumpDue \/ lost

IInv == TypeOK /\ Subscribed /\ HeadReadyAtEnd /\ EmptyBeforeInit /\ AddrInv

-----------------------------------------------------------------------------
(* Facts about sequences of messages.                                      *)

\* Dispatching the first message of buff loses sight of no other.
LEMMA AboutTail ==
  ASSUME NEW i, NEW msgs \in Seq(Msg), msgs # <<>>, About(i, msgs)
  PROVE  \/ About(i, Tail(msgs))
         \/ Head(msgs).type # "DONE" /\ Head(msgs).name = i
<1>1. PICK j \in DOMAIN msgs : msgs[j].type # "DONE" /\ msgs[j].name = i
  BY DEF About
<1>2. CASE j = 1
  BY <1>1, <1>2
<1>3. CASE j # 1
  <2>1. j - 1 \in DOMAIN Tail(msgs) /\ Tail(msgs)[j - 1] = msgs[j]
    BY <1>1, <1>3
  <2> QED
    BY <1>1, <2>1 DEF About
<1> QED
  BY <1>2, <1>3

\* The whole of a sequence is the sequence.
LEMMA SubSeqFull ==
  ASSUME NEW S, NEW s \in Seq(S)
  PROVE  SubSeq(s, 1, Len(s)) = s
<1>1. Len(s) \in Nat /\ DOMAIN s = 1..Len(s) /\ s = [k \in 1..Len(s) |-> s[k]]
  OBVIOUS
<1>2. SubSeq(s, 1, Len(s)) \in Seq(S) /\ Len(SubSeq(s, 1, Len(s))) = Len(s)
      /\ \A k \in 1..Len(s) : SubSeq(s, 1, Len(s))[k] = s[k]
  BY <1>1
<1> QED
  BY <1>1, <1>2

\* A datagram that fits buff is read whole.
LEMMA AboutCut ==
  ASSUME NEW i, NEW msgs \in Seq(Msg), About(i, msgs)
  PROVE  About(i, SubSeq(msgs, 1, Len(msgs)))
<1>1. SubSeq(msgs, 1, Len(msgs)) = msgs
  BY SubSeqFull
<1> QED
  BY <1>1

\* Orders of a finite set are sequences of its elements.
LEMMA OrdersAreSequences ==
  ASSUME NEW S, IsFiniteSet(S), NEW order \in Orders(S)
  PROVE  /\ Cardinality(S) \in Nat
         /\ order \in [1..Cardinality(S) -> S]
         /\ order \in Seq(S)
         /\ \A x \in S : \E k \in DOMAIN order : order[k] = x
<1>1. Cardinality(S) \in Nat
  BY FS_CardinalityType
<1> QED
  BY <1>1 DEF Orders

\* The assigned addresses are finitely many.
LEMMA AssignedFinite == IsFiniteSet(Assigned)
<1>1. IsFiniteSet(Ifs \X Addrs)
  BY NetifAssumption, FS_Product
<1>2. Assigned \subseteq Ifs \X Addrs
  BY DEF Assigned
<1> QED
  BY <1>1, <1>2, FS_Subset

\* A dump is one datagram of messages and names every interface that has an
\* address.
LEMMA DumpComplete ==
  ASSUME TypeOK, NEW dump \in Dumps
  PROVE  /\ dump \in Seq(Msg)
         /\ \A i \in Ifs : kif[i].addrs # {} => About(i, dump)
<1> DEFINE entry(ia) == [type |-> "NEWADDR", name |-> ia[1], addr |-> ia[2]]
<1>1. PICK order \in Orders(Assigned) :
        dump = [k \in DOMAIN order |-> entry(order[k])] \o <<[type |-> "DONE"]>>
  BY DEF Dumps
<1> DEFINE n == Cardinality(Assigned)
           news == [k \in 1..n |-> entry(order[k])]
<1>2. /\ n \in Nat
      /\ order \in [1..n -> Assigned]
      /\ \A x \in Assigned : \E k \in DOMAIN order : order[k] = x
  BY OrdersAreSequences, AssignedFinite
<1>3. \A k \in 1..n : order[k][1] \in Ifs /\ order[k][2] \in Addrs
  BY <1>2 DEF Assigned
<1>4. \A k \in 1..n : news[k] \in AddrMsg
  BY <1>3 DEF AddrMsg
<1>5. news \in Seq(Msg) /\ Len(news) = n
  BY <1>2, <1>4 DEF Msg
<1>6. dump = news \o <<[type |-> "DONE"]>>
  BY <1>1, <1>2
<1>7. [type |-> "DONE"] \in Msg
  BY DEF Msg
<1>8. dump \in Seq(Msg)
  BY <1>5, <1>6, <1>7
<1>9. ASSUME NEW i \in Ifs, kif[i].addrs # {}
      PROVE  About(i, dump)
  <2>1. PICK a : a \in kif[i].addrs
    BY <1>9
  <2>2. a \in Addrs
    BY <2>1 DEF TypeOK
  <2>3. <<i, a>> \in Assigned
    BY <2>1, <2>2 DEF Assigned
  <2>4. PICK k \in 1..n : order[k] = <<i, a>>
    BY <1>2, <2>3
  <2>5. k \in DOMAIN dump /\ dump[k] = entry(<<i, a>>)
    BY <1>2, <1>5, <1>6, <2>4
  <2> QED
    BY <2>5 DEF About
<1> QED
  BY <1>8, <1>9

\* What the receive buffer does with datagrams: it keeps what it has, and
\* takes all of the new ones or records a loss.
LEMMA DeliverKeeps ==
  ASSUME TypeOK, NEW dgs \in Seq(Seq(Msg)), Deliver(dgs)
  PROVE  /\ rxq' \in Seq(Seq(Msg)) /\ Len(rxq') <= RcvBuf
         /\ overrun' \in BOOLEAN /\ lost' \in BOOLEAN
         /\ lost => lost'
         /\ \A k \in DOMAIN rxq : k \in DOMAIN rxq' /\ rxq'[k] = rxq[k]
         /\ bound => lost' \/ \A d \in DOMAIN dgs :
                                \E k \in DOMAIN rxq' : rxq'[k] = dgs[d]
<1> USE NetifAssumption
<1>1. CASE ~bound
  BY <1>1 DEF Deliver, TypeOK
<1>2. CASE bound
  <2> DEFINE room == RcvBuf - Len(rxq)
             fit == IF Len(dgs) <= room THEN Len(dgs) ELSE room
             kept == SubSeq(dgs, 1, fit)
  <2>1. /\ rxq' = rxq \o kept
        /\ overrun' = (overrun \/ fit < Len(dgs))
        /\ lost' = (lost \/ fit < Len(dgs))
    BY <1>2 DEF Deliver
  <2>2. rxq \in Seq(Seq(Msg)) /\ Len(rxq) \in Nat /\ Len(dgs) \in Nat /\ room \in Nat
    BY DEF TypeOK
  <2>3. fit \in 0..Len(dgs) /\ fit <= room
    BY <2>2
  <2>4. kept \in Seq(Seq(Msg)) /\ Len(kept) = fit
        /\ \A d \in 1..fit : kept[d] = dgs[d]
    BY <2>2, <2>3
  <2>5. rxq' \in Seq(Seq(Msg)) /\ Len(rxq') = Len(rxq) + fit
        /\ (\A k \in 1..Len(rxq) : rxq'[k] = rxq[k])
        /\ (\A d \in 1..fit : rxq'[Len(rxq) + d] = dgs[d])
    BY <2>1, <2>2, <2>3, <2>4
  <2>6. Len(rxq') <= RcvBuf
    BY <2>2, <2>3, <2>5
  <2>7. overrun' \in BOOLEAN /\ lost' \in BOOLEAN /\ (lost => lost')
    BY <2>1 DEF TypeOK
  <2>8. \A k \in DOMAIN rxq : k \in DOMAIN rxq' /\ rxq'[k] = rxq[k]
    <3>1. DOMAIN rxq = 1..Len(rxq) /\ DOMAIN rxq' = 1..Len(rxq') /\ Len(rxq') >= Len(rxq)
      BY <2>2, <2>3, <2>5
    <3>2. \A k \in 1..Len(rxq) : k \in 1..Len(rxq')
      BY <2>2, <2>5, <3>1
    <3> QED
      BY <2>5, <3>1, <3>2
  <2>9. ASSUME ~lost', NEW d \in DOMAIN dgs
        PROVE  \E k \in DOMAIN rxq' : rxq'[k] = dgs[d]
    <3>0. ~(fit < Len(dgs))
      BY <2>1, <2>9
    <3>1. fit = Len(dgs) /\ d \in 1..fit
      BY <2>2, <2>3, <3>0
    <3>2. Len(rxq) + d \in DOMAIN rxq'
      BY <2>2, <2>3, <2>5, <3>1
    <3> QED
      BY <2>5, <3>1, <3>2
  <2> QED
    BY <2>5, <2>6, <2>7, <2>8, <2>9
<1> QED
  BY <1>1, <1>2 DEF TypeOK

-----------------------------------------------------------------------------
(* The steps of the kernel.                                                *)

\* A node of the list.
Node == [link : LinkFlags, current_state : EventType, ipaddr : Addrs \cup {NoAddr}]

KifType == [Ifs -> [exists : BOOLEAN, link : LinkFlags, addrs : SUBSET Addrs]]

\* A change of the kernel that sends a message about every interface that
\* gains its first address keeps the invariant.
LEMMA KernelKeeps ==
  ASSUME IInv, KernelStep, NEW dgs \in Seq(Seq(Msg)), Deliver(dgs),
         kif' \in KifType, announced' \in SUBSET Ifs,
         \A i \in Ifs : kif'[i].addrs # {} =>
           kif[i].addrs # {} \/ \E d \in DOMAIN dgs : About(i, dgs[d])
  PROVE  IInv'
<1>1. TypeOK /\ Subscribed /\ HeadReadyAtEnd /\ EmptyBeforeInit /\ AddrInv
  BY DEF IInv
<1>2. /\ rxq' \in Seq(Seq(Msg)) /\ Len(rxq') <= RcvBuf
      /\ overrun' \in BOOLEAN /\ lost' \in BOOLEAN
      /\ lost => lost'
      /\ \A k \in DOMAIN rxq : k \in DOMAIN rxq' /\ rxq'[k] = rxq[k]
      /\ bound => lost' \/ \A d \in DOMAIN dgs :
                             \E k \in DOMAIN rxq' : rxq'[k] = dgs[d]
  BY <1>1, DeliverKeeps
<1>3. /\ events < MaxEvents /\ events' = events + 1
      /\ UNCHANGED <<bound, dumpDue, mpc, tpc, buff, headReady, nodes, attr>>
  BY DEF KernelStep, listVars
<1>4. events' \in 0..MaxEvents
  BY <1>1, <1>3, NetifAssumption DEF TypeOK
<1>5. TypeOK'
  BY <1>1, <1>2, <1>3, <1>4 DEF TypeOK, KifType
<1>6. Subscribed' /\ HeadReadyAtEnd' /\ EmptyBeforeInit'
  BY <1>1, <1>3 DEF Subscribed, HeadReadyAtEnd, EmptyBeforeInit
<1>7. ASSUME mpc' \notin BeforeDump \cup {"exited"}, NEW i \in Ifs, kif'[i].addrs # {}
      PROVE  i \in nodes' \/ Pending(i)' \/ dumpDue' \/ lost'
  <2>1. bound
    BY <1>1, <1>3, <1>7 DEF Subscribed, BeforeDump
  <2>2. CASE kif[i].addrs # {}
    <3>1. i \in nodes \/ Pending(i) \/ dumpDue \/ lost
      BY <1>1, <1>3, <1>7, <2>2 DEF AddrInv
    <3>2. Pending(i) => Pending(i)'
      BY <1>2, <1>3 DEF Pending, About
    <3> QED
      BY <1>2, <1>3, <3>1, <3>2
  <2>3. CASE \E d \in DOMAIN dgs : About(i, dgs[d])
    BY <1>2, <2>1, <2>3 DEF Pending, About
  <2> QED
    BY <1>7, <2>2, <2>3
<1>8. AddrInv'
  BY <1>7 DEF AddrInv
<1> QED
  BY <1>5, <1>6, <1>8 DEF IInv

LEMMA KernelNewLinkKeeps ==
  ASSUME IInv, NEW i \in Ifs, NEW link \in LinkFlags, KernelNewLink(i, link)
  PROVE  IInv'
<1> DEFINE dgs == <<LinkUpdate("NEWLINK", i, link)>>
<1>1. KernelStep /\ Deliver(dgs)
  BY DEF KernelNewLink
<1>2. kif \in KifType /\ announced \in SUBSET Ifs
  BY DEF IInv, TypeOK, KifType
<1>3. /\ kif' = [kif EXCEPT ![i].exists = TRUE, ![i].link = link]
      /\ announced' \in SUBSET Ifs
  BY <1>2 DEF KernelNewLink, Announce
<1>4. kif' \in KifType /\ \A j \in Ifs : kif'[j].addrs = kif[j].addrs
  BY <1>2, <1>3 DEF KifType
<1>5. dgs \in Seq(Seq(Msg))
  BY DEF LinkUpdate, Msg, LinkMsg
<1> HIDE DEF dgs
<1> QED
  BY <1>1, <1>3, <1>4, <1>5, KernelKeeps

LEMMA KernelDelLinkKeeps ==
  ASSUME IInv, NEW i \in Ifs, KernelDelLink(i)
  PROVE  IInv'
<1>1. kif \in KifType /\ announced \in SUBSET Ifs
  BY DEF IInv, TypeOK, KifType
<1>2. PICK order \in Orders(kif[i].addrs) :
        Deliver([k \in DOMAIN order |-> AddrUpdate("DELADDR", i, order[k])]
                \o <<LinkUpdate("DELLINK", i, "down")>>)
  BY DEF KernelDelLink
<1> DEFINE dels == [k \in DOMAIN order |-> AddrUpdate("DELADDR", i, order[k])]
           dgs == dels \o <<LinkUpdate("DELLINK", i, "down")>>
           n == Cardinality(kif[i].addrs)
<1>3. kif[i].addrs \subseteq Addrs
  BY <1>1 DEF KifType
<1>4. IsFiniteSet(kif[i].addrs)
  BY <1>3, NetifAssumption, FS_Subset
<1>5. n \in Nat /\ order \in [1..n -> kif[i].addrs]
  BY <1>4, OrdersAreSequences
<1>6. \A k \in 1..n : AddrUpdate("DELADDR", i, order[k]) \in Seq(Msg)
  BY <1>3, <1>5 DEF AddrUpdate, Msg, AddrMsg
<1>7. dels \in Seq(Seq(Msg))
  BY <1>5, <1>6
<1>8. LinkUpdate("DELLINK", i, "down") \in Seq(Msg)
  BY DEF LinkUpdate, Msg, LinkMsg, LinkFlags
<1>9. dgs \in Seq(Seq(Msg))
  BY <1>7, <1>8
<1>10. kif' = [kif EXCEPT ![i] = [exists |-> FALSE, link |-> "down", addrs |-> {}]]
       /\ announced' \in SUBSET Ifs /\ KernelStep
  BY <1>1 DEF KernelDelLink, Announce
<1>11. kif' \in KifType /\ \A j \in Ifs : kif'[j].addrs # {} => kif[j].addrs # {}
  BY <1>1, <1>10 DEF KifType, LinkFlags
<1> HIDE DEF dgs, dels
<1>12. Deliver(dgs)
  BY <1>2 DEF dgs, dels
<1> QED
  BY <1>9, <1>10, <1>11, <1>12, KernelKeeps

LEMMA KernelLeaveBridgeKeeps ==
  ASSUME IInv, NEW i \in Ifs, KernelLeaveBridge(i)
  PROVE  IInv'
<1> DEFINE dgs == <<LinkUpdate("DELLINK", i, kif[i].link)>>
<1>1. KernelStep /\ Deliver(dgs) /\ kif' = kif
  BY DEF KernelLeaveBridge
<1>2. kif \in KifType /\ announced \in SUBSET Ifs
  BY DEF IInv, TypeOK, KifType
<1>3. announced' \in SUBSET Ifs
  BY <1>2 DEF KernelLeaveBridge, Announce
<1>4. kif[i].link \in LinkFlags
  BY <1>2 DEF KifType
<1>5. dgs \in Seq(Seq(Msg))
  BY <1>4 DEF LinkUpdate, Msg, LinkMsg
<1> HIDE DEF dgs
<1> QED
  BY <1>1, <1>2, <1>3, <1>5, KernelKeeps

LEMMA KernelNewAddrKeeps ==
  ASSUME IInv, NEW i \in Ifs, NEW a \in Addrs, KernelNewAddr(i, a)
  PROVE  IInv'
<1> DEFINE msg == [type |-> "NEWADDR", name |-> i, addr |-> a]
           dgs == <<AddrUpdate("NEWADDR", i, a)>>
<1>1. KernelStep /\ Deliver(dgs) /\ announced' = announced
      /\ kif' = [kif EXCEPT ![i].addrs = @ \cup {a}]
  BY DEF KernelNewAddr
<1>2. kif \in KifType /\ announced \in SUBSET Ifs
  BY DEF IInv, TypeOK, KifType
<1>3. kif' \in KifType /\ \A j \in Ifs : j # i => kif'[j].addrs = kif[j].addrs
  BY <1>1, <1>2 DEF KifType
<1>4. dgs = <<<<msg>>>> /\ msg \in Msg
  BY DEF AddrUpdate, Msg, AddrMsg
<1>5. dgs \in Seq(Seq(Msg))
  BY DEF AddrUpdate, Msg, AddrMsg
<1>6. About(i, <<msg>>)
  BY DEF About
<1>7. 1 \in DOMAIN dgs /\ dgs[1] = <<msg>>
  BY <1>4
<1> HIDE DEF dgs, msg
<1> QED
  BY <1>1, <1>2, <1>3, <1>5, <1>6, <1>7, KernelKeeps

LEMMA KernelDelAddrKeeps ==
  ASSUME IInv, NEW i \in Ifs, NEW a \in Addrs, KernelDelAddr(i, a)
  PROVE  IInv'
<1> DEFINE dgs == <<AddrUpdate("DELADDR", i, a)>>
<1>1. KernelStep /\ Deliver(dgs) /\ announced' = announced
      /\ kif' = [kif EXCEPT ![i].addrs = @ \ {a}]
  BY DEF KernelDelAddr
<1>2. kif \in KifType /\ announced \in SUBSET Ifs
  BY DEF IInv, TypeOK, KifType
<1>3. kif' \in KifType /\ \A j \in Ifs : kif'[j].addrs # {} => kif[j].addrs # {}
  BY <1>1, <1>2 DEF KifType
<1>4. dgs \in Seq(Seq(Msg))
  BY DEF AddrUpdate, Msg, AddrMsg
<1> HIDE DEF dgs
<1> QED
  BY <1>1, <1>2, <1>3, <1>4, KernelKeeps

-----------------------------------------------------------------------------
(* The steps of main.                                                      *)

\* The steps of main that touch nothing AddrInv or EmptyBeforeInit speaks of.
LEMMA MainKeeps ==
  ASSUME IInv, EpollCreate \/ CreateNetlinkSocket \/ EpollAddFd \/ CreateThread \/ MutexInit
               \/ InitFails
  PROVE  IInv'
<1>1. TypeOK /\ Subscribed /\ HeadReadyAtEnd /\ EmptyBeforeInit /\ AddrInv
  BY DEF IInv
<1>2. /\ UNCHANGED <<kif, events, dumpDue, rxq, overrun, buff, headReady, nodes, attr,
                     lost, announced>>
      /\ bound' = bound \/ (mpc = "create_netlink_socket" /\ bound' = TRUE)
      /\ tpc' = tpc \/ tpc' = "epoll_wait"
      /\ \/ <<mpc, mpc'>> \in {<<"epoll_create", "create_netlink_socket">>,
                               <<"create_netlink_socket", "epoll_add_fd">>,
                               <<"epoll_add_fd", "netif_coldboot">>,
                               <<"common_create_thread", "pthread_mutex_init">>,
                               <<"pthread_mutex_init", "init_list_head">>}
         \/ mpc # "sleep" /\ mpc' = "exited"
      /\ (mpc = "create_netlink_socket" /\ mpc' # "exited") => bound'
  <2> USE DEF MainAt, kernelVars, socketVars, listVars
  <2>1. CASE EpollCreate
    BY <2>1 DEF EpollCreate
  <2>2. CASE CreateNetlinkSocket
    BY <2>2 DEF CreateNetlinkSocket
  <2>3. CASE EpollAddFd
    BY <2>3 DEF EpollAddFd
  <2>4. CASE CreateThread
    BY <2>4 DEF CreateThread
  <2>5. CASE MutexInit
    BY <2>5 DEF MutexInit
  <2>6. CASE InitFails
    BY <2>6 DEF InitFails
  <2> QED
    BY <2>1, <2>2, <2>3, <2>4, <2>5, <2>6
<1>3. TypeOK'
  BY <1>1, <1>2 DEF TypeOK
<1>4. Subscribed' /\ HeadReadyAtEnd' /\ EmptyBeforeInit'
  BY <1>1, <1>2 DEF Subscribed, HeadReadyAtEnd, EmptyBeforeInit
<1>5. AddrInv'
  <2>1. mpc' \notin BeforeDump \cup {"exited"} => mpc \notin BeforeDump \cup {"exited"}
    BY <1>2 DEF BeforeDump
  <2>2. \A i : Pending(i)' <=> Pending(i)
    BY <1>2 DEF Pending, About
  <2> QED
    BY <1>1, <1>2, <2>1, <2>2 DEF AddrInv
<1> QED
  BY <1>3, <1>4, <1>5 DEF IInv

\* The dump covers every address there is when the kernel builds it.
LEMMA ColdbootKeeps ==
  ASSUME IInv, Coldboot
  PROVE  IInv'
<1> USE NetifAssumption
<1>1. TypeOK /\ Subscribed /\ HeadReadyAtEnd /\ EmptyBeforeInit /\ AddrInv
  BY DEF IInv
<1>2. /\ mpc = "netif_coldboot" /\ mpc' = "common_create_thread"
      /\ UNCHANGED <<kif, events, bound, overrun, tpc, buff, headReady, nodes, attr, lost,
                     announced>>
  BY DEF Coldboot, MainAt, kernelVars, listVars
<1>3. Subscribed' /\ HeadReadyAtEnd' /\ EmptyBeforeInit'
  BY <1>1, <1>2 DEF Subscribed, HeadReadyAtEnd, EmptyBeforeInit
<1>4. CASE Len(rxq) < RcvBuf
  <2>1. dumpDue' = dumpDue
    BY <1>4 DEF Coldboot
  <2>2. PICK dump \in Dumps : rxq' = Append(rxq, dump)
    BY <1>4 DEF Coldboot
  <2>3. dump \in Seq(Msg) /\ \A i \in Ifs : kif[i].addrs # {} => About(i, dump)
    BY <1>1, DumpComplete
  <2>4. rxq \in Seq(Seq(Msg)) /\ Len(rxq) \in Nat
    BY <1>1 DEF TypeOK
  <2>5. /\ rxq' \in Seq(Seq(Msg)) /\ Len(rxq') <= RcvBuf
        /\ Len(rxq) + 1 \in DOMAIN rxq' /\ rxq'[Len(rxq) + 1] = dump
    BY <1>4, <2>2, <2>3, <2>4
  <2>6. TypeOK'
    BY <1>1, <1>2, <2>1, <2>5 DEF TypeOK
  <2>7. ASSUME NEW i \in Ifs, kif[i].addrs # {}
        PROVE  Pending(i)'
    <3>1. About(i, dump)
      BY <2>3, <2>7
    <3>2. About(i, rxq'[Len(rxq) + 1])
      BY <2>5, <3>1
    <3>3. \E k \in DOMAIN rxq' : About(i, rxq'[k])
      BY <2>5, <3>2
    <3> QED
      BY <3>3 DEF Pending, About
  <2>8. AddrInv'
    BY <1>2, <2>7 DEF AddrInv
  <2> QED
    BY <1>3, <2>6, <2>8 DEF IInv
<1>5. CASE ~(Len(rxq) < RcvBuf)
  <2>1. dumpDue' = TRUE /\ rxq' = rxq
    BY <1>5 DEF Coldboot
  <2>2. TypeOK'
    BY <1>1, <1>2, <2>1 DEF TypeOK
  <2>3. AddrInv'
    BY <2>1 DEF AddrInv
  <2> QED
    BY <1>3, <2>2, <2>3 DEF IInv
<1> QED
  BY <1>4, <1>5

\* COMMON_INIT_LIST_HEAD drops nothing: the list is still empty.
LEMMA InitListHeadKeeps ==
  ASSUME IInv, InitListHead
  PROVE  IInv'
<1>1. TypeOK /\ Subscribed /\ HeadReadyAtEnd /\ EmptyBeforeInit /\ AddrInv
  BY DEF IInv
<1>2. /\ mpc = "init_list_head" /\ mpc' = "sleep" /\ headReady' = TRUE /\ nodes' = {}
      /\ UNCHANGED <<kif, events, bound, dumpDue, rxq, overrun, tpc, buff, attr, lost,
                     announced>>
  BY DEF InitListHead, MainAt, kernelVars, socketVars
<1>3. nodes = {}
  BY <1>1, <1>2 DEF HeadReadyAtEnd, EmptyBeforeInit
<1>4. TypeOK' /\ Subscribed' /\ HeadReadyAtEnd' /\ EmptyBeforeInit'
  BY <1>1, <1>2 DEF TypeOK, Subscribed, HeadReadyAtEnd, EmptyBeforeInit
<1>5. \A i : Pending(i)' <=> Pending(i)
  BY <1>2 DEF Pending, About
<1>6. AddrInv'
  BY <1>1, <1>2, <1>3, <1>5 DEF AddrInv, BeforeDump
<1> QED
  BY <1>4, <1>6 DEF IInv

-----------------------------------------------------------------------------
(* The steps of the event thread.                                          *)

\* Steps that change nothing but where the thread is and a pending error.
LEMMA ThreadMoves ==
  ASSUME IInv, EpollWait \/ RecvError \/ WalkUninitialisedList
  PROVE  IInv'
<1>1. TypeOK /\ Subscribed /\ HeadReadyAtEnd /\ EmptyBeforeInit /\ AddrInv
  BY DEF IInv
<1>2. /\ UNCHANGED <<kif, events, bound, dumpDue, rxq, mpc, buff, headReady, nodes, attr,
                     lost, announced>>
      /\ overrun' \in BOOLEAN
      /\ tpc' \in {"recvfrom", "crashed"}
  <2> USE DEF TypeOK, kernelVars, socketVars, listVars, Dispatch
  <2>1. CASE EpollWait
    BY <1>1, <2>1 DEF EpollWait
  <2>2. CASE RecvError
    BY <1>1, <2>2 DEF RecvError
  <2>3. CASE WalkUninitialisedList
    BY <1>1, <2>3 DEF WalkUninitialisedList
  <2> QED
    BY <2>1, <2>2, <2>3
<1>3. TypeOK' /\ Subscribed' /\ HeadReadyAtEnd' /\ EmptyBeforeInit'
  BY <1>1, <1>2 DEF TypeOK, Subscribed, HeadReadyAtEnd, EmptyBeforeInit
<1>4. \A i : Pending(i)' <=> Pending(i)
  BY <1>2 DEF Pending, About
<1>5. AddrInv'
  BY <1>1, <1>2, <1>4 DEF AddrInv
<1> QED
  BY <1>3, <1>5 DEF IInv

\* A datagram moves from the receive buffer to buff, whole unless a loss is
\* recorded, and a dump that was due is built.
LEMMA RecvKeeps ==
  ASSUME IInv, Recv
  PROVE  IInv'
<1> USE NetifAssumption
<1> DEFINE dgram == Head(rxq)
           n == IF Len(dgram) <= RecvMsgs THEN Len(dgram) ELSE RecvMsgs
<1>1. TypeOK /\ Subscribed /\ HeadReadyAtEnd /\ EmptyBeforeInit /\ AddrInv
  BY DEF IInv
<1>2. /\ UNCHANGED <<kif, events, bound, overrun, mpc, tpc, headReady, nodes, attr, announced>>
      /\ dumpDue' = FALSE /\ buff = <<>> /\ rxq # <<>>
      /\ buff' = SubSeq(dgram, 1, n)
      /\ lost' = (lost \/ n < Len(dgram))
  BY DEF Recv, kernelVars, listVars
<1>3. rxq \in Seq(Seq(Msg)) /\ dgram \in Seq(Msg) /\ Len(dgram) \in Nat /\ dgram = rxq[1]
  BY <1>1, <1>2 DEF TypeOK
<1>4. n \in 0..Len(dgram) /\ buff' \in Seq(Msg)
  BY <1>2, <1>3
<1>5. lost' \in BOOLEAN /\ (lost => lost') /\ (n < Len(dgram) => lost')
  BY <1>1, <1>2 DEF TypeOK
<1>6. /\ Tail(rxq) \in Seq(Seq(Msg)) /\ Len(Tail(rxq)) = Len(rxq) - 1
      /\ Len(Tail(rxq)) < RcvBuf /\ Len(Tail(rxq)) \in Nat
      /\ \A k \in 1..Len(rxq) : k # 1 => k - 1 \in 1..Len(Tail(rxq)) /\ Tail(rxq)[k - 1] = rxq[k]
  BY <1>1, <1>2, <1>3 DEF TypeOK
<1>7. /\ rxq' \in Seq(Seq(Msg)) /\ Len(rxq') <= RcvBuf
      /\ \A k \in DOMAIN Tail(rxq) : k \in DOMAIN rxq' /\ rxq'[k] = Tail(rxq)[k]
      /\ dumpDue => \A i \in Ifs : kif[i].addrs # {} =>
                      \E k \in DOMAIN rxq' : About(i, rxq'[k])
  <2>1. CASE dumpDue
    <3>1. PICK dump \in Dumps : rxq' = Append(Tail(rxq), dump)
      BY <2>1 DEF Recv
    <3>2. dump \in Seq(Msg) /\ \A i \in Ifs : kif[i].addrs # {} => About(i, dump)
      BY <1>1, DumpComplete
    <3>3. /\ rxq' \in Seq(Seq(Msg)) /\ Len(rxq') = Len(Tail(rxq)) + 1
          /\ rxq'[Len(Tail(rxq)) + 1] = dump
          /\ \A k \in 1..Len(Tail(rxq)) : rxq'[k] = Tail(rxq)[k]
      BY <1>6, <3>1, <3>2
    <3>4. DOMAIN rxq' = 1..Len(rxq') /\ DOMAIN Tail(rxq) = 1..Len(Tail(rxq))
          /\ Len(rxq') <= RcvBuf
      BY <1>6, <3>3
    <3>5. Len(Tail(rxq)) + 1 \in DOMAIN rxq'
      BY <1>6, <3>3, <3>4
    <3>6. \A k \in DOMAIN Tail(rxq) : k \in DOMAIN rxq'
      BY <1>6, <3>3, <3>4
    <3> QED
      BY <3>2, <3>3, <3>4, <3>5, <3>6
  <2>2. CASE ~dumpDue
    <3>1. rxq' = Tail(rxq)
      BY <2>2 DEF Recv
    <3> QED
      BY <1>6, <2>2, <3>1
  <2> QED
    BY <2>1, <2>2
<1>8. TypeOK' /\ Subscribed' /\ HeadReadyAtEnd' /\ EmptyBeforeInit'
  BY <1>1, <1>2, <1>4, <1>5, <1>7 DEF TypeOK, Subscribed, HeadReadyAtEnd, EmptyBeforeInit
<1>9. ASSUME NEW i \in Ifs, Pending(i), ~lost'
      PROVE  Pending(i)'
  <2>1. PICK k \in DOMAIN rxq : About(i, rxq[k])
    BY <1>2, <1>9 DEF Pending, About
  <2>2. CASE k = 1
    <3>1. n = Len(dgram)
      BY <1>3, <1>4, <1>5, <1>9
    <3>2. About(i, SubSeq(dgram, 1, Len(dgram)))
      BY <1>3, <2>1, <2>2, AboutCut
    <3>3. About(i, buff')
      BY <1>2, <3>1, <3>2
    <3> QED
      BY <3>3 DEF Pending, About
  <2>3. CASE k # 1
    <3>1. k - 1 \in DOMAIN Tail(rxq) /\ Tail(rxq)[k - 1] = rxq[k]
      BY <1>3, <1>6, <2>1, <2>3
    <3>2. k - 1 \in DOMAIN rxq' /\ rxq'[k - 1] = rxq[k]
      BY <1>7, <3>1
    <3> QED
      BY <2>1, <3>2 DEF Pending, About
  <2> QED
    BY <2>2, <2>3
<1>10. \A i \in Ifs : dumpDue /\ kif[i].addrs # {} => Pending(i)'
  BY <1>7 DEF Pending, About
<1>11. AddrInv'
  BY <1>1, <1>2, <1>5, <1>9, <1>10 DEF AddrInv
<1> QED
  BY <1>8, <1>11 DEF IInv

\* Taking a message off buff loses sight only of the interface it is about.
LEMMA DispatchLeaves ==
  ASSUME TypeOK, Dispatch, buff' = Tail(buff), NEW i, Pending(i)
  PROVE  Pending(i)' \/ (Head(buff).type # "DONE" /\ Head(buff).name = i)
<1>1. buff \in Seq(Msg) /\ buff # <<>> /\ rxq' = rxq
  BY DEF TypeOK, Dispatch, socketVars
<1>2. CASE About(i, buff)
  <2>1. About(i, Tail(buff)) \/ (Head(buff).type # "DONE" /\ Head(buff).name = i)
    BY <1>1, <1>2, AboutTail
  <2> QED
    BY <2>1 DEF Pending, About
<1>3. CASE \E k \in DOMAIN rxq : About(i, rxq[k])
  BY <1>1, <1>3 DEF Pending, About
<1> QED
  BY <1>2, <1>3 DEF Pending

\* A dispatched message is DONE, or its interface is now on the list, or a
\* loss is recorded.
LEMMA DispatchKeeps ==
  ASSUME IInv, Dispatch, buff' = Tail(buff), tpc' = tpc, headReady' = headReady,
         nodes' \in SUBSET Ifs, nodes \subseteq nodes', ~headReady => nodes' = nodes,
         attr' \in [Ifs -> Node], lost' \in BOOLEAN, lost => lost',
         Head(buff).type = "DONE" \/ Head(buff).name \in nodes' \/ lost'
  PROVE  IInv'
<1>1. TypeOK /\ Subscribed /\ HeadReadyAtEnd /\ EmptyBeforeInit /\ AddrInv
  BY DEF IInv
<1>2. UNCHANGED <<kif, events, bound, dumpDue, rxq, overrun, mpc, announced>> /\ buff # <<>>
  BY DEF Dispatch, kernelVars, socketVars
<1>3. buff' \in Seq(Msg)
  BY <1>1, <1>2 DEF TypeOK
<1>4. TypeOK' /\ Subscribed' /\ HeadReadyAtEnd' /\ EmptyBeforeInit'
  BY <1>1, <1>2, <1>3 DEF TypeOK, Node, Subscribed, HeadReadyAtEnd, EmptyBeforeInit
<1>5. \A i : Pending(i) => Pending(i)' \/ i \in nodes' \/ lost'
  BY <1>1, DispatchLeaves
<1>6. AddrInv'
  BY <1>1, <1>2, <1>5 DEF AddrInv
<1> QED
  BY <1>4, <1>6 DEF IInv

\* What a handler makes of a node is a node.
LEMMA StoreKeeps ==
  ASSUME IInv, Dispatch, headReady, Head(buff).type # "DONE", NEW node \in Node,
         Store(Head(buff).name, node)
  PROVE  IInv'
<1>1. TypeOK
  BY DEF IInv
<1>2. Head(buff) \in Msg
  BY <1>1 DEF TypeOK, Dispatch
<1>3. Head(buff).name \in Ifs
  BY <1>2 DEF Msg, LinkMsg, AddrMsg
<1>4. attr' \in [Ifs -> Node] /\ nodes' \in SUBSET Ifs /\ lost' \in BOOLEAN
  BY <1>1, <1>3 DEF TypeOK, Store, Node
<1> QED
  BY <1>4, DispatchKeeps DEF Store

LEMMA HandlersKeep ==
  ASSUME IInv, DispatchDone \/ NodeAddFails \/ IfinfomsgHandle \/ IfaddrmsgHandle
  PROVE  IInv'
<1> DEFINE m == Head(buff)
<1>1. TypeOK
  BY DEF IInv
<1>2. /\ nodes \in SUBSET Ifs /\ lost \in BOOLEAN
      /\ attr \in [Ifs -> Node]
  BY <1>1 DEF TypeOK, Node
<1>3. CASE DispatchDone
  BY <1>2, <1>3, DispatchKeeps DEF DispatchDone, listVars
<1>4. CASE NodeAddFails
  BY <1>2, <1>4, DispatchKeeps DEF NodeAddFails, listVars
<1>5. CASE IfinfomsgHandle \/ IfaddrmsgHandle
  <2>1. Dispatch /\ headReady /\ m.type # "DONE"
    BY <1>5 DEF IfinfomsgHandle, IfaddrmsgHandle
  <2>2. m \in Msg
    BY <1>1, <2>1 DEF TypeOK, Dispatch
  <2>3. m.name \in Ifs
    BY <2>1, <2>2 DEF Msg, LinkMsg, AddrMsg
  <2>4. FindOrAdd(m.name) \in Node
    BY <1>2, <2>3 DEF FindOrAdd, ClearAttr, Node, LinkFlags, EventType
  <2>5. ASSUME NEW node \in Node, NEW type \in EventType
        PROVE  Notified(node, type) \in Node
    BY DEF Notified, Node
  <2>6. CASE IfinfomsgHandle
    <3>1. m.type \in {"NEWLINK", "DELLINK"} /\ Store(m.name, AfterLinkMsg(m))
      BY <2>6 DEF IfinfomsgHandle
    <3>2. m.link \in LinkFlags
      BY <2>2, <3>1 DEF Msg, LinkMsg, AddrMsg
    <3>3. AfterLinkMsg(m) \in Node
      <4> DEFINE node == [FindOrAdd(m.name) EXCEPT !.link = m.link]
                 type == IF m.type = "NEWLINK" /\ node.link # "down" THEN "IF_UP" ELSE "IF_DOWN"
      <4>1. node \in Node /\ type \in EventType
        BY <2>4, <3>2 DEF Node, EventType
      <4>2. Notified(node, type) \in Node
        BY <2>5, <4>1
      <4> QED
        BY <4>2 DEF AfterLinkMsg
    <3> QED
      BY <2>1, <3>1, <3>3, StoreKeeps
  <2>7. CASE IfaddrmsgHandle
    <3>1. m.type \in {"NEWADDR", "DELADDR"} /\ Store(m.name, AfterAddrMsg(m))
      BY <2>7 DEF IfaddrmsgHandle
    <3>2. m.addr \in Addrs
      BY <2>2, <3>1 DEF Msg, LinkMsg, AddrMsg
    <3>3. AfterAddrMsg(m) \in Node
      <4> DEFINE node == [FindOrAdd(m.name) EXCEPT !.ipaddr = m.addr]
                 type == IF m.type = "NEWADDR" THEN "IF_NEWADDR" ELSE "IF_DELADDR"
      <4>1. node \in Node /\ type \in EventType
        BY <2>4, <3>2 DEF Node, EventType
      <4>2. Notified(node, type) \in Node
        BY <2>5, <4>1
      <4> QED
        BY <4>2 DEF AfterAddrMsg
    <3> QED
      BY <2>1, <3>1, <3>3, StoreKeeps
  <2> QED
    BY <1>5, <2>6, <2>7
<1> QED
  BY <1>3, <1>4, <1>5

-----------------------------------------------------------------------------
(* The invariant, and what follows from it.                                *)

LEMMA InitEstablishes == Init => IInv
<1> SUFFICES ASSUME Init
             PROVE  IInv
  OBVIOUS
<1> USE NetifAssumption
<1>1. kif \in KifType
  BY DEF Init, KifType
<1>2. rxq \in Seq(Seq(Msg)) /\ Len(rxq) = 0 /\ buff \in Seq(Msg)
  BY DEF Init
<1>3. attr \in [Ifs -> Node]
  BY DEF Init, Node, ClearAttr, LinkFlags, EventType
<1>4. TypeOK
  <2>1. events \in 0..MaxEvents /\ Len(rxq) <= RcvBuf
    BY <1>2 DEF Init
  <2>2. /\ bound \in BOOLEAN /\ dumpDue \in BOOLEAN /\ overrun \in BOOLEAN
        /\ headReady \in BOOLEAN /\ lost \in BOOLEAN
        /\ nodes \in SUBSET Ifs /\ announced \in SUBSET Ifs
    BY DEF Init
  <2>3. mpc = "epoll_create" /\ tpc = "none"
    BY DEF Init
  <2> QED
    BY <1>1, <1>2, <1>3, <2>1, <2>2, <2>3 DEF TypeOK, KifType, Node
<1>5. Subscribed /\ HeadReadyAtEnd /\ EmptyBeforeInit /\ AddrInv
  BY DEF Init, Subscribed, HeadReadyAtEnd, EmptyBeforeInit, AddrInv, BeforeDump
<1> QED
  BY <1>4, <1>5 DEF IInv

LEMMA NextPreserves == IInv /\ [Next]_vars => IInv'
<1> SUFFICES ASSUME IInv, [Next]_vars
             PROVE  IInv'
  OBVIOUS
<1>1. CASE Kernel
  BY <1>1, KernelNewLinkKeeps, KernelDelLinkKeeps, KernelLeaveBridgeKeeps,
     KernelNewAddrKeeps, KernelDelAddrKeeps DEF Kernel
<1>2. CASE Main \/ InitFails
  BY <1>2, MainKeeps, ColdbootKeeps, InitListHeadKeeps DEF Main
<1>3. CASE Thread \/ NodeAddFails
  BY <1>3, ThreadMoves, RecvKeeps, HandlersKeep DEF Thread
<1>4. CASE UNCHANGED vars
  BY <1>4 DEF vars, kernelVars, socketVars, listVars, IInv, TypeOK, Subscribed,
     HeadReadyAtEnd, EmptyBeforeInit, AddrInv, Pending, About
<1> QED
  BY <1>1, <1>2, <1>3, <1>4 DEF Next

LEMMA IInvHolds == Spec => []IInv
  BY InitEstablishes, NextPreserves, PTL DEF Spec

\* The variables of the event server have their types, and the receive buffer
\* never holds more datagrams than it has room for.
THEOREM NetifTypeCorrect == Spec => []TypeOK
<1>1. IInv => TypeOK
  BY DEF IInv
<1> QED
  BY <1>1, IInvHolds, PTL

\* A server that has caught up (netif_event.c: bind before RTM_GETADDR) has a
\* node for every interface that has an address, whatever the kernel did and
\* however main and the event thread were interleaved.
THEOREM NetifNoAddressMissed == Spec => []NoAddressMissed
<1>1. IInv => NoAddressMissed
  <2> SUFFICES ASSUME IInv, CaughtUp, NEW i \in Ifs, kif[i].addrs # {}
               PROVE  i \in nodes
    BY DEF NoAddressMissed
  <2>1. i \in nodes \/ Pending(i)
    BY DEF IInv, AddrInv, BeforeDump, CaughtUp
  <2>2. ~Pending(i)
    BY DEF Pending, About, CaughtUp
  <2> QED
    BY <2>1, <2>2
<1> QED
  BY <1>1, IInvHolds, PTL

\* No step removes a node: main initialises the list head only while the event
\* thread has inserted nothing.
THEOREM NetifNodesKept == Spec => NodesKept
<1>1. IInv /\ [Next]_vars => [nodes \subseteq nodes']_vars
  <2> SUFFICES ASSUME IInv, Next
               PROVE  nodes \subseteq nodes'
    OBVIOUS
  <2> USE DEF listVars
  <2>1. CASE Kernel
    BY <2>1 DEF Kernel, KernelNewLink, KernelDelLink, KernelLeaveBridge, KernelNewAddr,
                KernelDelAddr, KernelStep
  <2>2. CASE EpollCreate \/ CreateNetlinkSocket \/ EpollAddFd \/ Coldboot \/ CreateThread
             \/ MutexInit \/ InitFails
    BY <2>2 DEF EpollCreate, CreateNetlinkSocket, EpollAddFd, Coldboot, CreateThread,
                MutexInit, InitFails
  <2>3. CASE InitListHead
    BY <2>3 DEF IInv, InitListHead, MainAt, HeadReadyAtEnd, EmptyBeforeInit
  <2>4. CASE Thread \/ NodeAddFails
    BY <2>4 DEF Thread, EpollWait, RecvError, Recv, DispatchDone, WalkUninitialisedList,
                NodeAddFails, IfinfomsgHandle, IfaddrmsgHandle, Store
  <2> QED
    BY <2>1, <2>2, <2>3, <2>4 DEF Next, Main
<1> QED
  BY <1>1, IInvHolds, PTL DEF Spec, NodesKept
=============================================================================
