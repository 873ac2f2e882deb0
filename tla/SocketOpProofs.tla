--------------------------- MODULE SocketOpProofs ---------------------------
(***************************************************************************)
(* For any set of descriptor numbers: what the socket option demonstration *)
(* of socket_op.c does with its three descriptors.                         *)
(*                                                                         *)
(* The first half says what the table of calls is like, demo function by   *)
(* demo function (TcpCalls, UdpCalls, IpCalls, RequiredBeforeListen).  The *)
(* second half follows the program through it: which sockets are open in   *)
(* which part of it (Phases), and that the listener of demo_tcp_init has   *)
(* every option that was required before the call that comes next          *)
(* (Configured).                                                           *)
(***************************************************************************)
EXTENDS SocketOp, SequenceTheorems, TLAPS

\* What the calls are about.
Names == {"SOCK_STREAM", "SO_REUSEADDR", "SO_REUSEPORT", "SO_ACCEPTCONN", "SO_BINDTODEVICE",
          "SO_DONTROUTE", "SO_KEEPALIVE", "SO_LINGER", "SO_MARK", "SO_OOBINLINE",
          "SO_PRIORITY", "IP_TOS", "SO_PROTOCOL", "SO_RCVBUF", "SO_RCVBUFFORCE", "SO_SNDBUF",
          "SO_SNDBUFFORCE", "SO_RCVLOWAT", "SO_SNDLOWAT", "SO_RCVTIMEO", "SO_SNDTIMEO",
          "SO_TIMESTAMP", "TCP_CORK", "TCP_DEFER_ACCEPT", "TCP_INFO", "TCP_KEEPIDLE",
          "TCP_KEEPCNT", "TCP_KEEPINTVL", "TCP_LINGER2", "TCP_MAXSEG", "TCP_NODELAY",
          "TCP_QUICKACK", "TCP_SYNCNT", "TCP_WINDOW_CLAMP", "FD_CLOEXEC", "F_SETFL", "bind",
          "listen", "SOCK_DGRAM", "SO_BROADCAST", "SOCK_RAW", "SIOCGIFINDEX",
          "IP_ADD_MEMBERSHIP", "IP_ADD_SOURCE_MEMBERSHIP", "IP_BLOCK_SOURCE",
          "IP_UNBLOCK_SOURCE", "IP_DROP_SOURCE_MEMBERSHIP", "IP_FREEBIND", "IP_HDRINCL",
          "IP_MSFILTER", "IP_MTU", "IP_MTU_DISCOVER", "IP_MULTICAST_ALL", "IP_MULTICAST_IF",
          "IP_MULTICAST_LOOP", "IP_MULTICAST_TTL", "IP_TTL"}

\* The calls and the demo functions made of them.
AnyCall == [on : Variables, op : {"socket", "set", "get"}, name : Names,
            fail : {"close", "report", "abort", "exit"}]

\* Every demo function makes a call.
AnyDemo == {s \in Seq(AnyCall) : Len(s) >= 1}

\* A demo function of demo_tcp_init after its socket and before its listen: it
\* works on fd, and only an option that is optional may fail and be reported,
\* as the last thing that happens.
TcpDemo ==
  {s \in Seq(AnyCall) :
     /\ Len(s) >= 1
     /\ \A j \in 1..Len(s) : /\ s[j].on = "fd" /\ s[j].op # "socket" /\ s[j].name # "listen"
                             /\ s[j].fail = "report" => j = Len(s) /\ s[j].name \in Optional}

\* One of demo_ip_init: it works on ip_fd or fd and closes nothing.
IpDemo ==
  {s \in Seq(AnyCall) :
     /\ Len(s) >= 1
     /\ \A j \in 1..Len(s) : /\ s[j].on \in {"fd", "ip_fd"} /\ s[j].op # "socket"
                             /\ s[j].fail = "report" /\ s[j].name # "listen"}

\* A call that a demo function of demo_tcp_init may make anywhere.
TcpCall == {c \in AnyCall : /\ c.on = "fd" /\ c.op # "socket" /\ c.name # "listen"
                            /\ c.fail # "report"}

\* One that only the end of a demo function may make.
LastCall == {c \in AnyCall : /\ c.on = "fd" /\ c.op # "socket" /\ c.name # "listen"
                             /\ c.fail = "report" /\ c.name \in Optional}

LEMMA OneCall == \A c \in TcpCall \cup LastCall : <<c>> \in TcpDemo
BY DEF TcpDemo, TcpCall, LastCall

LEMMA TwoCalls == \A b \in TcpCall, c \in TcpCall \cup LastCall : <<b, c>> \in TcpDemo
BY DEF TcpDemo, TcpCall, LastCall

LEMMA ThreeCalls ==
  \A a, b \in TcpCall, c \in TcpCall \cup LastCall : <<a, b, c>> \in TcpDemo
BY DEF TcpDemo, TcpCall, LastCall

\* Options that are set and read on fd.
LEMMA SetGet ==
  ASSUME NEW option \in Names \ {"listen"}
  PROVE  Set(option) \in TcpCall /\ Get(option) \in TcpCall
BY DEF Set, Get, Call, TcpCall, AnyCall, Variables

LEMMA OnlySetDemos ==
  ASSUME NEW options \in Seq(Names \ {"listen"})
  PROVE  OnlySet(options) \in Seq(TcpDemo)
<1>1. \A i \in 1..Len(options) : <<Set(options[i])>> \in TcpDemo
  <2> SUFFICES ASSUME NEW i \in 1..Len(options)
               PROVE  <<Set(options[i])>> \in TcpDemo
    OBVIOUS
  <2>1. options[i] \in Names \ {"listen"}
    BY ElementOfSeq
  <2>2. Set(options[i]) \in TcpCall
    BY <2>1, SetGet
  <2> QED
    BY <2>2, OneCall
<1>2. Len(options) \in Nat
  BY LenProperties
<1>3. OnlySet(options) \in [1..Len(options) -> TcpDemo]
  BY <1>1 DEF OnlySet
<1> QED
  BY <1>2, <1>3, SeqDef

-----------------------------------------------------------------------------
\* Concatenation, by position.
LEMMA Concat ==
  ASSUME NEW S, NEW s \in Seq(S), NEW t \in Seq(S)
  PROVE  /\ s \o t \in Seq(S) /\ Len(s \o t) = Len(s) + Len(t)
         /\ Len(s) \in Nat /\ Len(t) \in Nat
         /\ \A i \in 1..Len(s) : (s \o t)[i] = s[i]
         /\ \A i \in 1..Len(t) : (s \o t)[Len(s) + i] = t[i]
<1>1. Len(s) \in Nat /\ Len(t) \in Nat
  BY LenProperties
<1>2. /\ s \o t \in Seq(S) /\ Len(s \o t) = Len(s) + Len(t)
      /\ \A i \in 1..Len(s) + Len(t) :
           (s \o t)[i] = IF i <= Len(s) THEN s[i] ELSE t[i - Len(s)]
  BY ConcatProperties
<1> DEFINE r == s \o t
<1> HIDE DEF r
<1>3. \A i \in 1..Len(s) : r[i] = s[i]
  BY <1>1, <1>2 DEF r
<1>4. \A i \in 1..Len(t) : r[Len(s) + i] = t[i]
  <2> SUFFICES ASSUME NEW i \in 1..Len(t)
               PROVE  r[Len(s) + i] = t[i]
    OBVIOUS
  <2>1. Len(s) + i \in 1..Len(s) + Len(t) /\ ~(Len(s) + i <= Len(s)) /\ Len(s) + i - Len(s) = i
    BY <1>1
  <2> QED
    BY <1>2, <2>1 DEF r
<1> QED
  BY <1>1, <1>2, <1>3, <1>4 DEF r

\* What is known of the elements is known of the sequence.
LEMMA TcpDemosAreCalls ==
  ASSUME NEW t \in Seq(TcpDemo)
  PROVE  t \in Seq(AnyDemo) /\ Len(t) \in Nat /\ \A i \in 1..Len(t) : t[i] \in TcpDemo
<1>1. \A i \in 1..Len(t) : t[i] \in TcpDemo
  BY ElementOfSeq
<1>2. t \in [1..Len(t) -> TcpDemo] /\ TcpDemo \subseteq AnyDemo /\ Len(t) \in Nat
  BY LenProperties DEF TcpDemo, AnyDemo
<1> QED
  BY <1>1, <1>2, SeqDef

\* The groups of demo functions that demo_tcp_init calls.
LEMMA SocketOptions1Demos ==
  /\ SocketOptions1 \in Seq(TcpDemo)
  /\ Len(SocketOptions1) = 5
  /\ SocketOptions1[1] = <<Get("SO_ACCEPTCONN")>>
<1> DEFINE first == << <<Get("SO_ACCEPTCONN")>>,
                       <<Set("SO_BINDTODEVICE"), Get("SO_BINDTODEVICE")>> >>
           options == <<"SO_DONTROUTE", "SO_KEEPALIVE", "SO_LINGER">>
<1>1. first \in Seq(TcpDemo)
  <2>1. <<Get("SO_ACCEPTCONN")>> \in TcpDemo
    BY SetGet, OneCall DEF Names
  <2>2. <<Set("SO_BINDTODEVICE"), Get("SO_BINDTODEVICE")>> \in TcpDemo
    BY SetGet, TwoCalls DEF Names
  <2> QED
    BY <2>1, <2>2
<1>2. OnlySet(options) \in Seq(TcpDemo)
  <2>1. options \in Seq(Names \ {"listen"})
    BY DEF Names
  <2> QED
    BY <2>1, OnlySetDemos
<1>3. Len(first) = 2 /\ Len(OnlySet(options)) = 3 /\ first[1] = <<Get("SO_ACCEPTCONN")>>
  BY DEF OnlySet
<1>4. SocketOptions1 = first \o OnlySet(options)
  BY DEF SocketOptions1
<1> HIDE DEF first
<1>5. /\ first \o OnlySet(options) \in Seq(TcpDemo)
      /\ Len(first \o OnlySet(options)) = 2 + 3
      /\ \A i \in 1..2 + 3 : (first \o OnlySet(options))[i]
                             = IF i <= 2 THEN first[i] ELSE OnlySet(options)[i - 2]
  BY <1>1, <1>2, <1>3, ConcatProperties, SMTT(30)
<1> QED
  BY <1>3, <1>4, <1>5

LEMMA SocketOptions2Demos == SocketOptions2 \in Seq(TcpDemo)
<1> DEFINE options == <<"SO_MARK", "SO_OOBINLINE">>
           rest == << <<Set("SO_PRIORITY"), Call("fd", "get", "IP_TOS", "report")>>,
                      <<Get("SO_PROTOCOL")>>,
                      <<Get("SO_RCVBUF"), Set("SO_RCVBUF"), Get("SO_RCVBUF")>> >>
<1>1. OnlySet(options) \in Seq(TcpDemo)
  <2>1. options \in Seq(Names \ {"listen"})
    BY DEF Names
  <2> QED
    BY <2>1, OnlySetDemos
<1>2. rest \in Seq(TcpDemo)
  <2>1. <<Set("SO_PRIORITY"), Call("fd", "get", "IP_TOS", "report")>> \in TcpDemo
    <3>1. Call("fd", "get", "IP_TOS", "report") \in LastCall
      BY DEF Call, LastCall, AnyCall, Variables, Optional, Names
    <3> QED
      BY <3>1, SetGet, TwoCalls DEF Names
  <2>2. <<Get("SO_PROTOCOL")>> \in TcpDemo
    BY SetGet, OneCall DEF Names
  <2>3. <<Get("SO_RCVBUF"), Set("SO_RCVBUF"), Get("SO_RCVBUF")>> \in TcpDemo
    BY SetGet, ThreeCalls DEF Names
  <2> QED
    BY <2>1, <2>2, <2>3
<1>3. SocketOptions2 = OnlySet(options) \o rest
  BY DEF SocketOptions2
<1> HIDE DEF options, rest
<1> QED
  BY <1>1, <1>2, <1>3, ConcatProperties

LEMMA SocketOptions3Demos == SocketOptions3 \in Seq(TcpDemo)
<1>1. <<Set("SO_RCVBUFFORCE"), Get("SO_RCVBUF")>> \in TcpDemo
  BY SetGet, TwoCalls DEF Names
<1>2. <<Get("SO_SNDBUF"), Set("SO_SNDBUF"), Get("SO_SNDBUF")>> \in TcpDemo
  BY SetGet, ThreeCalls DEF Names
<1>3. <<Set("SO_SNDBUFFORCE"), Get("SO_SNDBUF")>> \in TcpDemo
  BY SetGet, TwoCalls DEF Names
<1>4. <<Set("SO_RCVLOWAT"), Get("SO_RCVLOWAT")>> \in TcpDemo
  BY SetGet, TwoCalls DEF Names
<1>5. <<Call("fd", "set", "SO_SNDLOWAT", "report")>> \in TcpDemo
  <2>1. Call("fd", "set", "SO_SNDLOWAT", "report") \in LastCall
    BY DEF Call, LastCall, AnyCall, Variables, Optional, Names
  <2> QED
    BY <2>1, OneCall
<1> QED
  BY <1>1, <1>2, <1>3, <1>4, <1>5 DEF SocketOptions3

LEMMA SocketOptions4Demos == SocketOptions4 \in Seq(TcpDemo)
<1>1. <<"SO_RCVTIMEO", "SO_SNDTIMEO", "SO_TIMESTAMP">> \in Seq(Names \ {"listen"})
  BY DEF Names
<1> QED
  BY <1>1, OnlySetDemos DEF SocketOptions4

LEMMA TcpOptions1Demos == TcpOptions1 \in Seq(TcpDemo)
<1> DEFINE options == <<"TCP_CORK", "TCP_DEFER_ACCEPT">>
<1>1. OnlySet(options) \in Seq(TcpDemo)
  <2>1. options \in Seq(Names \ {"listen"})
    BY DEF Names
  <2> QED
    BY <2>1, OnlySetDemos
<1>2. << <<Get("TCP_INFO")>> >> \in Seq(TcpDemo)
  BY SetGet, OneCall DEF Names
<1>3. TcpOptions1 = OnlySet(options) \o << <<Get("TCP_INFO")>> >>
  BY DEF TcpOptions1
<1> HIDE DEF options
<1> QED
  BY <1>1, <1>2, <1>3, ConcatProperties

LEMMA TcpOptions2Demos == TcpOptions2 \in Seq(TcpDemo)
<1> DEFINE first == << <<Set("TCP_KEEPIDLE"), Set("TCP_KEEPCNT"), Set("TCP_KEEPINTVL")>> >>
           options == <<"TCP_LINGER2", "TCP_MAXSEG", "TCP_NODELAY", "TCP_QUICKACK",
                        "TCP_SYNCNT">>
           last == << <<Set("TCP_WINDOW_CLAMP"), Get("TCP_WINDOW_CLAMP")>> >>
<1>1. first \in Seq(TcpDemo)
  BY SetGet, ThreeCalls DEF Names
<1>2. OnlySet(options) \in Seq(TcpDemo)
  <2>1. options \in Seq(Names \ {"listen"})
    BY DEF Names
  <2> QED
    BY <2>1, OnlySetDemos
<1>3. last \in Seq(TcpDemo)
  BY SetGet, TwoCalls DEF Names
<1>4. TcpOptions2 = (first \o OnlySet(options)) \o last
  BY DEF TcpOptions2
<1> HIDE DEF first, options, last
<1>5. first \o OnlySet(options) \in Seq(TcpDemo)
  BY <1>1, <1>2, ConcatProperties
<1> QED
  BY <1>3, <1>4, <1>5, ConcatProperties

-----------------------------------------------------------------------------
\* demo_tcp_init up to where it begins to listen: the socket first, then demo
\* functions; the fourth asks for the state that listen brings about.
TcpStart ==
  {s \in Seq(AnyDemo) :
     /\ Len(s) >= 4
     /\ s[1] = <<Call("fd", "socket", "SOCK_STREAM", "exit")>>
     /\ s[4] = <<Get("SO_ACCEPTCONN")>>
     /\ \A i \in 2..Len(s) : s[i] \in TcpDemo}

LEMMA StartGrows ==
  ASSUME NEW s \in TcpStart, NEW t \in Seq(TcpDemo)
  PROVE  s \o t \in TcpStart
<1>1. s \in Seq(AnyDemo) /\ Len(s) \in Nat /\ Len(s) >= 4 /\ Len(t) \in Nat
  BY LenProperties DEF TcpStart
<1>2. t \in Seq(AnyDemo) /\ \A i \in 1..Len(t) : t[i] \in TcpDemo
  BY TcpDemosAreCalls
<1>3. /\ s \o t \in Seq(AnyDemo)
      /\ Len(s \o t) = Len(s) + Len(t)
      /\ \A i \in 1..Len(s) + Len(t) :
           (s \o t)[i] = IF i <= Len(s) THEN s[i] ELSE t[i - Len(s)]
  BY <1>1, <1>2, ConcatProperties
<1> DEFINE r == s \o t
<1> HIDE DEF r
<1>4. \A i \in 2..Len(s) + Len(t) : r[i] \in TcpDemo
  <2> SUFFICES ASSUME NEW i \in 2..Len(s) + Len(t)
               PROVE  r[i] \in TcpDemo
    OBVIOUS
  <2>1. CASE i <= Len(s)
    BY <1>1, <1>3, <2>1 DEF TcpStart, r
  <2>2. CASE i > Len(s)
    <3>1. i - Len(s) \in 1..Len(t) /\ i \in 1..Len(s) + Len(t) /\ ~(i <= Len(s))
      BY <1>1, <2>2
    <3> QED
      BY <1>2, <1>3, <3>1 DEF r
  <2> QED
    BY <1>1, <2>1, <2>2
<1>5. r[1] = s[1] /\ r[4] = s[4] /\ Len(r) >= 4
  BY <1>1, <1>3 DEF r
<1>6. r \in TcpStart
  BY <1>1, <1>3, <1>4, <1>5 DEF TcpStart, r
<1> QED
  BY <1>6 DEF r

\* demo_tcp_init.
LEMMA TcpInitDemos ==
  /\ TcpInit \in Seq(AnyDemo)
  /\ Len(TcpInit) \in Nat /\ Len(TcpInit) >= 9
  /\ TcpInit[1] = <<Call("fd", "socket", "SOCK_STREAM", "exit")>>
  /\ TcpInit[4] = <<Get("SO_ACCEPTCONN")>>
  /\ \A i \in 2..Len(TcpInit) - 5 : TcpInit[i] \in TcpDemo
  /\ TcpInit[Len(TcpInit) - 4] = <<Call("fd", "set", "FD_CLOEXEC", "report")>>
  /\ TcpInit[Len(TcpInit) - 3] = <<Call("fd", "set", "F_SETFL", "abort")>>
  /\ TcpInit[Len(TcpInit) - 2] = <<Call("fd", "set", "bind", "abort")>>
  /\ TcpInit[Len(TcpInit) - 1] = <<Call("fd", "set", "listen", "abort")>>
  /\ TcpInit[Len(TcpInit)] = <<Get("SO_ACCEPTCONN")>>
<1> DEFINE first == << <<Call("fd", "socket", "SOCK_STREAM", "exit")>>,
                       <<Call("fd", "set", "SO_REUSEADDR", "abort")>>,
                       <<Call("fd", "set", "SO_REUSEPORT", "report")>> >>
           s1 == first \o SocketOptions1
           s2 == s1 \o SocketOptions2
           s3 == s2 \o SocketOptions3
           s4 == s3 \o SocketOptions4
           t1 == s4 \o TcpOptions1
           t2 == t1 \o TcpOptions2
<1>1. s1 \in TcpStart
  <2>1. /\ Len(first) = 3 /\ first \in Seq(AnyDemo)
        /\ first[1] = <<Call("fd", "socket", "SOCK_STREAM", "exit")>>
    BY DEF Call, AnyDemo, AnyCall, Variables, Names
  <2>2. first[2] \in TcpDemo /\ first[3] \in TcpDemo
    <3>1. Call("fd", "set", "SO_REUSEADDR", "abort") \in TcpCall
      BY DEF Call, TcpCall, AnyCall, Variables, Names
    <3>2. Call("fd", "set", "SO_REUSEPORT", "report") \in LastCall
      BY DEF Call, LastCall, AnyCall, Variables, Optional, Names
    <3> QED
      BY <3>1, <3>2, OneCall
  <2>3. /\ SocketOptions1 \in Seq(AnyDemo) /\ Len(SocketOptions1) = 5
        /\ \A i \in 1..5 : SocketOptions1[i] \in TcpDemo
        /\ SocketOptions1[1] = <<Get("SO_ACCEPTCONN")>>
    BY SocketOptions1Demos, TcpDemosAreCalls
  <2> HIDE DEF first
  <2>4. /\ s1 \in Seq(AnyDemo) /\ Len(s1) = 3 + 5
        /\ \A i \in 1..3 : s1[i] = first[i]
        /\ \A i \in 1..5 : s1[3 + i] = SocketOptions1[i]
    <3>1. first \in Seq(AnyDemo) /\ SocketOptions1 \in Seq(AnyDemo)
      BY <2>1, <2>3
    <3> HIDE DEF s1
    <3>2. /\ s1 \in Seq(AnyDemo) /\ Len(s1) = Len(first) + Len(SocketOptions1)
          /\ \A i \in 1..Len(first) : s1[i] = first[i]
          /\ \A i \in 1..Len(SocketOptions1) : s1[Len(first) + i] = SocketOptions1[i]
      BY <3>1, Concat DEF s1
    <3> QED
      BY <2>1, <2>3, <3>2
  <2> HIDE DEF s1
  <2>5. s1[2] \in TcpDemo /\ s1[3] \in TcpDemo
    BY <2>2, <2>4
  <2>6. \A i \in 4..8 : s1[i] \in TcpDemo
    <3> SUFFICES ASSUME NEW i \in 4..8
                 PROVE  s1[i] \in TcpDemo
      OBVIOUS
    <3>1. i - 3 \in 1..5 /\ 3 + (i - 3) = i
      OBVIOUS
    <3> QED
      BY <2>3, <2>4, <3>1
  <2>7. s1[1] = first[1] /\ s1[4] = SocketOptions1[1]
    <3>1. 1 \in 1..3 /\ 1 \in 1..5 /\ 3 + 1 = 4
      OBVIOUS
    <3> QED
      BY <2>4, <3>1
  <2>8. \A i \in 2..8 : i = 2 \/ i = 3 \/ i \in 4..8
    OBVIOUS
  <2>9. Len(s1) = 8 /\ \A i \in 2..8 : s1[i] \in TcpDemo
    BY <2>4, <2>5, <2>6, <2>8
  <2>10. s1[1] = <<Call("fd", "socket", "SOCK_STREAM", "exit")>> /\ s1[4] = <<Get("SO_ACCEPTCONN")>>
    BY <2>1, <2>3, <2>7
  <2>11. /\ s1 \in Seq(AnyDemo) /\ Len(s1) >= 4
         /\ \A i \in 2..Len(s1) : s1[i] \in TcpDemo
    BY <2>4, <2>9
  <2> QED
    BY <2>10, <2>11, Zenon DEF TcpStart
<1> HIDE DEF s1
<1>2. s2 \in TcpStart
  BY <1>1, SocketOptions2Demos, StartGrows
<1> HIDE DEF s2
<1>3. s3 \in TcpStart
  BY <1>2, SocketOptions3Demos, StartGrows
<1> HIDE DEF s3
<1>4. s4 \in TcpStart
  BY <1>3, SocketOptions4Demos, StartGrows
<1> HIDE DEF s4
<1>5. t1 \in TcpStart
  BY <1>4, TcpOptions1Demos, StartGrows
<1> HIDE DEF t1
<1>6. t2 \in TcpStart
  BY <1>5, TcpOptions2Demos, StartGrows
<1> HIDE DEF t2
<1>7. TcpInit = t2 \o Listen
  BY DEF TcpInit, t2, t1, s4, s3, s2, s1
<1>8. /\ t2 \in Seq(AnyDemo) /\ Len(t2) \in Nat /\ Len(t2) >= 4
      /\ t2[1] = <<Call("fd", "socket", "SOCK_STREAM", "exit")>>
      /\ t2[4] = <<Get("SO_ACCEPTCONN")>>
      /\ \A i \in 2..Len(t2) : t2[i] \in TcpDemo
  BY <1>6, LenProperties DEF TcpStart
<1>9. /\ Listen \in Seq(AnyDemo) /\ Len(Listen) = 5
      /\ Listen[1] = <<Call("fd", "set", "FD_CLOEXEC", "report")>>
      /\ Listen[2] = <<Call("fd", "set", "F_SETFL", "abort")>>
      /\ Listen[3] = <<Call("fd", "set", "bind", "abort")>>
      /\ Listen[4] = <<Call("fd", "set", "listen", "abort")>>
      /\ Listen[5] = <<Get("SO_ACCEPTCONN")>>
  <2>1. \A name \in Names, fail \in {"report", "abort"} : Call("fd", "set", name, fail) \in AnyCall
    BY DEF Call, AnyCall, Variables
  <2>2. Get("SO_ACCEPTCONN") \in AnyCall
    BY DEF Get, Call, AnyCall, Variables, Names
  <2>3. {"FD_CLOEXEC", "F_SETFL", "bind", "listen"} \subseteq Names
    BY DEF Names
  <2> QED
    BY <2>1, <2>2, <2>3 DEF Listen, AnyDemo
<1>10. /\ TcpInit \in Seq(AnyDemo)
       /\ Len(TcpInit) = Len(t2) + 5
       /\ \A i \in 1..Len(t2) : TcpInit[i] = t2[i]
       /\ \A i \in 1..5 : TcpInit[Len(t2) + i] = Listen[i]
  <2>1. t2 \in Seq(AnyDemo) /\ Listen \in Seq(AnyDemo)
    BY <1>8, <1>9
  <2> DEFINE whole == t2 \o Listen
  <2>2. /\ whole \in Seq(AnyDemo) /\ Len(whole) = Len(t2) + Len(Listen)
        /\ \A i \in 1..Len(t2) : whole[i] = t2[i]
        /\ \A i \in 1..Len(Listen) : whole[Len(t2) + i] = Listen[i]
    BY <2>1, Concat
  <2>3. TcpInit = whole
    BY <1>7
  <2> HIDE DEF whole
  <2> QED
    BY <1>9, <2>2, <2>3, Zenon
<1>11. \A i \in 2..Len(TcpInit) - 5 : TcpInit[i] \in TcpDemo
  <2>1. \A i \in 2..Len(t2) : i \in 1..Len(t2)
    BY <1>8
  <2>2. Len(TcpInit) - 5 = Len(t2)
    BY <1>8, <1>10
  <2>3. \A i \in 2..Len(t2) : TcpInit[i] \in TcpDemo
    BY <1>8, <1>10, <2>1, Zenon
  <2> QED
    BY <2>2, <2>3
<1>12. TcpInit[1] = t2[1] /\ TcpInit[4] = t2[4]
  <2>1. 1 \in 1..Len(t2) /\ 4 \in 1..Len(t2)
    BY <1>8
  <2> QED
    BY <1>10, <2>1, Zenon
<1>14. /\ Len(TcpInit) = Len(t2) + 5 /\ Len(TcpInit) - 1 = Len(t2) + 4
       /\ Len(TcpInit) - 2 = Len(t2) + 3 /\ Len(TcpInit) - 3 = Len(t2) + 2
       /\ Len(TcpInit) - 4 = Len(t2) + 1 /\ Len(TcpInit) >= 9 /\ Len(TcpInit) \in Nat
  BY <1>8, <1>10
<1>15. /\ TcpInit[Len(TcpInit) - 4] = Listen[1] /\ TcpInit[Len(TcpInit) - 3] = Listen[2]
       /\ TcpInit[Len(TcpInit) - 2] = Listen[3] /\ TcpInit[Len(TcpInit) - 1] = Listen[4]
       /\ TcpInit[Len(TcpInit)] = Listen[5]
  BY <1>10, <1>14
<1> QED
  BY <1>8, <1>9, <1>10, <1>11, <1>12, <1>14, <1>15

-----------------------------------------------------------------------------
\* demo_udp_init.
LEMMA UdpInitDemos ==
  /\ UdpInit \in Seq(AnyDemo) /\ Len(UdpInit) = 2
  /\ UdpInit[1] = <<Call("udp_fd", "socket", "SOCK_DGRAM", "exit")>>
  /\ UdpInit[2] = <<Call("udp_fd", "set", "SO_BROADCAST", "close"),
                    Call("udp_fd", "get", "SO_BROADCAST", "close")>>
<1>1. \A op \in {"socket", "set", "get"}, name \in Names, fail \in {"close", "exit"} :
        Call("udp_fd", op, name, fail) \in AnyCall
  BY DEF Call, AnyCall, Variables
<1>2. {"SOCK_DGRAM", "SO_BROADCAST"} \subseteq Names
  BY DEF Names
<1>3. /\ <<Call("udp_fd", "socket", "SOCK_DGRAM", "exit")>> \in AnyDemo
      /\ <<Call("udp_fd", "set", "SO_BROADCAST", "close"),
           Call("udp_fd", "get", "SO_BROADCAST", "close")>> \in AnyDemo
  BY <1>1, <1>2 DEF AnyDemo
<1> QED
  BY <1>3 DEF UdpInit

\* The demo functions that demo_ip_init calls.
LEMMA OneIpCall ==
  \A v \in {"fd", "ip_fd"}, op \in {"set", "get"}, name \in Names \ {"listen"} :
    <<Ip(v, op, name)>> \in IpDemo
BY DEF IpDemo, Ip, Call, AnyCall, Variables

LEMMA AddMembershipDemos == AddMembership \in Seq(IpDemo)
<1>1. <<Ip("fd", "get", "SIOCGIFINDEX")>> \in IpDemo
  BY OneIpCall DEF Names
<1>2. <<Ip("ip_fd", "set", "IP_ADD_MEMBERSHIP")>> \in IpDemo
  BY OneIpCall DEF Names
<1> QED
  BY <1>1, <1>2 DEF AddMembership

LEMMA IpSets ==
  \A name \in {"IP_ADD_SOURCE_MEMBERSHIP", "IP_BLOCK_SOURCE", "IP_UNBLOCK_SOURCE",
               "IP_DROP_SOURCE_MEMBERSHIP", "IP_FREEBIND", "IP_HDRINCL", "IP_MSFILTER",
               "IP_MULTICAST_IF", "IP_MULTICAST_LOOP", "IP_MULTICAST_TTL", "IP_TTL",
               "IP_TOS"} :
    <<Ip("ip_fd", "set", name)>> \in IpDemo
BY OneIpCall DEF Names

LEMMA SourceMembershipDemos == SourceMembership \in Seq(IpDemo)
BY IpSets DEF SourceMembership

LEMMA IpOptions1Demos == IpOptions1 \in Seq(IpDemo)
<1> DEFINE first == << <<Ip("ip_fd", "set", "IP_FREEBIND")>>,
                       <<Ip("ip_fd", "set", "IP_HDRINCL")>> >>
           last == << <<Ip("ip_fd", "set", "IP_MSFILTER")>> >>
<1>1. first \in Seq(IpDemo) /\ last \in Seq(IpDemo)
  BY IpSets
<1>2. IpOptions1 = (first \o AddMembership) \o last
  BY DEF IpOptions1
<1> HIDE DEF first, last
<1>3. first \o AddMembership \in Seq(IpDemo)
  BY <1>1, AddMembershipDemos, ConcatProperties
<1> QED
  BY <1>1, <1>2, <1>3, ConcatProperties

LEMMA IpOptions2Demos == IpOptions2 \in Seq(IpDemo)
<1>1. \A name \in {"IP_MTU", "SIOCGIFINDEX"} : <<Ip("fd", "get", name)>> \in IpDemo
  BY OneIpCall DEF Names
<1>2. \A name \in {"IP_MTU_DISCOVER", "IP_MULTICAST_ALL"} : <<Ip("fd", "set", name)>> \in IpDemo
  BY OneIpCall DEF Names
<1> QED
  BY <1>1, <1>2, IpSets DEF IpOptions2

LEMMA IpOptions3Demos == IpOptions3 \in Seq(IpDemo)
BY IpSets DEF IpOptions3

\* demo_ip_init, as far as it has been put together: its socket, then demo
\* functions.
IpStart ==
  {s \in Seq(AnyDemo) : /\ Len(s) >= 1
                        /\ s[1] = <<Call("ip_fd", "socket", "SOCK_RAW", "exit")>>
                        /\ \A i \in 2..Len(s) : s[i] \in IpDemo}

LEMMA IpStartGrows ==
  ASSUME NEW s \in IpStart, NEW t \in Seq(IpDemo)
  PROVE  s \o t \in IpStart
<1>1. s \in Seq(AnyDemo) /\ Len(s) \in Nat /\ Len(s) >= 1 /\ Len(t) \in Nat
  BY LenProperties DEF IpStart
<1>2. t \in Seq(AnyDemo) /\ \A i \in 1..Len(t) : t[i] \in IpDemo
  <2>1. \A i \in 1..Len(t) : t[i] \in IpDemo
    BY ElementOfSeq
  <2>2. t \in [1..Len(t) -> IpDemo] /\ IpDemo \subseteq AnyDemo
    BY LenProperties DEF IpDemo, AnyDemo
  <2> QED
    BY <1>1, <2>1, <2>2, SeqDef
<1> DEFINE r == s \o t
<1> HIDE DEF r
<1>3. /\ r \in Seq(AnyDemo) /\ Len(r) = Len(s) + Len(t)
      /\ \A i \in 1..Len(s) : r[i] = s[i]
      /\ \A i \in 1..Len(t) : r[Len(s) + i] = t[i]
  BY <1>1, <1>2, Concat DEF r
<1>4. ASSUME NEW i \in 2..Len(r)
      PROVE  r[i] \in IpDemo
  <2>1. CASE i <= Len(s)
    BY <1>1, <1>3, <2>1 DEF IpStart
  <2>2. CASE i > Len(s)
    <3>1. i - Len(s) \in 1..Len(t) /\ Len(s) + (i - Len(s)) = i
      BY <1>1, <1>3, <2>2
    <3> QED
      BY <1>2, <1>3, <3>1
  <2> QED
    BY <1>1, <2>1, <2>2
<1>5. r[1] = s[1] /\ Len(r) >= 1
  BY <1>1, <1>3
<1>6. s[1] = <<Call("ip_fd", "socket", "SOCK_RAW", "exit")>>
  BY DEF IpStart
<1>7. r \in IpStart
  BY <1>3, <1>4, <1>5, <1>6, Zenon DEF IpStart
<1> QED
  BY <1>7 DEF r

\* demo_ip_init.
LEMMA IpInitDemos == IpInit \in IpStart
<1> DEFINE s0 == << <<Call("ip_fd", "socket", "SOCK_RAW", "exit")>> >>
           s1 == s0 \o AddMembership
           s2 == s1 \o SourceMembership
           s3 == s2 \o IpOptions1
           s4 == s3 \o IpOptions2
<1>1. s0 \in IpStart
  <2>1. Call("ip_fd", "socket", "SOCK_RAW", "exit") \in AnyCall
    BY DEF Call, AnyCall, Variables, Names
  <2>2. s0 \in Seq(AnyDemo) /\ Len(s0) = 1
    BY <2>1 DEF AnyDemo
  <2>3. s0[1] = <<Call("ip_fd", "socket", "SOCK_RAW", "exit")>>
    OBVIOUS
  <2> HIDE DEF s0
  <2>4. Len(s0) >= 1 /\ \A i \in 2..Len(s0) : s0[i] \in IpDemo
    BY <2>2
  <2> QED
    BY <2>2, <2>3, <2>4, Zenon DEF IpStart
<1> HIDE DEF s0
<1>2. s1 \in IpStart
  BY <1>1, AddMembershipDemos, IpStartGrows
<1> HIDE DEF s1
<1>3. s2 \in IpStart
  BY <1>2, SourceMembershipDemos, IpStartGrows
<1> HIDE DEF s2
<1>4. s3 \in IpStart
  BY <1>3, IpOptions1Demos, IpStartGrows
<1> HIDE DEF s3
<1>5. s4 \in IpStart
  BY <1>4, IpOptions2Demos, IpStartGrows
<1> HIDE DEF s4
<1>6. IpInit = s4 \o IpOptions3
  BY DEF IpInit, s4, s3, s2, s1, s0
<1> QED
  BY <1>5, <1>6, IpOptions3Demos, IpStartGrows

-----------------------------------------------------------------------------
\* Where the three parts of the program begin and end.
T == Len(TcpInit)

\* The program: its parts one after the other.
LEMMA ProgramParts ==
  /\ Program \in Seq(AnyDemo)
  /\ T \in Nat /\ T >= 9 /\ Len(IpInit) \in Nat /\ Len(IpInit) >= 1
  /\ Len(Program) = T + 2 + Len(IpInit)
  /\ \A i \in 1..T : Program[i] = TcpInit[i]
  /\ Program[T + 1] = UdpInit[1] /\ Program[T + 2] = UdpInit[2]
  /\ \A i \in 1..Len(IpInit) : Program[T + 2 + i] = IpInit[i]
<1> DEFINE front == TcpInit \o UdpInit
           whole == front \o IpInit
<1>1. TcpInit \in Seq(AnyDemo) /\ UdpInit \in Seq(AnyDemo)
  BY TcpInitDemos, UdpInitDemos
<1>2. IpInit \in Seq(AnyDemo) /\ Len(IpInit) >= 1
  BY IpInitDemos DEF IpStart
<1>3. /\ front \in Seq(AnyDemo) /\ Len(front) = T + Len(UdpInit) /\ T \in Nat
      /\ \A i \in 1..T : front[i] = TcpInit[i]
      /\ \A i \in 1..Len(UdpInit) : front[T + i] = UdpInit[i]
  BY <1>1, Concat DEF T
<1> HIDE DEF front
<1>4. /\ whole \in Seq(AnyDemo) /\ Len(whole) = Len(front) + Len(IpInit)
      /\ Len(IpInit) \in Nat
      /\ \A i \in 1..Len(front) : whole[i] = front[i]
      /\ \A i \in 1..Len(IpInit) : whole[Len(front) + i] = IpInit[i]
  <2>1. IpInit \in Seq(AnyDemo) /\ front \in Seq(AnyDemo)
    BY <1>2, <1>3
  <2> QED
    BY <2>1, Concat
<1> HIDE DEF whole
<1>5. T >= 9 /\ Len(UdpInit) = 2
  BY TcpInitDemos, UdpInitDemos DEF T
<1>6. Len(front) = T + 2
  BY <1>3, <1>5
<1>7. \A i \in 1..T : whole[i] = TcpInit[i]
  BY <1>3, <1>4, <1>6
<1>8. whole[T + 1] = UdpInit[1] /\ whole[T + 2] = UdpInit[2]
  BY <1>3, <1>4, <1>5, <1>6
<1>9. \A i \in 1..Len(IpInit) : whole[T + 2 + i] = IpInit[i]
  BY <1>4, <1>6
<1>10. Program = whole
  BY DEF Program, whole, front
<1> QED
  BY <1>2, <1>3, <1>4, <1>5, <1>6, <1>7, <1>8, <1>9, <1>10

\* The calls of demo_tcp_init are about fd, it opens its socket first and
\* listens last but one, and what it only reports could be done without.
LEMMA TcpCalls ==
  ASSUME NEW i \in 1..T, NEW j \in 1..Len(Program[i])
  PROVE  /\ Program[i][j].on = "fd"
         /\ Program[i][j].op = "socket" <=> i = 1
         /\ i = 1 => Len(Program[i]) = 1
         /\ i # 1 /\ Program[i][j].fail = "report" =>
              j = Len(Program[i]) /\ Program[i][j].name \in Optional
         /\ Program[i][j].name = "listen" => i = T - 1
<1>1. Program[i] = TcpInit[i] /\ T \in Nat /\ T >= 9
  BY ProgramParts
<1>2. CASE i = 1
  <2>1. TcpInit[i] = <<Call("fd", "socket", "SOCK_STREAM", "exit")>>
    BY <1>2, TcpInitDemos
  <2>2. j = 1
    BY <1>1, <2>1
  <2> QED
    BY <1>1, <1>2, <2>1, <2>2 DEF Call
<1>3. CASE i \in 2..T - 5
  <2>1. TcpInit[i] \in TcpDemo
    BY <1>3, TcpInitDemos DEF T
  <2> QED
    BY <1>1, <1>3, <2>1 DEF TcpDemo
<1>4. CASE i = T - 4
  <2>1. TcpInit[i] = <<Call("fd", "set", "FD_CLOEXEC", "report")>>
    BY <1>4, TcpInitDemos DEF T
  <2>2. j = 1
    BY <1>1, <2>1
  <2> QED
    BY <1>1, <1>4, <2>1, <2>2 DEF Call, Optional
<1>5. CASE i = T - 3
  <2>1. TcpInit[i] = <<Call("fd", "set", "F_SETFL", "abort")>>
    BY <1>5, TcpInitDemos DEF T
  <2>2. j = 1
    BY <1>1, <2>1
  <2> QED
    BY <1>1, <1>5, <2>1, <2>2 DEF Call
<1>6. CASE i = T - 2
  <2>1. TcpInit[i] = <<Call("fd", "set", "bind", "abort")>>
    BY <1>6, TcpInitDemos DEF T
  <2>2. j = 1
    BY <1>1, <2>1
  <2> QED
    BY <1>1, <1>6, <2>1, <2>2 DEF Call
<1>7. CASE i = T - 1
  <2>1. TcpInit[i] = <<Call("fd", "set", "listen", "abort")>>
    BY <1>7, TcpInitDemos DEF T
  <2>2. j = 1
    BY <1>1, <2>1
  <2> QED
    BY <1>1, <1>7, <2>1, <2>2 DEF Call
<1>8. CASE i = T
  <2>1. TcpInit[i] = <<Get("SO_ACCEPTCONN")>>
    BY <1>8, TcpInitDemos DEF T
  <2>2. j = 1
    BY <1>1, <2>1
  <2> QED
    BY <1>1, <1>8, <2>1, <2>2 DEF Get, Call
<1> QED
  BY <1>1, <1>2, <1>3, <1>4, <1>5, <1>6, <1>7, <1>8

\* The calls of demo_udp_init are about udp_fd.
LEMMA UdpCalls ==
  ASSUME NEW i \in T + 1..T + 2, NEW j \in 1..Len(Program[i])
  PROVE  /\ Program[i][j].on = "udp_fd"
         /\ Program[i][j].op = "socket" <=> i = T + 1
         /\ i = T + 1 => Len(Program[i]) = 1
         /\ Program[i][j].name # "listen"
<1>1. T \in Nat
  BY ProgramParts
<1>2. CASE i = T + 1
  <2>1. Program[i] = <<Call("udp_fd", "socket", "SOCK_DGRAM", "exit")>>
    BY <1>2, ProgramParts, UdpInitDemos
  <2>2. j = 1
    BY <2>1
  <2> QED
    BY <1>1, <1>2, <2>1, <2>2 DEF Call
<1>3. CASE i = T + 2
  <2>1. Program[i] = <<Call("udp_fd", "set", "SO_BROADCAST", "close"),
                       Call("udp_fd", "get", "SO_BROADCAST", "close")>>
    BY <1>3, ProgramParts, UdpInitDemos
  <2>2. j = 1 \/ j = 2
    BY <2>1
  <2> QED
    BY <1>1, <1>3, <2>1, <2>2 DEF Call
<1> QED
  BY <1>1, <1>2, <1>3

\* Those of demo_ip_init are about ip_fd or fd, and close nothing.
LEMMA IpCalls ==
  ASSUME NEW i \in T + 3..Len(Program), NEW j \in 1..Len(Program[i])
  PROVE  /\ Program[i][j].on \in {"fd", "ip_fd"}
         /\ Program[i][j].op = "socket" <=> i = T + 3
         /\ i = T + 3 => Len(Program[i]) = 1 /\ Program[i][j].on = "ip_fd"
         /\ i # T + 3 => Program[i][j].fail = "report"
         /\ Program[i][j].name # "listen"
<1> DEFINE k == i - (T + 2)
<1>1. /\ T \in Nat /\ k \in 1..Len(IpInit) /\ T + 2 + k = i
      /\ k = 1 <=> i = T + 3
  <2> DEFINE n == Len(IpInit)
             m == Len(Program)
  <2>1. T \in Nat /\ n \in Nat /\ m = T + 2 + n
    BY ProgramParts
  <2>2. i \in T + 3..m
    OBVIOUS
  <2> HIDE DEF n, m
  <2>3. k \in 1..n /\ T + 2 + k = i /\ (k = 1 <=> i = T + 3)
    BY <2>1, <2>2
  <2> QED
    BY <2>1, <2>3 DEF n
<1>2. Program[i] = IpInit[k]
  BY <1>1, ProgramParts
<1> HIDE DEF k
<1>3. CASE k = 1
  <2>1. Program[i] = <<Call("ip_fd", "socket", "SOCK_RAW", "exit")>>
    BY <1>2, <1>3, IpInitDemos DEF IpStart
  <2>2. j = 1
    BY <2>1
  <2> QED
    BY <1>1, <1>3, <2>1, <2>2 DEF Call
<1>4. CASE k # 1
  <2>1. k \in 2..Len(IpInit)
    BY <1>1, <1>4
  <2>2. Program[i] \in IpDemo
    BY <1>2, <2>1, IpInitDemos DEF IpStart
  <2> QED
    BY <1>1, <1>4, <2>2 DEF IpDemo
<1> QED
  BY <1>3, <1>4

LEMMA DemosHaveCalls ==
  ASSUME NEW i \in 1..Len(Program)
  PROVE  Len(Program[i]) \in Nat /\ Len(Program[i]) >= 1
<1>1. Program[i] \in AnyDemo
  BY ProgramParts, ElementOfSeq
<1> QED
  BY <1>1, LenProperties DEF AnyDemo

-----------------------------------------------------------------------------
\* The required calls that the program makes before it gets to p.
Before(p) ==
  {r \in Required : \E i \in 1..T : \E j \in 1..Len(Program[i]) :
                      /\ i < p[1] \/ (i = p[1] /\ j < p[2])
                      /\ r = <<Program[i][j].op, Program[i][j].name>>}

LEMMA RequiredCalls ==
  \A r \in Required : \E i \in 1..T : \E j \in 1..Len(Program[i]) :
    /\ r = <<Program[i][j].op, Program[i][j].name>>
    /\ Program[i][j].op # "socket" /\ Program[i][j].name \notin Optional
<1> SUFFICES ASSUME NEW r \in Required
             PROVE  \E i \in 1..T : \E j \in 1..Len(Program[i]) :
                      /\ r = <<Program[i][j].op, Program[i][j].name>>
                      /\ Program[i][j].op # "socket" /\ Program[i][j].name \notin Optional
  BY Zenon
<1>0. PICK i \in DOMAIN TcpInit : \E j \in DOMAIN TcpInit[i] :
        /\ r = <<TcpInit[i][j].op, TcpInit[i][j].name>>
        /\ TcpInit[i][j].op # "socket" /\ TcpInit[i][j].name \notin Optional
  BY DEF Required
<1>1. PICK j \in DOMAIN TcpInit[i] :
        /\ r = <<TcpInit[i][j].op, TcpInit[i][j].name>>
        /\ TcpInit[i][j].op # "socket" /\ TcpInit[i][j].name \notin Optional
  BY <1>0
<1>2. DOMAIN TcpInit = 1..T
  BY TcpInitDemos, LenProperties DEF T
<1>3. Program[i] = TcpInit[i] /\ i \in 1..T
  BY <1>1, <1>2, ProgramParts
<1>4. TcpInit[i] \in AnyDemo
  BY <1>1, <1>2, TcpInitDemos, ElementOfSeq DEF T
<1>5. DOMAIN TcpInit[i] = 1..Len(TcpInit[i])
  BY <1>4, LenProperties DEF AnyDemo
<1> QED
  BY <1>1, <1>3, <1>5

\* Nothing that is required comes after listen, except what was asked before.
LEMMA RequiredBeforeListen ==
  ASSUME NEW j \in Nat
  PROVE  Required \subseteq Before(<<T - 1, j>>) \cup {<<"set", "listen">>}
<1> SUFFICES ASSUME NEW r \in Required, r # <<"set", "listen">>
             PROVE  r \in Before(<<T - 1, j>>)
  OBVIOUS
<1>0. PICK i \in 1..T : \E k \in 1..Len(Program[i]) :
        r = <<Program[i][k].op, Program[i][k].name>>
  BY RequiredCalls
<1>1. PICK k \in 1..Len(Program[i]) : r = <<Program[i][k].op, Program[i][k].name>>
  BY <1>0
<1>2. T \in Nat /\ T >= 9
  BY ProgramParts
<1>3. CASE i < T - 1
  BY <1>1, <1>3 DEF Before
<1>4. CASE i = T - 1
  <2>1. Program[i] = <<Call("fd", "set", "listen", "abort")>>
    BY <1>4, ProgramParts, TcpInitDemos DEF T
  <2>2. k = 1
    BY <2>1
  <2> QED
    BY <1>1, <2>1, <2>2 DEF Call
<1>5. CASE i = T
  <2>1. Program[i] = <<Get("SO_ACCEPTCONN")>> /\ Program[4] = <<Get("SO_ACCEPTCONN")>>
    BY <1>2, <1>5, ProgramParts, TcpInitDemos, SMTT(30) DEF T
  <2>2. k = 1 /\ 1 \in 1..Len(Program[4]) /\ Program[4][1] = Program[i][k]
    BY <2>1
  <2>3. 4 \in 1..T /\ 4 < T - 1
    BY <1>2
  <2> QED
    BY <1>1, <2>2, <2>3 DEF Before
<1> QED
  BY <1>2, <1>3, <1>4, <1>5

-----------------------------------------------------------------------------
StateTypes ==
  /\ number \in [Variables -> Desc \cup {-1}]
  /\ table \in [Desc -> [owner : Variables \cup {"none"}, did : SUBSET Required]]
  /\ \A d \in Desc : table[d].owner = "none" => table[d].did = {}
  /\ at \in (1..Len(Program) + 1) \X Nat
  /\ Running => at[2] \in 1..Len(Program[at[1]])

\* The number in v means the socket that was opened for v, or none.
OwnOrClosed(v) == number[v] \in Desc => table[number[v]].owner \in {v, "none"}

\* Which sockets can be open where: a number is not given out for a variable
\* before its part of the program, and nothing takes its place during that.
Phases ==
  /\ at[1] = 1 => \A d \in Desc : table[d].owner # "fd"
  /\ at[1] <= T + 1 => \A d \in Desc : table[d].owner # "udp_fd"
  /\ at[1] <= T + 3 => \A d \in Desc : table[d].owner # "ip_fd"
  /\ at[1] = T + 2 => OwnOrClosed("udp_fd")
  /\ at[1] > T + 3 /\ Running => OwnOrClosed("ip_fd")

\* As long as demo_tcp_init goes on and its socket is open, all that was
\* required so far has been done to it.
Configured ==
  at[1] <= T => \A d \in Desc : table[d].owner = "fd" => Before(at) \subseteq table[d].did

SInv == StateTypes /\ Phases /\ Configured /\ ListenerConfigured /\ SocketsReachable

\* What the table of calls says of the call that comes next.
LEMMA CurrentCall ==
  ASSUME StateTypes, Running
  PROVE  /\ T \in Nat /\ T >= 9 /\ Len(Program) \in Nat /\ Len(Program) >= T + 3
         /\ at[1] \in 1..Len(Program) /\ Len(Program[at[1]]) \in Nat
         /\ at[2] \in 1..Len(Program[at[1]])
         /\ Current.on \in Variables
         /\ Current.op = "socket" <=> at[1] \in {1, T + 1, T + 3}
         /\ Current.op = "socket" => Len(Program[at[1]]) = 1 /\ at[2] = 1
         /\ at[1] <= T => Current.on = "fd"
         /\ at[1] \in {T + 1, T + 2} => Current.on = "udp_fd"
         /\ at[1] > T + 2 => Current.on \in {"fd", "ip_fd"}
         /\ at[1] = T + 3 => Current.on = "ip_fd"
         /\ at[1] > T + 3 => Current.fail = "report"
         /\ at[1] <= T /\ at[1] # 1 /\ Current.fail = "report" =>
              at[2] = Len(Program[at[1]]) /\ Current.name \in Optional
         /\ Current.name = "listen" => at[1] = T - 1
<1>1. /\ T \in Nat /\ T >= 9 /\ Len(Program) \in Nat /\ Len(Program) >= T + 3
      /\ at[1] \in 1..Len(Program) /\ at[2] \in 1..Len(Program[at[1]])
  BY ProgramParts DEF StateTypes, Running
<1>2. PICK i \in 1..Len(Program), j \in 1..Len(Program[at[1]]) :
        i = at[1] /\ j = at[2] /\ Current = Program[i][j]
  BY <1>1 DEF Current
<1>3. Len(Program[i]) \in Nat
  BY DemosHaveCalls
<1>4. CASE i \in 1..T
  BY <1>1, <1>2, <1>3, <1>4, TcpCalls DEF Variables
<1>5. CASE i \in T + 1..T + 2
  BY <1>1, <1>2, <1>3, <1>5, UdpCalls, SMTT(30) DEF Variables
<1>6. CASE i \in T + 3..Len(Program)
  BY <1>1, <1>2, <1>3, <1>6, IpCalls, SMTT(30) DEF Variables
<1> QED
  BY <1>1, <1>4, <1>5, <1>6

\* Where the program can go.
LEMMA NextAt ==
  ASSUME StateTypes, Running, NextCall \/ NextDemo \/ Exit
  PROVE  /\ at' \in (1..Len(Program) + 1) \X Nat
         /\ Running' => at'[2] \in 1..Len(Program[at'[1]])
         /\ at'[1] \in {at[1], at[1] + 1, Len(Program) + 1}
<1>1. /\ at[1] \in 1..Len(Program) /\ at[2] \in 1..Len(Program[at[1]])
      /\ Len(Program) \in Nat /\ Len(Program[at[1]]) \in Nat
  BY CurrentCall
<1>2. \A i \in 1..Len(Program) : 1 \in 1..Len(Program[i])
  BY DemosHaveCalls
<1>3. CASE at' = <<at[1], at[2] + 1>> /\ at[2] < Len(Program[at[1]])
  BY <1>1, <1>3 DEF Running
<1>4. CASE at' = <<at[1] + 1, 1>>
  BY <1>1, <1>2, <1>4 DEF Running
<1>5. CASE at' = <<Len(Program) + 1, 1>>
  BY <1>1, <1>5 DEF Running
<1> QED
  BY <1>3, <1>4, <1>5 DEF NextCall, NextDemo, Exit

LEMMA SocketInitInv == Init => SInv
<1> SUFFICES ASSUME Init PROVE SInv
  OBVIOUS
<1>1. T \in Nat /\ T >= 9 /\ Len(Program) \in Nat /\ Len(Program) >= T + 3
  BY ProgramParts
<1>2. 1 \in 1..Len(Program[1])
  BY <1>1, DemosHaveCalls
<1>3. /\ number = [v \in Variables |-> -1] /\ table = [d \in Desc |-> Closed]
      /\ at = <<1, 1>> /\ at[1] = 1 /\ at[2] = 1
  BY DEF Init
<1>4. StateTypes
  BY <1>1, <1>2, <1>3 DEF StateTypes, Closed, Running
<1>5. Phases /\ Configured /\ ListenerConfigured /\ SocketsReachable
  BY <1>1, <1>3 DEF Phases, Configured, ListenerConfigured, SocketsReachable, Closed
<1> QED
  BY <1>4, <1>5 DEF SInv

-----------------------------------------------------------------------------
\* Going past a call adds at most that call.
LEMMA Passing ==
  ASSUME StateTypes, Running, NextCall \/ (NextDemo /\ at[2] = Len(Program[at[1]]))
  PROVE  Before(at') \subseteq Before(at) \cup {<<Current.op, Current.name>>}
<1> SUFFICES ASSUME NEW r \in Before(at')
             PROVE  r \in Before(at) \cup {<<Current.op, Current.name>>}
  OBVIOUS
<1>1. /\ at[1] \in 1..Len(Program) /\ at[2] \in 1..Len(Program[at[1]]) /\ Len(Program) \in Nat
      /\ Len(Program[at[1]]) \in Nat /\ T \in Nat
  BY CurrentCall
<1>2. PICK i \in 1..T : \E j \in 1..Len(Program[i]) :
        /\ i < at'[1] \/ (i = at'[1] /\ j < at'[2])
        /\ r = <<Program[i][j].op, Program[i][j].name>>
  BY DEF Before
<1>3. PICK j \in 1..Len(Program[i]) :
        /\ i < at'[1] \/ (i = at'[1] /\ j < at'[2])
        /\ r = <<Program[i][j].op, Program[i][j].name>>
  BY <1>2
<1>4. r \in Required
  BY DEF Before
<1>5. CASE i < at[1] \/ (i = at[1] /\ j < at[2])
  BY <1>3, <1>4, <1>5 DEF Before
<1>6. CASE i = at[1] /\ j = at[2]
  BY <1>3, <1>6 DEF Current
<1>7. i < at[1] \/ (i = at[1] /\ j <= at[2])
  <2>1. CASE at' = <<at[1], at[2] + 1>>
    BY <1>1, <1>3, <2>1
  <2>2. CASE at' = <<at[1] + 1, 1>> /\ at[2] = Len(Program[at[1]])
    BY <1>1, <1>3, <2>2
  <2> QED
    BY <1>1, <2>1, <2>2 DEF NextCall, NextDemo
<1> QED
  BY <1>1, <1>3, <1>5, <1>6, <1>7

\* Before the first call there is nothing to be done.
LEMMA FirstIsSocket ==
  ASSUME StateTypes, Running, at[1] = 1, NextCall
  PROVE  Before(at') = {}
<1>1. /\ at[2] = 1 /\ Len(Program[at[1]]) = 1 /\ Current.op = "socket"
      /\ T \in Nat /\ T >= 9
  BY CurrentCall
<1>2. Before(at) = {}
  BY <1>1 DEF Before
<1>3. \A r \in Required : r # <<Current.op, Current.name>>
  <2> SUFFICES ASSUME NEW r \in Required, r = <<Current.op, Current.name>>
               PROVE  FALSE
    OBVIOUS
  <2>1. PICK i \in 1..T : \E j \in 1..Len(Program[i]) :
          /\ r = <<Program[i][j].op, Program[i][j].name>>
          /\ Program[i][j].op # "socket" /\ Program[i][j].name \notin Optional
    BY RequiredCalls
  <2> QED
    BY <1>1, <2>1
<1>4. Before(at') \subseteq {<<Current.op, Current.name>>}
  BY <1>2, Passing
<1>5. Before(at') \subseteq Required
  BY DEF Before
<1> QED
  BY <1>3, <1>4, <1>5

\* socket() gives a number that no open socket has.
LEMMA SocketStep == ASSUME SInv, Socket PROVE SInv'
<1>1. StateTypes /\ Phases /\ Configured /\ ListenerConfigured /\ SocketsReachable
  BY DEF SInv
<1>2. Running /\ Current.op = "socket" /\ NextCall
  BY DEF Socket
<1>3. /\ T \in Nat /\ T >= 9 /\ Len(Program) \in Nat /\ Len(Program) >= T + 3
      /\ at[1] \in {1, T + 1, T + 3} /\ Len(Program[at[1]]) = 1 /\ at[2] = 1
      /\ Current.on \in Variables
      /\ at[1] = 1 => Current.on = "fd"
      /\ at[1] = T + 1 => Current.on = "udp_fd"
      /\ at[1] = T + 3 => Current.on = "ip_fd"
  BY <1>1, <1>2, CurrentCall
<1>4. PICK d \in Free :
        /\ number' = [number EXCEPT ![Current.on] = d]
        /\ table' = [table EXCEPT ![d] = [owner |-> Current.on, did |-> {}]]
  BY DEF Socket
<1> DEFINE v == Current.on
<1>5. v \in Variables
  BY <1>3
<1> HIDE DEF v
<1>6. d \in Desc /\ table[d].owner = "none"
  BY DEF Free
<1>7. /\ number' = [number EXCEPT ![v] = d]
      /\ \A w \in Variables : number'[w] = IF w = v THEN d ELSE number[w]
      /\ number' \in [Variables -> Desc \cup {-1}]
  BY <1>1, <1>4, <1>5, <1>6 DEF StateTypes, v
<1>8. /\ \A e \in Desc : table'[e] = IF e = d THEN [owner |-> v, did |-> {}] ELSE table[e]
      /\ table' \in [Desc -> [owner : Variables \cup {"none"}, did : SUBSET Required]]
  BY <1>1, <1>4, <1>5, <1>6 DEF StateTypes, v
<1>9. at' = <<at[1] + 1, 1>>
  BY <1>2, <1>3 DEF NextCall
<1>10. StateTypes'
  <2>1. at' \in (1..Len(Program) + 1) \X Nat /\ (Running' => at'[2] \in 1..Len(Program[at'[1]]))
    BY <1>1, <1>2, NextAt
  <2>2. \A e \in Desc : table'[e].owner = "none" => table'[e].did = {}
    BY <1>1, <1>8 DEF StateTypes
  <2> QED
    BY <1>7, <1>8, <2>1, <2>2 DEF StateTypes
<1>11. /\ at[1] = 1 => v = "fd" /\ \A e \in Desc : table[e].owner = "none"
       /\ at[1] = T + 1 => v = "udp_fd" /\ \A e \in Desc : table[e].owner \in {"none", "fd"}
       /\ at[1] = T + 3 => v = "ip_fd" /\ \A e \in Desc : table[e].owner # "ip_fd"
       /\ \A e \in Desc : table[e].owner # v
  BY <1>1, <1>3 DEF v, StateTypes, Phases, Variables
<1>12. Phases'
  <2>1. CASE at[1] = 1
    BY <1>3, <1>8, <1>9, <1>11, <2>1 DEF Phases, OwnOrClosed
  <2>2. CASE at[1] = T + 1
    <3>1. number'["udp_fd"] = d /\ table'[d].owner = "udp_fd"
      BY <1>6, <1>7, <1>8, <1>11, <2>2 DEF Variables
    <3> QED
      BY <1>3, <1>8, <1>9, <1>11, <2>2, <3>1 DEF Phases, OwnOrClosed
  <2>3. CASE at[1] = T + 3
    <3>1. number'["ip_fd"] = d /\ table'[d].owner = "ip_fd"
      BY <1>6, <1>7, <1>8, <1>11, <2>3 DEF Variables
    <3> QED
      BY <1>3, <1>8, <1>9, <1>11, <2>3, <3>1 DEF Phases, OwnOrClosed
  <2> QED
    BY <1>3, <2>1, <2>2, <2>3
<1>13. Configured'
  <2>1. CASE at[1] = 1
    <3>1. Before(at') = {}
      BY <1>1, <1>2, <2>1, FirstIsSocket
    <3> QED
      BY <3>1 DEF Configured
  <2>2. CASE at[1] # 1
    BY <1>3, <1>9, <2>2 DEF Configured
  <2> QED
    BY <2>1, <2>2
<1>14. ListenerConfigured'
  BY <1>1, <1>8 DEF ListenerConfigured
<1>15. SocketsReachable'
  <2> SUFFICES ASSUME NEW e \in Desc, table'[e].owner # "none"
               PROVE  number'[table'[e].owner] = e
    BY DEF SocketsReachable
  <2>1. CASE e = d
    BY <1>5, <1>7, <1>8, <2>1
  <2>2. CASE e # d
    <3>1. /\ table'[e] = table[e] /\ table[e].owner # v /\ table[e].owner \in Variables
          /\ number[table[e].owner] = e
      BY <1>1, <1>8, <1>11, <2>2 DEF SocketsReachable, StateTypes
    <3> QED
      BY <1>7, <3>1
  <2> QED
    BY <2>1, <2>2
<1> QED
  BY <1>10, <1>12, <1>13, <1>14, <1>15 DEF SInv

\* When there is no socket the program ends.
LEMMA SocketFailsStep == ASSUME SInv, SocketFails PROVE SInv'
<1>1. StateTypes /\ Phases /\ Configured /\ ListenerConfigured /\ SocketsReachable
  BY DEF SInv
<1>2. /\ Running /\ Current.op = "socket" /\ Exit
      /\ number' = [number EXCEPT ![Current.on] = -1] /\ table' = table
  BY DEF SocketFails
<1>3. /\ T \in Nat /\ T >= 9 /\ Len(Program) \in Nat /\ Len(Program) >= T + 3
      /\ at[1] \in {1, T + 1, T + 3} /\ Current.on \in Variables
      /\ at[1] = 1 => Current.on = "fd"
      /\ at[1] = T + 1 => Current.on = "udp_fd"
      /\ at[1] = T + 3 => Current.on = "ip_fd"
  BY <1>1, <1>2, CurrentCall
<1>4. at' = <<Len(Program) + 1, 1>> /\ ~Running'
  BY <1>2, <1>3 DEF Exit, Running
<1>5. \A e \in Desc : table[e].owner # Current.on
  BY <1>1, <1>3 DEF Phases
<1>6. StateTypes'
  <2>1. at' \in (1..Len(Program) + 1) \X Nat
    BY <1>3, <1>4
  <2>2. number' \in [Variables -> Desc \cup {-1}]
    BY <1>1, <1>2 DEF StateTypes
  <2> QED
    BY <1>1, <1>2, <1>4, <2>1, <2>2 DEF StateTypes
<1>7. Phases' /\ Configured' /\ ListenerConfigured'
  BY <1>1, <1>2, <1>3, <1>4 DEF Phases, Configured, ListenerConfigured
<1>8. SocketsReachable'
  BY <1>1, <1>2, <1>5 DEF SocketsReachable, StateTypes
<1> QED
  BY <1>6, <1>7, <1>8 DEF SInv

\* A call that succeeds is noted for the socket that it reached.
LEMMA SucceedsStep == ASSUME SInv, Succeeds PROVE SInv'
<1>1. StateTypes /\ Phases /\ Configured /\ ListenerConfigured /\ SocketsReachable
  BY DEF SInv
<1>2. /\ Running /\ Current.op # "socket" /\ Reached.owner # "none" /\ NextCall
      /\ number' = number
  BY DEF Succeeds
<1>3. /\ T \in Nat /\ T >= 9 /\ Len(Program) \in Nat /\ Len(Program) >= T + 3
      /\ at[1] \in 1..Len(Program) /\ at[1] \notin {1, T + 1, T + 3}
      /\ Current.on \in Variables
      /\ at[1] <= T => Current.on = "fd"
      /\ Current.name = "listen" => at[1] = T - 1
  BY <1>1, <1>2, CurrentCall
<1> DEFINE d == number[Current.on]
           done == {<<Current.op, Current.name>>} \cap Required
<1>4. d \in Desc /\ table[d].owner # "none"
  BY <1>2 DEF Reached, Closed
<1>5. table' = [table EXCEPT ![d].did = @ \cup done]
  BY DEF Succeeds
<1> HIDE DEF d
<1>6. done \subseteq Required
  OBVIOUS
<1> HIDE DEF done
<1>7. /\ table' \in [Desc -> [owner : Variables \cup {"none"}, did : SUBSET Required]]
      /\ \A e \in Desc : /\ table'[e].owner = table[e].owner
                         /\ table'[e].did = IF e = d THEN table[e].did \cup done
                                                     ELSE table[e].did
  BY <1>1, <1>4, <1>5, <1>6 DEF StateTypes
<1>8. /\ at' \in (1..Len(Program) + 1) \X Nat
      /\ Running' => at'[2] \in 1..Len(Program[at'[1]])
      /\ at'[1] = at[1] \/ at'[1] = at[1] + 1
  <2>1. at'[1] = at[1] \/ at'[1] = at[1] + 1
    BY <1>2 DEF NextCall
  <2> QED
    BY <1>1, <1>2, <2>1, NextAt
<1>9. StateTypes'
  <2>1. \A e \in Desc : table'[e].owner = "none" => table'[e].did = {}
    BY <1>1, <1>4, <1>7 DEF StateTypes
  <2> QED
    BY <1>1, <1>2, <1>7, <1>8, <2>1 DEF StateTypes
<1>10. Phases'
  <2>1. \A v \in Variables : OwnOrClosed(v) => OwnOrClosed(v)'
    BY <1>2, <1>7 DEF OwnOrClosed
  <2>2. at[1] = T + 2 => OwnOrClosed("udp_fd")
    BY <1>1 DEF Phases
  <2>3. at[1] > T + 3 /\ Running' => OwnOrClosed("ip_fd")
    BY <1>1, <1>2 DEF Phases
  <2>4. /\ at'[1] # 1
        /\ at'[1] <= T + 1 => at[1] <= T + 1
        /\ at'[1] <= T + 3 => at[1] <= T + 3
        /\ at'[1] = T + 2 => at[1] = T + 2
        /\ at'[1] > T + 3 => at[1] > T + 3
    BY <1>3, <1>8
  <2>5. "udp_fd" \in Variables /\ "ip_fd" \in Variables
    BY DEF Variables
  <2> QED
    BY <1>1, <1>7, <2>1, <2>2, <2>3, <2>4, <2>5 DEF Phases
<1>11. Configured'
  <2> SUFFICES ASSUME at'[1] <= T, NEW e \in Desc, table'[e].owner = "fd"
               PROVE  Before(at') \subseteq table'[e].did
    BY DEF Configured
  <2>0. at[1] <= T
    BY <1>3, <1>8
  <2>1. at[1] <= T /\ table[e].owner = "fd" /\ Current.on = "fd"
    BY <1>3, <1>7, <2>0
  <2>2. e = d
    <3>1. table[d].owner = "fd"
      BY <1>1, <1>3, <1>4, <2>1 DEF Phases, StateTypes, Variables
    <3> QED
      BY <1>1, <1>4, <2>1, <3>1 DEF SocketsReachable
  <2>3. Before(at) \subseteq table[e].did
    BY <1>1, <2>1 DEF Configured
  <2>4. Before(at') \subseteq Before(at) \cup {<<Current.op, Current.name>>}
    BY <1>1, <1>2, Passing
  <2>5. Before(at') \subseteq Required
    BY DEF Before
  <2> QED
    BY <1>7, <2>2, <2>3, <2>4, <2>5 DEF done
<1>12. ListenerConfigured'
  <2> SUFFICES ASSUME NEW e \in Desc, <<"set", "listen">> \in table'[e].did
               PROVE  Required \subseteq table'[e].did
    BY DEF ListenerConfigured
  <2>1. table[e].did \subseteq table'[e].did
    BY <1>7
  <2>2. CASE <<"set", "listen">> \in table[e].did
    BY <1>1, <2>1, <2>2 DEF ListenerConfigured
  <2>3. CASE <<"set", "listen">> \notin table[e].did
    <3>1. e = d /\ <<"set", "listen">> \in done
      BY <1>7, <2>3
    <3>2. Current.name = "listen" /\ at[1] = T - 1
      BY <1>3, <3>1 DEF done
    <3>3. table[e].owner = "fd"
      BY <1>1, <1>3, <1>4, <3>1, <3>2 DEF Phases, StateTypes, Variables
    <3>4. Before(at) \subseteq table[e].did
      BY <1>1, <1>3, <3>2, <3>3 DEF Configured
    <3>5. at[2] \in Nat /\ at = <<T - 1, at[2]>>
      BY <1>1, <3>2 DEF StateTypes
    <3>6. Required \subseteq Before(at) \cup {<<"set", "listen">>}
      BY <3>5, RequiredBeforeListen
    <3> QED
      BY <2>1, <3>4, <3>6
  <2> QED
    BY <2>2, <2>3
<1>13. SocketsReachable'
  BY <1>1, <1>2, <1>7 DEF SocketsReachable
<1> QED
  BY <1>9, <1>10, <1>11, <1>12, <1>13 DEF SInv

\* What is only reported could be done without, and ends its demo function.
LEMMA ReportsStep == ASSUME SInv, Reports PROVE SInv'
<1>1. StateTypes /\ Phases /\ Configured /\ ListenerConfigured /\ SocketsReachable
  BY DEF SInv
<1>2. /\ Running /\ Current.op # "socket" /\ Current.fail = "report" /\ NextDemo
      /\ number' = number /\ table' = table
  BY DEF Reports, Fails
<1>3. /\ T \in Nat /\ T >= 9 /\ Len(Program) \in Nat /\ Len(Program) >= T + 3
      /\ at[1] \in 1..Len(Program) /\ at[1] \notin {1, T + 1, T + 3}
      /\ at[1] <= T => at[2] = Len(Program[at[1]]) /\ Current.name \in Optional
  BY <1>1, <1>2, CurrentCall
<1>4. /\ at' \in (1..Len(Program) + 1) \X Nat /\ at'[1] = at[1] + 1
      /\ Running' => at'[2] \in 1..Len(Program[at'[1]])
  <2>1. at'[1] = at[1] + 1
    BY <1>2 DEF NextDemo
  <2> QED
    BY <1>1, <1>2, <2>1, NextAt
<1>5. StateTypes'
  BY <1>1, <1>2, <1>4 DEF StateTypes
<1>6. Phases'
  BY <1>1, <1>2, <1>3, <1>4 DEF Phases, OwnOrClosed
<1>7. Configured'
  <2> SUFFICES ASSUME at'[1] <= T, NEW e \in Desc, table[e].owner = "fd"
               PROVE  Before(at') \subseteq table[e].did
    BY <1>2 DEF Configured
  <2>1. at[1] <= T
    BY <1>3, <1>4
  <2>2. Before(at) \subseteq table[e].did
    BY <1>1, <2>1 DEF Configured
  <2>3. Before(at') \subseteq Before(at) \cup {<<Current.op, Current.name>>}
    BY <1>1, <1>2, <1>3, <2>1, Passing
  <2>4. <<Current.op, Current.name>> \notin Required
    <3> SUFFICES ASSUME <<Current.op, Current.name>> \in Required
                 PROVE  FALSE
      OBVIOUS
    <3>1. PICK i \in 1..T : \E j \in 1..Len(Program[i]) :
            /\ <<Current.op, Current.name>> = <<Program[i][j].op, Program[i][j].name>>
            /\ Program[i][j].op # "socket" /\ Program[i][j].name \notin Optional
      BY RequiredCalls
    <3> QED
      BY <1>3, <2>1, <3>1
  <2>5. Before(at') \subseteq Required
    BY DEF Before
  <2> QED
    BY <2>2, <2>3, <2>4, <2>5
<1>8. ListenerConfigured' /\ SocketsReachable'
  BY <1>1, <1>2 DEF ListenerConfigured, SocketsReachable
<1> QED
  BY <1>5, <1>6, <1>7, <1>8 DEF SInv

\* A failure that closes closes a socket of its own variable, or nothing.
LEMMA ClosesOwn ==
  ASSUME SInv, Closes \/ Aborts
  PROVE  /\ number[Current.on] \in Desc => table[number[Current.on]].owner \in {Current.on, "none"}
         /\ at[1] <= T + 2
<1>1. StateTypes /\ Phases /\ Running /\ Current.op # "socket" /\ Current.fail # "report"
  BY DEF SInv, Closes, Aborts, Fails
<1>2. /\ T \in Nat /\ at[1] \in Nat
      /\ at[1] \notin {1, T + 1, T + 3} /\ Current.on \in Variables
      /\ at[1] <= T => Current.on = "fd"
      /\ at[1] = T + 2 => Current.on = "udp_fd"
      /\ at[1] <= T + 3
  BY <1>1, CurrentCall
<1>3. at[1] <= T \/ at[1] = T + 2
  BY <1>2
<1> QED
  BY <1>1, <1>2, <1>3 DEF Phases, StateTypes, OwnOrClosed, Variables

LEMMA ClosesStep == ASSUME SInv, Closes \/ Aborts PROVE SInv'
<1>1. StateTypes /\ Phases /\ Configured /\ ListenerConfigured /\ SocketsReachable
  BY DEF SInv
<1>2. /\ Running /\ Current.op # "socket" /\ Close /\ (NextDemo \/ Exit) /\ number' = number
      /\ Current.fail # "report"
  BY DEF Closes, Aborts, Fails
<1> DEFINE d == number[Current.on]
<1>3. /\ T \in Nat /\ T >= 9 /\ Len(Program) \in Nat /\ Len(Program) >= T + 3
      /\ at[1] \in 1..Len(Program) /\ at[1] \notin {1, T + 1, T + 3}
      /\ at[1] <= T + 2
      /\ at[1] <= T => Current.on = "fd"
      /\ Current.on \in Variables
  BY <1>1, <1>2, CurrentCall, ClosesOwn
<1>4. \A e \in Desc : table'[e] = IF e = d THEN Closed ELSE table[e]
  BY <1>2 DEF Close
<1> HIDE DEF d
<1>5. table' \in [Desc -> [owner : Variables \cup {"none"}, did : SUBSET Required]]
  <2>1. Closed \in [owner : Variables \cup {"none"}, did : SUBSET Required]
    BY DEF Closed
  <2>2. table' = [e \in Desc |-> table'[e]]
    BY <1>2 DEF Close
  <2> QED
    BY <1>1, <1>4, <2>1, <2>2 DEF StateTypes
<1>6. /\ at' \in (1..Len(Program) + 1) \X Nat
      /\ at'[1] = at[1] + 1 \/ at'[1] = Len(Program) + 1
      /\ Running' => at'[2] \in 1..Len(Program[at'[1]])
  <2>1. at'[1] = at[1] + 1 \/ at'[1] = Len(Program) + 1
    BY <1>2 DEF NextDemo, Exit
  <2> QED
    BY <1>1, <1>2, <2>1, NextAt
<1>7. StateTypes'
  <2>1. \A e \in Desc : table'[e].owner = "none" => table'[e].did = {}
    BY <1>1, <1>4 DEF StateTypes, Closed
  <2> QED
    BY <1>1, <1>2, <1>5, <1>6, <2>1 DEF StateTypes
<1>8. \A e \in Desc : table'[e].owner \in {table[e].owner, "none"}
  BY <1>4 DEF Closed
<1>9. Phases'
  <2>1. /\ at'[1] \in Nat /\ at'[1] # 1 /\ at'[1] # T + 2
        /\ ~(at'[1] > T + 3 /\ Running')
        /\ at'[1] <= T + 1 => at[1] <= T + 1
        /\ at'[1] <= T + 3 => at[1] <= T + 3
    BY <1>3, <1>6 DEF Running
  <2> QED
    BY <1>1, <1>8, <2>1 DEF Phases
<1>10. Configured'
  <2> SUFFICES ASSUME at'[1] <= T, NEW e \in Desc, table'[e].owner = "fd"
               PROVE  FALSE
    BY DEF Configured
  <2>1. at[1] <= T /\ Current.on = "fd"
    BY <1>3, <1>6
  <2>2. table[e].owner = "fd" /\ e # d
    BY <1>4, <1>8 DEF Closed
  <2> QED
    BY <1>1, <2>1, <2>2 DEF SocketsReachable, d
<1>11. ListenerConfigured'
  BY <1>1, <1>4 DEF ListenerConfigured, Closed
<1>12. SocketsReachable'
  BY <1>1, <1>2, <1>4 DEF SocketsReachable, Closed
<1> QED
  BY <1>7, <1>9, <1>10, <1>11, <1>12 DEF SInv

\* Every step of the program preserves the invariant.
LEMMA SocketNextInv == SInv /\ [Next]_vars => SInv'
<1> SUFFICES ASSUME SInv, [Next]_vars PROVE SInv'
  OBVIOUS
<1>1. ASSUME UNCHANGED vars
      PROVE  SInv'
  BY <1>1 DEF vars, SInv, StateTypes, Phases, OwnOrClosed, Configured, ListenerConfigured,
              SocketsReachable, Running
<1> QED
  BY <1>1, SocketStep, SocketFailsStep, SucceedsStep, ReportsStep, ClosesStep
     DEF Next, Terminated

-----------------------------------------------------------------------------
\* The invariant holds in every reachable state.
THEOREM SInvHolds == Spec => []SInv
BY SocketInitInv, SocketNextInv, PTL DEF Spec

\* Type correctness of the descriptor table and of the program's position in
\* its calls (all of socket_op.c).
THEOREM SocketTypesHold == Spec => []TypeOK
<1>1. SInv => TypeOK
  <2> SUFFICES ASSUME SInv PROVE TypeOK
    OBVIOUS
  <2>1. \A d \in Desc : table[d] \in [owner : Variables \cup {"none"}, did : SUBSET Required]
    BY DEF SInv, StateTypes
  <2> QED
    BY <2>1 DEF SInv, StateTypes, TypeOK
<1> QED
  BY <1>1, SInvHolds, PTL

\* A socket that listens has every option that demo_tcp_init requires and is
\* bound, whatever fails before (demo_tcp_init and the functions it calls).
THEOREM ListenersConfigured == Spec => []ListenerConfigured
<1>1. SInv => ListenerConfigured
  BY DEF SInv
<1> QED
  BY <1>1, SInvHolds, PTL

\* No number is overwritten while its socket is open (the three socket calls).
THEOREM OpenSocketsReachable == Spec => []SocketsReachable
<1>1. SInv => SocketsReachable
  BY DEF SInv
<1> QED
  BY <1>1, SInvHolds, PTL

\* Of the three variables only fd can reach the socket of another one, and only
\* in demo_udp_init and demo_ip_init.
THEOREM OnlyFdIsStale == Spec => []OnlyFdStale
<1>1. SInv => OnlyFdStale
  <2> SUFFICES ASSUME SInv, Running, Current.op # "socket",
                      Reached.owner \notin {"none", Current.on}
               PROVE  Current.on = "fd" /\ at[1] > Len(TcpInit)
    BY DEF OnlyFdStale
  <2>1. StateTypes /\ Phases
    BY DEF SInv
  <2>2. /\ T \in Nat /\ at[1] \in Nat
        /\ at[1] \notin {1, T + 1, T + 3} /\ Current.on \in Variables
        /\ at[1] <= T => Current.on = "fd"
        /\ at[1] = T + 2 => Current.on = "udp_fd"
        /\ at[1] > T + 2 => Current.on \in {"fd", "ip_fd"}
    BY <2>1, CurrentCall
  <2>3. /\ number[Current.on] \in Desc
        /\ table[number[Current.on]].owner \notin {"none", Current.on}
    BY DEF Reached, Closed
  <2>4. ~(at[1] <= T)
    BY <2>1, <2>2, <2>3 DEF Phases, StateTypes, Variables
  <2>5. Current.on # "udp_fd"
    BY <2>1, <2>2, <2>3, <2>4 DEF Phases, OwnOrClosed
  <2>6. Current.on # "ip_fd"
    BY <2>1, <2>2, <2>3, <2>4 DEF Phases, OwnOrClosed
  <2> QED
    BY <2>2, <2>4, <2>5, <2>6 DEF T, Variables
<1> QED
  BY <1>1, SInvHolds, PTL

\* A demo function that fails closes the socket of its own variable or none,
\* although numbers are given out again (every close in socket_op.c).
THEOREM ForeignStaysOpen == Spec => NoForeignClose
<1>1. SInv /\ [Next]_vars =>
        [\A d \in Desc : table[d].owner # "none" /\ table'[d].owner = "none"
                           => Current.on = table[d].owner]_vars
  <2> SUFFICES ASSUME SInv, Next, NEW d \in Desc,
                      table[d].owner # "none", table'[d].owner = "none"
               PROVE  Current.on = table[d].owner
    OBVIOUS
  <2>1. StateTypes
    BY DEF SInv
  <2>2. CASE Socket
    BY <2>1, <2>2 DEF Socket, Free, StateTypes
  <2>3. CASE Succeeds
    BY <2>1, <2>3 DEF Succeeds, StateTypes
  <2>4. CASE Closes \/ Aborts
    <3>1. d = number[Current.on]
      BY <2>4 DEF Closes, Aborts, Close
    <3> QED
      BY <2>4, <3>1, ClosesOwn
  <2>5. CASE table' = table
    BY <2>5
  <2> QED
    BY <2>2, <2>3, <2>4, <2>5 DEF Next, SocketFails, Reports, Terminated, vars
<1> QED
  BY <1>1, SInvHolds, PTL DEF Spec, NoForeignClose
=============================================================================
