------------------------------ MODULE SocketOp ------------------------------
(***************************************************************************)
(* The socket option demonstration (socket_op.c).  Three variables hold    *)
(* descriptor numbers: fd (TCP, which becomes a listener), udp_fd, ip_fd.  *)
(* A demo function whose call fails closes the descriptor and returns, or  *)
(* only reports; the variable keeps its number, which the next socket() is *)
(* given again.                                                            *)
(*                                                                         *)
(* The program is a table: its demo functions in the order in which they   *)
(* are called, each a sequence of system calls.  What a call does depends  *)
(* on the descriptor table of the process, which the model keeps.          *)
(***************************************************************************)
EXTENDS Integers, Sequences

CONSTANT Desc           \* the descriptor numbers that are left to the process

ASSUME SocketAssumption == Desc \subseteq Nat

VARIABLES
  number,       \* what fd, udp_fd and ip_fd hold
  table,        \* per descriptor: the variable it was opened for, and the
                \*   required calls that have succeeded on it
  at            \* the demo function and the call in it that come next

vars == <<number, table, at>>

Variables == {"fd", "udp_fd", "ip_fd"}

Closed == [owner |-> "none", did |-> {}]

-----------------------------------------------------------------------------
(* The calls.  fail is what the program does when the call fails: "close"  *)
(* closes the descriptor and leaves the demo function, "report" leaves it, *)
(* "abort" closes the descriptor and ends the program, "exit" ends it.     *)

Call(v, op, name, fail) == [on |-> v, op |-> op, name |-> name, fail |-> fail]

\* fd in the demo functions that demo_tcp_init calls
Set(option) == Call("fd", "set", option, "close")
Get(option) == Call("fd", "get", option, "close")

OnlySet(options) == [i \in 1..Len(options) |-> <<Set(options[i])>>]

SocketOptions1 ==
  << <<Get("SO_ACCEPTCONN")>>,
     <<Set("SO_BINDTODEVICE"), Get("SO_BINDTODEVICE")>> >>
  \o OnlySet(<<"SO_DONTROUTE", "SO_KEEPALIVE", "SO_LINGER">>)

SocketOptions2 ==
  OnlySet(<<"SO_MARK", "SO_OOBINLINE">>)
  \o << <<Set("SO_PRIORITY"), Call("fd", "get", "IP_TOS", "report")>>,
        <<Get("SO_PROTOCOL")>>,
        <<Get("SO_RCVBUF"), Set("SO_RCVBUF"), Get("SO_RCVBUF")>> >>

SocketOptions3 ==
  << <<Set("SO_RCVBUFFORCE"), Get("SO_RCVBUF")>>,
     <<Get("SO_SNDBUF"), Set("SO_SNDBUF"), Get("SO_SNDBUF")>>,
     <<Set("SO_SNDBUFFORCE"), Get("SO_SNDBUF")>>,
     <<Set("SO_RCVLOWAT"), Get("SO_RCVLOWAT")>>,
     <<Call("fd", "set", "SO_SNDLOWAT", "report")>> >>

SocketOptions4 == OnlySet(<<"SO_RCVTIMEO", "SO_SNDTIMEO", "SO_TIMESTAMP">>)

TcpOptions1 == OnlySet(<<"TCP_CORK", "TCP_DEFER_ACCEPT">>) \o << <<Get("TCP_INFO")>> >>

\* Mutation of TcpOptions2: the failure of one option is only reported.
TcpOptions2Reported ==
  << <<Set("TCP_KEEPIDLE"), Set("TCP_KEEPCNT"), Set("TCP_KEEPINTVL")>> >>
  \o OnlySet(<<"TCP_LINGER2", "TCP_MAXSEG", "TCP_NODELAY", "TCP_QUICKACK">>)
  \o << <<Call("fd", "set", "TCP_SYNCNT", "report")>>,
        <<Set("TCP_WINDOW_CLAMP"), Get("TCP_WINDOW_CLAMP")>> >>

TcpOptions2 == << <<Set("TCP_KEEPIDLE"), Set("TCP_KEEPCNT"), Set("TCP_KEEPINTVL")>> >>
               \o OnlySet(<<"TCP_LINGER2", "TCP_MAXSEG", "TCP_NODELAY", "TCP_QUICKACK",
                            "TCP_SYNCNT">>)
               \o << <<Set("TCP_WINDOW_CLAMP"), Get("TCP_WINDOW_CLAMP")>> >>

Listen == << <<Call("fd", "set", "FD_CLOEXEC", "report")>>,
             <<Call("fd", "set", "F_SETFL", "abort")>>,
             <<Call("fd", "set", "bind", "abort")>>,
             <<Call("fd", "set", "listen", "abort")>>,
             <<Get("SO_ACCEPTCONN")>> >>

TcpInit == << <<Call("fd", "socket", "SOCK_STREAM", "exit")>>,
              <<Call("fd", "set", "SO_REUSEADDR", "abort")>>,
              <<Call("fd", "set", "SO_REUSEPORT", "report")>> >>
           \o SocketOptions1 \o SocketOptions2 \o SocketOptions3 \o SocketOptions4
           \o TcpOptions1 \o TcpOptions2 \o Listen

\* Mutation of UdpInit: the socket is created in fd.
UdpInitFd == << <<Call("fd", "socket", "SOCK_DGRAM", "exit")>>,
                <<Call("udp_fd", "set", "SO_BROADCAST", "close"),
                  Call("udp_fd", "get", "SO_BROADCAST", "close")>> >>

UdpInit == << <<Call("udp_fd", "socket", "SOCK_DGRAM", "exit")>>,
              <<Call("udp_fd", "set", "SO_BROADCAST", "close"),
                Call("udp_fd", "get", "SO_BROADCAST", "close")>> >>

\* None of the demo functions that demo_ip_init calls closes anything.
Ip(v, op, option) == Call(v, op, option, "report")

\* The index is asked for on fd; when that fails, 0 is used.
AddMembership == << <<Ip("fd", "get", "SIOCGIFINDEX")>>,
                    <<Ip("ip_fd", "set", "IP_ADD_MEMBERSHIP")>> >>

SourceMembership ==
  << <<Ip("ip_fd", "set", "IP_ADD_SOURCE_MEMBERSHIP")>>, <<Ip("ip_fd", "set", "IP_BLOCK_SOURCE")>>,
     <<Ip("ip_fd", "set", "IP_UNBLOCK_SOURCE")>>,
     <<Ip("ip_fd", "set", "IP_DROP_SOURCE_MEMBERSHIP")>> >>

\* IP_MSFILTER joins the group itself before it sets the filter.
IpOptions1 == << <<Ip("ip_fd", "set", "IP_FREEBIND")>>, <<Ip("ip_fd", "set", "IP_HDRINCL")>> >>
              \o AddMembership \o << <<Ip("ip_fd", "set", "IP_MSFILTER")>> >>

\* Mutation of IpOptions2: a failure of IP_MTU closes fd.
IpOptions2Close ==
  << <<Call("fd", "get", "IP_MTU", "close")>>, <<Ip("fd", "set", "IP_MTU_DISCOVER")>>,
     <<Ip("fd", "set", "IP_MULTICAST_ALL")>>, <<Ip("fd", "get", "SIOCGIFINDEX")>>,
     <<Ip("ip_fd", "set", "IP_MULTICAST_IF")>>, <<Ip("ip_fd", "set", "IP_MULTICAST_LOOP")>>,
     <<Ip("ip_fd", "set", "IP_MULTICAST_TTL")>> >>

\* Three of these use fd, not ip_fd.
IpOptions2 ==
  << <<Ip("fd", "get", "IP_MTU")>>, <<Ip("fd", "set", "IP_MTU_DISCOVER")>>,
     <<Ip("fd", "set", "IP_MULTICAST_ALL")>>, <<Ip("fd", "get", "SIOCGIFINDEX")>>,
     <<Ip("ip_fd", "set", "IP_MULTICAST_IF")>>, <<Ip("ip_fd", "set", "IP_MULTICAST_LOOP")>>,
     <<Ip("ip_fd", "set", "IP_MULTICAST_TTL")>> >>

\* Mutation of IpOptions3: udp_fd is used.
IpOptions3Udp == << <<Ip("udp_fd", "set", "IP_TTL")>>, <<Ip("udp_fd", "set", "IP_TOS")>> >>

IpOptions3 == << <<Ip("ip_fd", "set", "IP_TTL")>>, <<Ip("ip_fd", "set", "IP_TOS")>> >>

IpInit == << <<Call("ip_fd", "socket", "SOCK_RAW", "exit")>> >>
          \o AddMembership \o SourceMembership \o IpOptions1 \o IpOptions2 \o IpOptions3

Program == TcpInit \o UdpInit \o IpInit

\* A listener can do without these; every other call of demo_tcp_init must have
\* succeeded.
Optional == {"SO_REUSEPORT", "IP_TOS", "SO_SNDLOWAT", "FD_CLOEXEC"}

Required ==
  LET calls == UNION {{TcpInit[i][j] : j \in DOMAIN TcpInit[i]} : i \in DOMAIN TcpInit}
  IN {<<c.op, c.name>> : c \in {x \in calls : x.op # "socket" /\ x.name \notin Optional}}

-----------------------------------------------------------------------------
Running == at[1] <= Len(Program)

\* The call the program makes next.
Current == Program[at[1]][at[2]]

\* The socket it reaches, which the variable may no longer mean.
Reached == IF number[Current.on] \in Desc THEN table[number[Current.on]] ELSE Closed

Free == {d \in Desc : table[d].owner = "none"}

\* Mutation of NextCall: the end of a demo function is not noticed.
NextCallOver == at' = <<at[1], at[2] + 1>>

NextCall == at' = IF at[2] < Len(Program[at[1]]) THEN <<at[1], at[2] + 1>> ELSE <<at[1] + 1, 1>>

\* The rest of a demo function is skipped when one of its calls fails.
NextDemo == at' = <<at[1] + 1, 1>>

\* func_exec: main returns as soon as one of the three has failed.
Exit == at' = <<Len(Program) + 1, 1>>

\* socket() gives the lowest number that is free, or fails.
Socket ==
  /\ Running /\ Current.op = "socket"
  /\ \E d \in Free :
       /\ \A e \in Free : d <= e
       /\ number' = [number EXCEPT ![Current.on] = d]
       /\ table' = [table EXCEPT ![d] = [owner |-> Current.on, did |-> {}]]
  /\ NextCall

SocketFails == /\ Running /\ Current.op = "socket"
               /\ number' = [number EXCEPT ![Current.on] = -1]
               /\ Exit
               /\ UNCHANGED table

\* A call on an open descriptor succeeds.
Succeeds ==
  /\ Running /\ Current.op # "socket" /\ Reached.owner # "none"
  /\ table' = [table EXCEPT ![number[Current.on]].did =
                            @ \cup ({<<Current.op, Current.name>>} \cap Required)]
  /\ NextCall
  /\ UNCHANGED number

\* A call fails: the kernel refuses it, getsockopt finds no usable length in
\* the uninitialised len, or the descriptor is closed.
Fails(fail) == Running /\ Current.op # "socket" /\ Current.fail = fail

\* close(2) of a number that is not open changes nothing, and the result is
\* not looked at.
Close == table' = [d \in Desc |-> IF d = number[Current.on] THEN Closed ELSE table[d]]

Reports == Fails("report") /\ NextDemo /\ UNCHANGED <<number, table>>

Closes == Fails("close") /\ Close /\ NextDemo /\ UNCHANGED number

Aborts == Fails("abort") /\ Close /\ Exit /\ UNCHANGED number

Terminated == ~Running /\ UNCHANGED vars

-----------------------------------------------------------------------------
Init == /\ number = [v \in Variables |-> -1]
        /\ table = [d \in Desc |-> Closed]
        /\ at = <<1, 1>>

Next == Socket \/ SocketFails \/ Succeeds \/ Reports \/ Closes \/ Aborts \/ Terminated

Spec == Init /\ [][Next]_vars

-----------------------------------------------------------------------------
\* Types of the variables.
TypeOK == /\ number \in [Variables -> Desc \cup {-1}]
          /\ \A d \in Desc : /\ table[d].owner \in Variables \cup {"none"}
                             /\ table[d].owner = "none" => table[d].did = {}
          /\ at[1] \in 1..Len(Program) + 1
          /\ Running => at[2] \in 1..Len(Program[at[1]])

\* A socket that listens has every option it needs and is bound: the demo
\* functions do not tell demo_tcp_init that they failed, so the later calls on
\* the closed number must be what stops it.
ListenerConfigured ==
  \A d \in Desc : <<"set", "listen">> \in table[d].did => Required \subseteq table[d].did

\* Every open socket can be reached through the variable it was opened for:
\* no number is overwritten while its socket is open.
SocketsReachable ==
  \A d \in Desc : table[d].owner # "none" => number[table[d].owner] = d

\* A demo function that fails never closes the socket of another variable,
\* although the numbers of closed sockets are given out again.
NoForeignClose ==
  [][\A d \in Desc : table[d].owner # "none" /\ table'[d].owner = "none"
                       => Current.on = table[d].owner]_vars

\* A call through udp_fd or ip_fd reaches its own socket or none; only fd can
\* be stale, and only once demo_tcp_init has returned.
OnlyFdStale ==
  Running /\ Current.op # "socket" /\ Reached.owner \notin {"none", Current.on}
    => Current.on = "fd" /\ at[1] > Len(TcpInit)
=============================================================================
