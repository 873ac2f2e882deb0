------------------------- MODULE NetifCurrentProofs -------------------------
(***************************************************************************)
(* For any interfaces and addresses, any size of the receive buffer and    *)
(* any number of kernel events: what the list of a server that has caught  *)
(* up says of links and addresses is what the kernel has.                  *)
(*                                                                         *)
(* The messages in buff and in the datagrams of the receive buffer are on  *)
(* their way to the handlers in one order, so the proof speaks of them as  *)
(* of one sequence, the pipe.  The kernel appends to it, recvfrom moves it *)
(* and the handlers take its head.  The invariant says of each interface   *)
(* what the last message about it is, what its node is when none is left,  *)
(* and that a deletion of its address never follows another one.           *)
(***************************************************************************)
EXTENDS NetifEventProofs

\* The sequence s is that of the messages b and then those of the datagrams q,
\* of which datagram k begins after off[k].
PipeAt(s, off, b, q) ==
  /\ off \in [1 .. Len(q) + 1 -> Nat]
  /\ \A k, l \in 1 .. Len(q) + 1 : k <= l => off[k] <= off[l]
  /\ off[1] = Len(b)
  /\ \A k \in 1 .. Len(q) : off[k + 1] = off[k] + Len(q[k])
  /\ Len(s) = off[Len(q) + 1]
  /\ \A j \in 1 .. Len(b) : s[j] = b[j]
  /\ \A k \in 1 .. Len(q) : \A j \in 1 .. Len(q[k]) : s[off[k] + j] = q[k][j]

IsPipe(s, b, q) == s \in Seq(Msg) /\ \E off : PipeAt(s, off, b, q)

Pipe(s) == IsPipe(s, buff, rxq)

\* The messages about an interface
LinksOf(i)   == {m \in LinkMsg : m.name = i}
AddrsOf(i)   == {m \in AddrMsg : m.name = i}
News(i)      == {m \in AddrsOf(i) : m.type = "NEWADDR"}
Deletions(i) == {m \in AddrsOf(i) : m.type = "DELADDR"}
MsgsOf(i)    == LinksOf(i) \cup AddrsOf(i)

NoneOf(C, s) == \A j \in DOMAIN s : s[j] \notin C

LastOf(C, s, j) == /\ j \in DOMAIN s /\ s[j] \in C
                   /\ \A k \in DOMAIN s : k > j => s[k] \notin C

\* Links: the last message about one that was announced has its flags.
LinksIn(s) ==
  \A i \in announced :
    /\ \A j : LastOf(LinksOf(i), s, j) => s[j].link = kif[i].link
    /\ NoneOf(LinksOf(i), s) => i \in nodes /\ attr[i].link = kif[i].link

\* Any number of addresses: a new address that is the last news of an
\* interface is still there.
NewsIn(s) ==
  \A i \in Ifs :
    /\ \A j : LastOf(MsgsOf(i), s, j) /\ s[j] \in News(i) => s[j].addr \in kif[i].addrs
    /\ NoneOf(MsgsOf(i), s) /\ FindOrAdd(i).current_state = "IF_NEWADDR" =>
         FindOrAdd(i).ipaddr \in kif[i].addrs

DumpToCome == mpc \in BeforeDump \cup {"exited"} \/ dumpDue

\* One address on an interface: ...
AtMostOne == \A i \in Ifs : \A a, b \in kif[i].addrs : a = b

\* ... the last message about it is true, ...
LastTrue(i, s) ==
  \A j : LastOf(AddrsOf(i), s, j) =>
    IF s[j].type = "DELADDR" THEN kif[i].addrs = {} ELSE s[j].addr \in kif[i].addrs

\* ... its node is up to date when there is none, unless the dump is to come, ...
NodeTrue(i, s) ==
  NoneOf(AddrsOf(i), s) =>
    /\ kif[i].addrs = {} => FindOrAdd(i).ipaddr = NoAddr
    /\ kif[i].addrs # {} /\ ~DumpToCome => FindOrAdd(i).ipaddr \in kif[i].addrs
    /\ FindOrAdd(i).current_state = "IF_DELADDR" => kif[i].addrs = {}

\* ... and a deletion comes next after a new address, or first to a node whose
\* last event was not a deletion.
Follows(i, s, j) ==
  \/ \E k \in 1 .. j - 1 : s[k] \in News(i) /\ \A l \in k + 1 .. j - 1 : s[l] \notin AddrsOf(i)
  \/ /\ \A k \in 1 .. j - 1 : s[k] \notin AddrsOf(i)
     /\ FindOrAdd(i).current_state # "IF_DELADDR"

Alternate(i, s) == \A j \in DOMAIN s : s[j] \in Deletions(i) => Follows(i, s, j)

AddrsIn(s) ==
  /\ AtMostOne
  /\ \A i \in Ifs : LastTrue(i, s) /\ NodeTrue(i, s) /\ Alternate(i, s)

\* Before the socket joins its groups nothing has arrived.
Unbound == ~bound => rxq = <<>> /\ buff = <<>> /\ nodes = {} /\ announced = {}

PipeTrue(s) == LinksIn(s) /\ NewsIn(s) /\ (MaxAddrs = 1 => AddrsIn(s))

PipeInv == lost \/ \E s : Pipe(s) /\ PipeTrue(s)

CInv == IInv /\ Unbound /\ PipeInv

-----------------------------------------------------------------------------
(* What becomes of the pipe.                                               *)

\* An empty pipe
LEMMA PipeEmpty == IsPipe(<<>>, <<>>, <<>>)
<1> DEFINE off == [k \in 1..1 |-> 0]
<1>1. PipeAt(<<>>, off, <<>>, <<>>)
  BY DEF PipeAt
<1>2. <<>> \in Seq(Msg)
  OBVIOUS
<1> QED
  BY <1>1, <1>2 DEF IsPipe

\* Nothing in buff and no datagram: the pipe is empty.
LEMMA EmptyPipe ==
  ASSUME NEW s, IsPipe(s, <<>>, <<>>)
  PROVE  s = <<>>
<1>1. PICK off : PipeAt(s, off, <<>>, <<>>)
  BY DEF IsPipe
<1>2. Len(s) = 0 /\ s \in Seq(Msg)
  BY <1>1 DEF PipeAt, IsPipe
<1> QED
  BY <1>2

\* The parts of a pipe lie inside it.
LEMMA OffsetsInPipe ==
  ASSUME NEW b \in Seq(Msg), NEW q \in Seq(Seq(Msg)), NEW s \in Seq(Msg), NEW off,
         PipeAt(s, off, b, q)
  PROVE  /\ Len(q) \in Nat /\ Len(b) \in Nat /\ Len(s) \in Nat
         /\ \A k \in 1 .. Len(q) + 1 : off[k] \in Nat /\ Len(b) <= off[k] /\ off[k] <= Len(s)
         /\ \A k \in 1 .. Len(q) : /\ q[k] \in Seq(Msg) /\ Len(q[k]) \in Nat
                                   /\ off[k] + Len(q[k]) <= Len(s)
         /\ Len(b) <= Len(s)
<1>1. Len(q) \in Nat /\ Len(b) \in Nat /\ Len(s) \in Nat
  OBVIOUS
<1>2. \A k \in 1 .. Len(q) + 1 : off[k] \in Nat /\ Len(b) <= off[k] /\ off[k] <= Len(s)
  <2>1. /\ off \in [1 .. Len(q) + 1 -> Nat]
        /\ \A k, l \in 1 .. Len(q) + 1 : k <= l => off[k] <= off[l]
        /\ off[1] = Len(b) /\ Len(s) = off[Len(q) + 1]
    BY DEF PipeAt
  <2>2. /\ 1 \in 1 .. Len(q) + 1 /\ Len(q) + 1 \in 1 .. Len(q) + 1
        /\ \A k \in 1 .. Len(q) + 1 : 1 <= k /\ k <= Len(q) + 1
    BY <1>1
  <2> QED
    BY <2>1, <2>2
<1>3. \A k \in 1 .. Len(q) : q[k] \in Seq(Msg) /\ Len(q[k]) \in Nat
  OBVIOUS
<1>4. \A k \in 1 .. Len(q) : k + 1 \in 1 .. Len(q) + 1 /\ off[k + 1] = off[k] + Len(q[k])
  BY <1>1 DEF PipeAt
<1>5. Len(b) <= Len(s)
  BY <1>1, <1>2
<1> QED
  BY <1>1, <1>2, <1>3, <1>4, <1>5

\* Datagrams join the receive buffer: ends[d] is where the one after d begins.
LEMMA PipeExtend ==
  ASSUME NEW b \in Seq(Msg), NEW q \in Seq(Seq(Msg)), NEW s \in Seq(Msg), NEW off,
         PipeAt(s, off, b, q), NEW dgs \in Seq(Seq(Msg)), NEW x \in Seq(Msg),
         NEW ends, PipeAt(x, ends, <<>>, dgs)
  PROVE  IsPipe(s \o x, b, q \o dgs)
<1> DEFINE n == Len(q)
           q2 == q \o dgs
           s2 == s \o x
           off2 == [k \in 1 .. n + Len(dgs) + 1 |->
                      IF k <= n THEN off[k] ELSE Len(s) + ends[k - n]]
<1>1. /\ n \in Nat /\ Len(b) \in Nat /\ Len(s) \in Nat
      /\ \A k \in 1 .. n + 1 : off[k] \in Nat /\ Len(b) <= off[k] /\ off[k] <= Len(s)
      /\ \A k \in 1 .. n : /\ q[k] \in Seq(Msg) /\ Len(q[k]) \in Nat
                           /\ off[k] + Len(q[k]) <= Len(s)
      /\ Len(b) <= Len(s)
  BY OffsetsInPipe
<1>2. /\ Len(dgs) \in Nat /\ Len(x) \in Nat
      /\ \A k \in 1 .. Len(dgs) + 1 : ends[k] \in Nat /\ ends[k] <= Len(x)
      /\ \A k \in 1 .. Len(dgs) : /\ dgs[k] \in Seq(Msg) /\ Len(dgs[k]) \in Nat
                                  /\ ends[k] + Len(dgs[k]) <= Len(x)
  <2>1. <<>> \in Seq(Msg)
    OBVIOUS
  <2> QED
    BY <2>1, OffsetsInPipe
<1>3. /\ off[1] = Len(b) /\ Len(s) = off[n + 1]
      /\ \A k, l \in 1 .. n + 1 : k <= l => off[k] <= off[l]
      /\ \A k \in 1 .. n : off[k + 1] = off[k] + Len(q[k])
      /\ \A j \in 1 .. Len(b) : s[j] = b[j]
      /\ \A k \in 1 .. n : \A j \in 1 .. Len(q[k]) : s[off[k] + j] = q[k][j]
  BY DEF PipeAt
<1>4. /\ ends[1] = 0 /\ Len(x) = ends[Len(dgs) + 1]
      /\ \A k, l \in 1 .. Len(dgs) + 1 : k <= l => ends[k] <= ends[l]
      /\ \A k \in 1 .. Len(dgs) : ends[k + 1] = ends[k] + Len(dgs[k])
      /\ \A k \in 1 .. Len(dgs) : \A j \in 1 .. Len(dgs[k]) : x[ends[k] + j] = dgs[k][j]
  BY DEF PipeAt
<1>5. /\ s2 \in Seq(Msg) /\ Len(s2) = Len(s) + Len(x)
      /\ \A j \in 1 .. Len(s) : s2[j] = s[j]
      /\ \A j \in 1 .. Len(x) : s2[Len(s) + j] = x[j]
  BY <1>1, <1>2
<1>6. /\ q2 \in Seq(Seq(Msg)) /\ Len(q2) = n + Len(dgs)
      /\ \A k \in 1 .. n : q2[k] = q[k]
      /\ \A k \in 1 .. Len(dgs) : q2[n + k] = dgs[k]
  BY <1>1, <1>2
<1>7. /\ \A k \in 1 .. n + 1 : off2[k] = off[k]
      /\ \A k \in 1 .. Len(dgs) + 1 : off2[n + k] = Len(s) + ends[k]
  <2>1. ASSUME NEW k \in 1 .. n + 1
        PROVE  off2[k] = off[k]
    <3>1. k \in 1 .. n + Len(dgs) + 1
      BY <1>1, <1>2
    <3>2. CASE k <= n
      BY <3>1, <3>2
    <3>3. CASE ~(k <= n)
      <4>1. k = n + 1 /\ k - n = 1
        BY <1>1, <3>3
      <4>2. off2[k] = Len(s) + ends[1]
        BY <3>1, <3>3, <4>1
      <4> QED
        BY <1>1, <1>3, <1>4, <4>1, <4>2
    <3> QED
      BY <3>2, <3>3
  <2>2. ASSUME NEW k \in 1 .. Len(dgs) + 1
        PROVE  off2[n + k] = Len(s) + ends[k]
    <3>1. n + k \in 1 .. n + Len(dgs) + 1 /\ ~(n + k <= n) /\ (n + k) - n = k
      BY <1>1, <1>2
    <3> QED
      BY <3>1
  <2> QED
    BY <2>1, <2>2
<1>8. \A k \in 1 .. n + Len(dgs) + 1 :
        k \in 1 .. n + 1 \/ \E d \in 1 .. Len(dgs) + 1 : k = n + d
  <2> SUFFICES ASSUME NEW k \in 1 .. n + Len(dgs) + 1, k \notin 1 .. n + 1
               PROVE  k - n \in 1 .. Len(dgs) + 1 /\ k = n + (k - n)
    OBVIOUS
  <2> QED
    BY <1>1, <1>2
<1> HIDE DEF q2, s2
<1>9. ASSUME NEW k \in 1 .. n + Len(dgs) + 1
      PROVE  /\ off2[k] \in Nat
             /\ \A l \in 1 .. n + Len(dgs) + 1 : k <= l => off2[k] <= off2[l]
  <2> HIDE DEF off2
  <2>1. CASE k \in 1 .. n + 1
    <3>1. off2[k] = off[k] /\ off[k] \in Nat /\ off[k] <= Len(s)
      BY <1>1, <1>7, <2>1
    <3>2. ASSUME NEW l \in 1 .. n + 1, k <= l
          PROVE  off2[k] <= off2[l]
      BY <1>3, <1>7, <2>1, <3>1, <3>2
    <3>3. ASSUME NEW d \in 1 .. Len(dgs) + 1
          PROVE  off2[k] <= off2[n + d]
      <4>1. off2[n + d] = Len(s) + ends[d] /\ ends[d] \in Nat
        BY <1>2, <1>7
      <4> QED
        BY <1>1, <3>1, <4>1
    <3> QED
      BY <1>8, <3>1, <3>2, <3>3
  <2>2. ASSUME NEW d \in 1 .. Len(dgs) + 1, k = n + d
        PROVE  /\ off2[k] \in Nat
               /\ \A l \in 1 .. n + Len(dgs) + 1 : k <= l => off2[k] <= off2[l]
    <3>1. off2[k] = Len(s) + ends[d] /\ ends[d] \in Nat
      BY <1>2, <1>7, <2>2
    <3>2. ASSUME NEW e \in 1 .. Len(dgs) + 1, k <= n + e
          PROVE  off2[k] <= off2[n + e]
      <4>1. d <= e
        BY <1>1, <1>2, <2>2, <3>2
      <4>2. ends[d] <= ends[e] /\ off2[n + e] = Len(s) + ends[e] /\ ends[e] \in Nat
        BY <1>2, <1>4, <1>7, <4>1
      <4> QED
        BY <1>1, <3>1, <4>2
    <3>3. ASSUME NEW l \in 1 .. n + 1, k <= l
          PROVE  \E e \in 1 .. Len(dgs) + 1 : l = n + e
      <4>1. l = n + 1 /\ 1 \in 1 .. Len(dgs) + 1
        BY <1>1, <1>2, <2>2, <3>3
      <4> QED
        BY <4>1
    <3>4. off2[k] \in Nat
      BY <1>1, <3>1
    <3> QED
      BY <1>8, <3>2, <3>3, <3>4
  <2> QED
    BY <1>8, <2>1, <2>2
<1>10. /\ off2 \in [1 .. Len(q2) + 1 -> Nat]
       /\ \A k, l \in 1 .. Len(q2) + 1 : k <= l => off2[k] <= off2[l]
  BY <1>6, <1>9
<1>11. \A k \in 1 .. Len(q2) : k \in 1 .. n \/ \E d \in 1 .. Len(dgs) : k = n + d
  <2> SUFFICES ASSUME NEW k \in 1 .. n + Len(dgs), k \notin 1 .. n
               PROVE  k - n \in 1 .. Len(dgs) /\ k = n + (k - n)
    BY <1>6
  <2> QED
    BY <1>1, <1>2
<1> HIDE DEF off2
<1>12. ASSUME NEW k \in 1 .. Len(q2)
       PROVE  /\ off2[k + 1] = off2[k] + Len(q2[k])
              /\ \A j \in 1 .. Len(q2[k]) : s2[off2[k] + j] = q2[k][j]
  <2>1. CASE k \in 1 .. n
    <3>1. k + 1 \in 1 .. n + 1 /\ k \in 1 .. n + 1
      BY <1>1, <2>1
    <3>2. off2[k] = off[k] /\ off2[k + 1] = off[k + 1] /\ q2[k] = q[k]
      BY <1>6, <1>7, <2>1, <3>1
    <3>3. ASSUME NEW j \in 1 .. Len(q[k])
          PROVE  s2[off[k] + j] = q[k][j]
      <4>1. off[k] + j \in 1 .. Len(s)
        BY <1>1, <2>1, <3>1, SMTT(30)
      <4> QED
        BY <1>3, <1>5, <2>1, <4>1
    <3> QED
      BY <1>3, <2>1, <3>2, <3>3
  <2>2. ASSUME NEW d \in 1 .. Len(dgs), k = n + d
        PROVE  /\ off2[k + 1] = off2[k] + Len(q2[k])
               /\ \A j \in 1 .. Len(q2[k]) : s2[off2[k] + j] = q2[k][j]
    <3>1. d \in 1 .. Len(dgs) + 1 /\ d + 1 \in 1 .. Len(dgs) + 1 /\ k + 1 = n + (d + 1)
      BY <1>1, <1>2, <2>2
    <3>2. off2[k] = Len(s) + ends[d] /\ off2[k + 1] = Len(s) + ends[d + 1] /\ q2[k] = dgs[d]
      BY <1>6, <1>7, <2>2, <3>1
    <3>3. ends[d] \in Nat /\ ends[d + 1] = ends[d] + Len(dgs[d]) /\ Len(dgs[d]) \in Nat
      BY <1>2, <1>4, <3>1
    <3>4. ASSUME NEW j \in 1 .. Len(dgs[d])
          PROVE  s2[Len(s) + ends[d] + j] = dgs[d][j]
      <4>0. ends[d] + Len(dgs[d]) <= Len(x)
        BY <1>2
      <4>1. ends[d] + j \in 1 .. Len(x)
        <5>1. j \in Nat /\ 1 <= j /\ j <= Len(dgs[d])
          BY <3>3
        <5>2. Len(x) \in Nat /\ ends[d] \in Nat /\ Len(dgs[d]) \in Nat
          BY <1>2, <3>3
        <5> QED
          BY <4>0, <5>1, <5>2, SMTT(30)
      <4>2. Len(s) + ends[d] + j = Len(s) + (ends[d] + j)
        BY <1>1, <3>3
      <4>3. x[ends[d] + j] = dgs[d][j]
        BY <1>4
      <4> QED
        BY <1>5, <4>1, <4>2, <4>3
    <3> QED
      BY <1>1, <3>2, <3>3, <3>4
  <2> QED
    BY <1>11, <2>1, <2>2
<1>13. \A j \in 1 .. Len(b) : s2[j] = b[j]
  BY <1>1, <1>3, <1>5
<1>14. off2[1] = Len(b) /\ Len(s2) = off2[Len(q2) + 1]
  <2>1. 1 \in 1 .. n + 1 /\ Len(dgs) + 1 \in 1 .. Len(dgs) + 1
        /\ Len(q2) + 1 = n + (Len(dgs) + 1)
    BY <1>1, <1>2, <1>6
  <2> QED
    BY <1>3, <1>4, <1>5, <1>7, <2>1
<1>15. PipeAt(s2, off2, b, q2)
  BY <1>10, <1>12, <1>13, <1>14 DEF PipeAt
<1> QED
  BY <1>5, <1>15 DEF IsPipe, q2, s2

\* A single datagram joins the receive buffer.
LEMMA PipeAppend ==
  ASSUME NEW b \in Seq(Msg), NEW q \in Seq(Seq(Msg)), NEW s, IsPipe(s, b, q),
         NEW d \in Seq(Msg)
  PROVE  IsPipe(s \o d, b, Append(q, d))
<1>1. PICK off : s \in Seq(Msg) /\ PipeAt(s, off, b, q)
  BY DEF IsPipe
<1> DEFINE dgs == <<d>>
           ends == [k \in 1..2 |-> IF k = 1 THEN 0 ELSE Len(d)]
<1>2. dgs \in Seq(Seq(Msg)) /\ Len(dgs) = 1 /\ dgs[1] = d /\ Append(q, d) = q \o dgs
      /\ Len(d) \in Nat
  OBVIOUS
<1>3. ends[1] = 0 /\ ends[2] = Len(d) /\ ends \in [1..2 -> Nat]
  BY <1>2
<1> HIDE DEF dgs, ends
<1>4. (\A k \in 1..1 : k = 1) /\ (\A k \in 1..2 : k = 1 \/ k = 2)
  OBVIOUS
<1>5. PipeAt(d, ends, <<>>, dgs)
  BY <1>2, <1>3, <1>4 DEF PipeAt
<1>6. IsPipe(s \o d, b, q \o dgs)
  BY <1>1, <1>2, <1>5, PipeExtend
<1> QED
  BY <1>2, <1>6

\* Datagrams of one message each join the receive buffer.
LEMMA PipeAppendSingles ==
  ASSUME NEW b \in Seq(Msg), NEW q \in Seq(Seq(Msg)), NEW s, IsPipe(s, b, q),
         NEW x \in Seq(Msg), NEW dgs \in Seq(Seq(Msg)), Len(dgs) = Len(x),
         \A k \in 1 .. Len(x) : dgs[k] = <<x[k]>>
  PROVE  IsPipe(s \o x, b, q \o dgs)
<1>1. PICK off : s \in Seq(Msg) /\ PipeAt(s, off, b, q)
  BY DEF IsPipe
<1> DEFINE ends == [k \in 1 .. Len(x) + 1 |-> k - 1]
<1>2. Len(x) \in Nat /\ ends \in [1 .. Len(x) + 1 -> Nat]
  OBVIOUS
<1>3. ends[1] = 0 /\ ends[Len(x) + 1] = Len(x)
  BY <1>2
<1>4. ASSUME NEW k \in 1 .. Len(x)
      PROVE  /\ ends[k + 1] = ends[k] + Len(dgs[k])
             /\ \A j \in 1 .. Len(dgs[k]) : x[ends[k] + j] = dgs[k][j]
  <2>1. dgs[k] = <<x[k]>>
    OBVIOUS
  <2>5. Len(dgs[k]) = 1 /\ dgs[k][1] = x[k]
    BY <2>1
  <2>2. k \in 1 .. Len(x) + 1 /\ k + 1 \in 1 .. Len(x) + 1
    BY <1>2
  <2>3. ends[k] = k - 1 /\ ends[k + 1] = k
    BY <1>2, <2>2
  <2>4. ends[k] + 1 = k
    BY <2>3
  <2> QED
    BY <2>3, <2>4, <2>5
<1>6. \A k, l \in 1 .. Len(x) + 1 : k <= l => ends[k] <= ends[l]
  BY <1>2
<1> HIDE DEF ends
<1>5. PipeAt(x, ends, <<>>, dgs)
  BY <1>2, <1>3, <1>4, <1>6 DEF PipeAt
<1> QED
  BY <1>1, <1>5, PipeExtend

\* recvfrom: the first datagram becomes the contents of buff.
LEMMA PipeRecv ==
  ASSUME NEW q \in Seq(Seq(Msg)), q # <<>>, NEW s, IsPipe(s, <<>>, q)
  PROVE  IsPipe(s, Head(q), Tail(q))
<1>1. PICK off : s \in Seq(Msg) /\ PipeAt(s, off, <<>>, q)
  BY DEF IsPipe
<1> DEFINE n == Len(q)
           b2 == Head(q)
           q2 == Tail(q)
           off2 == [k \in 1 .. n |-> off[k + 1]]
<1>2. n \in Nat /\ n >= 1 /\ b2 = q[1] /\ b2 \in Seq(Msg) /\ Len(q2) = n - 1
      /\ q2 \in Seq(Seq(Msg)) /\ \A k \in 1 .. n - 1 : q2[k] = q[k + 1]
  OBVIOUS
<1> HIDE DEF b2, q2
<1>3. /\ Len(s) \in Nat
      /\ \A k \in 1 .. n + 1 : off[k] \in Nat /\ off[k] <= Len(s)
      /\ \A k \in 1 .. n : Len(q[k]) \in Nat
  <2>1. <<>> \in Seq(Msg)
    OBVIOUS
  <2> QED
    BY <1>1, <2>1, OffsetsInPipe
<1>4. /\ off[1] = 0 /\ Len(s) = off[n + 1]
      /\ \A k, l \in 1 .. n + 1 : k <= l => off[k] <= off[l]
      /\ \A k \in 1 .. n : off[k + 1] = off[k] + Len(q[k])
      /\ \A k \in 1 .. n : \A j \in 1 .. Len(q[k]) : s[off[k] + j] = q[k][j]
  BY <1>1 DEF PipeAt
<1>5. off[2] = Len(b2) /\ \A j \in 1 .. Len(b2) : s[j] = b2[j]
  <2>1. 1 \in 1 .. n /\ 1 + 1 = 2
    BY <1>2
  <2>2. off[2] = off[1] + Len(q[1]) /\ \A j \in 1 .. Len(q[1]) : s[off[1] + j] = q[1][j]
    BY <1>4, <2>1
  <2>3. Len(q[1]) \in Nat
    BY <1>3, <2>1
  <2> QED
    BY <1>2, <1>4, <2>2, <2>3
<1>6. \A k \in 1 .. n : k + 1 \in 1 .. n + 1 /\ off2[k] = off[k + 1]
  BY <1>2
<1>7. \A k \in 1 .. n - 1 : k + 1 \in 1 .. n /\ k \in 1 .. n
  BY <1>2
<1>8. /\ off2 \in [1 .. Len(q2) + 1 -> Nat]
      /\ \A k, l \in 1 .. Len(q2) + 1 : k <= l => off2[k] <= off2[l]
  <2>1. Len(q2) + 1 = n
    BY <1>2
  <2>2. \A k \in 1 .. n : off2[k] \in Nat
    BY <1>3, <1>6
  <2>3. ASSUME NEW k \in 1 .. n, NEW l \in 1 .. n, k <= l
        PROVE  off2[k] <= off2[l]
    <3>1. k + 1 <= l + 1
      BY <2>3
    <3> QED
      BY <1>4, <1>6, <3>1
  <2> QED
    BY <2>1, <2>2, <2>3
<1>9. off2[1] = Len(b2) /\ Len(s) = off2[Len(q2) + 1]
  <2>1. 1 \in 1 .. n /\ n \in 1 .. n /\ Len(q2) + 1 = n /\ 1 + 1 = 2
    BY <1>2
  <2> QED
    BY <1>4, <1>5, <1>6, <2>1
<1> HIDE DEF off2
<1>10. ASSUME NEW k \in 1 .. n - 1
       PROVE  /\ off2[k + 1] = off2[k] + Len(q2[k])
              /\ \A j \in 1 .. Len(q2[k]) : s[off2[k] + j] = q2[k][j]
  <2>1. off2[k] = off[k + 1] /\ off2[k + 1] = off[k + 1 + 1] /\ q2[k] = q[k + 1]
    BY <1>2, <1>6, <1>7
  <2> QED
    BY <1>4, <1>7, <2>1
<1>11. PipeAt(s, off2, b2, q2)
  BY <1>2, <1>5, <1>8, <1>9, <1>10 DEF PipeAt
<1> QED
  BY <1>1, <1>11 DEF IsPipe, b2, q2

\* A message inside its datagram, when everything moves up by one
LEMMA ShiftedOffset ==
  \A o, j, len, total \in Nat :
    1 <= o /\ 1 <= j /\ j <= len /\ o + len <= total =>
      o - 1 + j \in 1 .. total - 1 /\ o - 1 + j + 1 = o + j
OBVIOUS

\* A handler takes the first message of buff.
LEMMA PipeTake ==
  ASSUME NEW b \in Seq(Msg), b # <<>>, NEW q \in Seq(Seq(Msg)), NEW s, IsPipe(s, b, q)
  PROVE  IsPipe(Tail(s), Tail(b), q) /\ s # <<>> /\ s[1] = Head(b)
<1>1. PICK off : s \in Seq(Msg) /\ PipeAt(s, off, b, q)
  BY DEF IsPipe
<1> DEFINE n == Len(q)
           s2 == Tail(s)
           b2 == Tail(b)
           off2 == [k \in 1 .. n + 1 |-> off[k] - 1]
<1>2. /\ n \in Nat /\ Len(b) \in Nat /\ Len(s) \in Nat
      /\ \A k \in 1 .. n + 1 : off[k] \in Nat /\ Len(b) <= off[k] /\ off[k] <= Len(s)
      /\ \A k \in 1 .. n : /\ Len(q[k]) \in Nat /\ off[k] + Len(q[k]) <= Len(s)
      /\ Len(b) <= Len(s)
  BY <1>1, OffsetsInPipe
<1>3. /\ off[1] = Len(b) /\ Len(s) = off[n + 1]
      /\ \A k, l \in 1 .. n + 1 : k <= l => off[k] <= off[l]
      /\ \A k \in 1 .. n : off[k + 1] = off[k] + Len(q[k])
      /\ \A j \in 1 .. Len(b) : s[j] = b[j]
      /\ \A k \in 1 .. n : \A j \in 1 .. Len(q[k]) : s[off[k] + j] = q[k][j]
  BY <1>1 DEF PipeAt
<1>4. /\ Len(b) >= 1 /\ b2 \in Seq(Msg) /\ Len(b2) = Len(b) - 1 /\ Head(b) = b[1]
      /\ \A j \in 1 .. Len(b) - 1 : b2[j] = b[j + 1]
  OBVIOUS
<1>5. s # <<>> /\ s[1] = Head(b)
  BY <1>1, <1>2, <1>3, <1>4
<1>6. /\ s2 \in Seq(Msg) /\ Len(s2) = Len(s) - 1
      /\ \A j \in 1 .. Len(s) - 1 : s2[j] = s[j + 1]
  BY <1>1, <1>5
<1>7. \A k \in 1 .. n + 1 : off2[k] = off[k] - 1 /\ off2[k] \in Nat
  BY <1>2, <1>4
<1> HIDE DEF s2, b2
<1>8. /\ off2 \in [1 .. n + 1 -> Nat]
      /\ \A k, l \in 1 .. n + 1 : k <= l => off2[k] <= off2[l]
  <2>1. ASSUME NEW k \in 1 .. n + 1, NEW l \in 1 .. n + 1, k <= l
        PROVE  off2[k] <= off2[l]
    <3>1. off[k] <= off[l] /\ off[k] \in Nat /\ off[l] \in Nat
      BY <1>2, <1>3, <2>1
    <3> QED
      BY <1>7, <3>1
  <2> QED
    BY <1>7, <2>1
<1> HIDE DEF off2
<1>9. off2[1] = Len(b2) /\ Len(s2) = off2[n + 1]
  <2>1. 1 \in 1 .. n + 1 /\ n + 1 \in 1 .. n + 1
    BY <1>2
  <2> QED
    BY <1>3, <1>4, <1>6, <1>7, <2>1
<1>10. ASSUME NEW j \in 1 .. Len(b2)
       PROVE  s2[j] = b2[j]
  <2>1. j \in 1 .. Len(b) - 1 /\ j \in 1 .. Len(s) - 1 /\ j + 1 \in 1 .. Len(b)
    BY <1>2, <1>4
  <2> QED
    BY <1>3, <1>4, <1>6, <2>1
<1>11. ASSUME NEW k \in 1 .. n
       PROVE  /\ off2[k + 1] = off2[k] + Len(q[k])
              /\ \A j \in 1 .. Len(q[k]) : s2[off2[k] + j] = q[k][j]
  <2>1. k \in 1 .. n + 1 /\ k + 1 \in 1 .. n + 1
    BY <1>2
  <2>2. /\ off2[k] = off[k] - 1 /\ off2[k + 1] = off[k + 1] - 1
        /\ off[k + 1] = off[k] + Len(q[k]) /\ off[k] \in Nat /\ Len(q[k]) \in Nat
        /\ Len(b) <= off[k] /\ off[k] + Len(q[k]) <= Len(s)
    BY <1>2, <1>3, <1>7, <2>1
  <2>3. ASSUME NEW j \in 1 .. Len(q[k])
        PROVE  s2[off2[k] + j] = q[k][j]
    <3>1. off2[k] + j \in 1 .. Len(s) - 1 /\ off2[k] + j + 1 = off[k] + j
      <4>1. j \in Nat /\ 1 <= j /\ j <= Len(q[k])
        BY <2>2
      <4>2. off[k] \in Nat /\ 1 <= off[k] /\ Len(s) \in Nat
        BY <1>2, <1>4, <2>2
      <4>3. off[k] + Len(q[k]) <= Len(s) /\ Len(q[k]) \in Nat
        BY <2>2
      <4>4. off[k] - 1 + j \in 1 .. Len(s) - 1 /\ off[k] - 1 + j + 1 = off[k] + j
        BY <4>1, <4>2, <4>3, ShiftedOffset
      <4> QED
        BY <2>2, <4>4
    <3>2. s[off[k] + j] = q[k][j]
      BY <1>3
    <3> QED
      BY <1>6, <3>1, <3>2
  <2> QED
    BY <2>2, <2>3
<1>12. PipeAt(s2, off2, b2, q)
  BY <1>8, <1>9, <1>10, <1>11 DEF PipeAt
<1> QED
  BY <1>5, <1>6, <1>12 DEF IsPipe, s2, b2

-----------------------------------------------------------------------------
(* Last messages of a class.                                               *)

\* Where there is one of a class there is a last one.
LEMMA LastExists ==
  ASSUME NEW C, NEW s \in Seq(Msg), ~NoneOf(C, s)
  PROVE  \E j : LastOf(C, s, j)
<1> DEFINE T == {n \in Nat : n <= Len(s) /\ Len(s) - n \in DOMAIN s /\ s[Len(s) - n] \in C}
           R == OpToRel(<, Nat)
<1>1. PICK j \in DOMAIN s : s[j] \in C
  BY DEF NoneOf
<1>2. j \in 1 .. Len(s) /\ Len(s) \in Nat /\ DOMAIN s = 1 .. Len(s)
  BY <1>1
<1>3. Len(s) - j \in T
  BY <1>1, <1>2
<1>4. PICK n \in T : \A m \in T : ~(<<m, n>> \in R)
  <2>1. T \subseteq Nat /\ T # {} /\ IsWellFoundedOn(R, Nat)
    BY <1>3, NatLessThanWellFounded
  <2> HIDE DEF T, R
  <2> QED
    BY <2>1, WFMin
<1>5. ASSUME NEW k \in DOMAIN s, k > Len(s) - n, s[k] \in C
      PROVE  FALSE
  <2>1. Len(s) - k \in T /\ Len(s) - k < n /\ Len(s) - k \in Nat /\ n \in Nat
    BY <1>2, <1>5
  <2>2. <<Len(s) - k, n>> \in R
    BY <2>1 DEF OpToRel
  <2> QED
    BY <1>4, <2>1, <2>2
<1> QED
  BY <1>4, <1>5 DEF LastOf

\* sx is s and then x.
Joined(s, x, sx) ==
  /\ DOMAIN sx = 1 .. Len(s) + Len(x)
  /\ \A k \in 1 .. Len(s) : sx[k] = s[k]
  /\ \A k \in 1 .. Len(x) : sx[Len(s) + k] = x[k]

LEMMA JoinedConcat ==
  ASSUME NEW s \in Seq(Msg), NEW x \in Seq(Msg)
  PROVE  Joined(s, x, s \o x)
BY DEF Joined

\* The last one of two sequences is in the second, or there is none in it.
LEMMA LastAppend ==
  ASSUME NEW C, NEW s \in Seq(Msg), NEW x \in Seq(Msg), NEW sx, Joined(s, x, sx),
         NEW j, LastOf(C, sx, j)
  PROVE  \/ \E k : LastOf(C, x, k) /\ sx[j] = x[k]
         \/ NoneOf(C, x) /\ LastOf(C, s, j) /\ sx[j] = s[j]
<1>1. /\ Len(s) \in Nat /\ Len(x) \in Nat /\ DOMAIN s = 1 .. Len(s) /\ DOMAIN x = 1 .. Len(x)
      /\ DOMAIN sx = 1 .. Len(s) + Len(x)
      /\ \A k \in 1 .. Len(s) : sx[k] = s[k]
      /\ \A k \in 1 .. Len(x) : sx[Len(s) + k] = x[k]
  BY DEF Joined
<1>2. j \in 1 .. Len(s) + Len(x) /\ sx[j] \in C /\ \A k \in DOMAIN sx : k > j => sx[k] \notin C
  BY <1>1 DEF LastOf
<1>3. CASE j <= Len(s)
  <2>1. j \in 1 .. Len(s)
    BY <1>1, <1>2, <1>3
  <2>2. \A k \in DOMAIN s : k > j => s[k] \notin C
    BY <1>1, <1>2
  <2>3. ASSUME NEW k \in DOMAIN x
        PROVE  x[k] \notin C
    <3>1. Len(s) + k \in DOMAIN sx /\ Len(s) + k > j /\ sx[Len(s) + k] = x[k]
      BY <1>1, <2>1
    <3> QED
      BY <1>2, <3>1
  <2> QED
    BY <1>1, <1>2, <2>1, <2>2, <2>3 DEF LastOf, NoneOf
<1>4. CASE ~(j <= Len(s))
  <2>1. j - Len(s) \in 1 .. Len(x) /\ Len(s) + (j - Len(s)) = j
    BY <1>1, <1>2, <1>4
  <2>2. sx[j] = x[j - Len(s)]
    BY <1>1, <2>1
  <2>3. ASSUME NEW k \in DOMAIN x, k > j - Len(s)
        PROVE  x[k] \notin C
    <3>1. Len(s) + k \in DOMAIN sx /\ Len(s) + k > j /\ sx[Len(s) + k] = x[k]
      BY <1>1, <1>2, <2>3
    <3> QED
      BY <1>2, <3>1
  <2> QED
    BY <1>1, <1>2, <2>1, <2>2, <2>3 DEF LastOf
<1> QED
  BY <1>3, <1>4

LEMMA NoneAppend ==
  ASSUME NEW C, NEW s \in Seq(Msg), NEW x \in Seq(Msg), NoneOf(C, s \o x)
  PROVE  NoneOf(C, s) /\ NoneOf(C, x)
<1>1. /\ Len(s) \in Nat /\ Len(x) \in Nat /\ DOMAIN s = 1 .. Len(s) /\ DOMAIN x = 1 .. Len(x)
      /\ DOMAIN (s \o x) = 1 .. Len(s) + Len(x)
      /\ \A k \in 1 .. Len(s) : (s \o x)[k] = s[k]
      /\ \A k \in 1 .. Len(x) : (s \o x)[Len(s) + k] = x[k]
  OBVIOUS
<1>2. /\ \A k \in 1 .. Len(s) : k \in DOMAIN (s \o x)
      /\ \A k \in 1 .. Len(x) : Len(s) + k \in DOMAIN (s \o x)
  BY <1>1
<1> QED
  BY <1>1, <1>2 DEF NoneOf

\* The last one after the first message is the last one.
LEMMA LastTail ==
  ASSUME NEW C, NEW s \in Seq(Msg), s # <<>>, NEW j, LastOf(C, Tail(s), j)
  PROVE  LastOf(C, s, j + 1) /\ Tail(s)[j] = s[j + 1]
<1>1. /\ Len(s) \in Nat /\ Len(s) >= 1 /\ DOMAIN s = 1 .. Len(s)
      /\ DOMAIN Tail(s) = 1 .. Len(s) - 1
      /\ \A k \in 1 .. Len(s) - 1 : Tail(s)[k] = s[k + 1]
  OBVIOUS
<1>2. /\ j \in 1 .. Len(s) - 1 /\ Tail(s)[j] \in C
      /\ \A k \in 1 .. Len(s) - 1 : k > j => Tail(s)[k] \notin C
  BY <1>1 DEF LastOf
<1>3. j + 1 \in 1 .. Len(s) /\ Tail(s)[j] = s[j + 1]
  BY <1>1, <1>2
<1>4. ASSUME NEW k \in 1 .. Len(s), k > j + 1
      PROVE  s[k] \notin C
  <2>1. k - 1 \in 1 .. Len(s) - 1 /\ k - 1 > j /\ k - 1 + 1 = k
    BY <1>1, <1>2, <1>4
  <2> QED
    BY <1>1, <1>2, <2>1
<1> QED
  BY <1>1, <1>2, <1>3, <1>4 DEF LastOf

\* When there is none after the first message, that is the last, or none was.
LEMMA NoneTail ==
  ASSUME NEW C, NEW s \in Seq(Msg), s # <<>>, NoneOf(C, Tail(s))
  PROVE  IF s[1] \in C THEN LastOf(C, s, 1) ELSE NoneOf(C, s)
<1>1. /\ Len(s) \in Nat /\ Len(s) >= 1 /\ DOMAIN s = 1 .. Len(s)
      /\ DOMAIN Tail(s) = 1 .. Len(s) - 1
      /\ \A k \in 1 .. Len(s) - 1 : Tail(s)[k] = s[k + 1]
  OBVIOUS
<1>2. ASSUME NEW k \in 1 .. Len(s), k # 1
      PROVE  s[k] \notin C
  <2>1. k - 1 \in 1 .. Len(s) - 1 /\ k - 1 + 1 = k
    BY <1>1, <1>2
  <2>2. Tail(s)[k - 1] \notin C
    BY <1>1, <2>1 DEF NoneOf
  <2> QED
    BY <1>1, <2>1, <2>2
<1>3. 1 \in DOMAIN s /\ \A k \in DOMAIN s : k > 1 => k # 1
  BY <1>1
<1> QED
  BY <1>1, <1>2, <1>3 DEF LastOf, NoneOf

-----------------------------------------------------------------------------
(* What arrives at the end of the pipe.                                    *)

\* Messages are told apart by type and name.
LEMMA Kinds ==
  ASSUME NEW i, NEW m \in Msg
  PROVE  /\ m \in LinksOf(i) <=> m.type \in {"NEWLINK", "DELLINK"} /\ m.name = i
         /\ m \in AddrsOf(i) <=> m.type \in {"NEWADDR", "DELADDR"} /\ m.name = i
         /\ m \in News(i) <=> m.type = "NEWADDR" /\ m.name = i
         /\ m \in Deletions(i) <=> m.type = "DELADDR" /\ m.name = i
         /\ m \in MsgsOf(i) <=> m.type # "DONE" /\ m.name = i
<1>1. m.type = "DONE" \/ m \in LinkMsg \/ m \in AddrMsg
  BY DEF Msg
<1>2. m \in LinkMsg => m.type \in {"NEWLINK", "DELLINK"}
  BY DEF LinkMsg
<1>3. m \in AddrMsg => m.type \in {"NEWADDR", "DELADDR"}
  BY DEF AddrMsg
<1> QED
  BY <1>1, <1>2, <1>3 DEF LinksOf, AddrsOf, News, Deletions, MsgsOf

LEMMA LinksAppend ==
  ASSUME NEW s \in Seq(Msg), NEW x \in Seq(Msg), LinksIn(s), nodes' = nodes, attr' = attr,
         \A i \in announced' :
           /\ \A j : LastOf(LinksOf(i), x, j) => x[j].link = kif'[i].link
           /\ NoneOf(LinksOf(i), x) => i \in announced /\ kif'[i].link = kif[i].link
  PROVE  LinksIn(s \o x)'
<1> DEFINE sx == s \o x
<1>0. Joined(s, x, sx)
  BY JoinedConcat
<1> HIDE DEF sx
<1>1. ASSUME NEW i \in announced', NEW j, LastOf(LinksOf(i), sx, j)
      PROVE  sx[j].link = kif'[i].link
  <2>1. \/ \E k : LastOf(LinksOf(i), x, k) /\ sx[j] = x[k]
        \/ NoneOf(LinksOf(i), x) /\ LastOf(LinksOf(i), s, j) /\ sx[j] = s[j]
    BY <1>0, <1>1, LastAppend
  <2> QED
    BY <2>1 DEF LinksIn
<1>2. ASSUME NEW i \in announced', NoneOf(LinksOf(i), s \o x)
      PROVE  i \in nodes' /\ attr'[i].link = kif'[i].link
  BY <1>2, NoneAppend DEF LinksIn
<1> QED
  BY <1>1, <1>2 DEF LinksIn, sx

LEMMA NewsAppend ==
  ASSUME NEW s \in Seq(Msg), NEW x \in Seq(Msg), NewsIn(s), nodes' = nodes, attr' = attr,
         \A i \in Ifs :
           /\ \A j : LastOf(MsgsOf(i), x, j) /\ x[j] \in News(i) => x[j].addr \in kif'[i].addrs
           /\ NoneOf(MsgsOf(i), x) => kif'[i].addrs = kif[i].addrs
  PROVE  NewsIn(s \o x)'
<1>0. \A i \in Ifs : FindOrAdd(i)' = FindOrAdd(i)
  BY DEF FindOrAdd
<1> DEFINE sx == s \o x
<1>3. Joined(s, x, sx)
  BY JoinedConcat
<1> HIDE DEF sx
<1>1. ASSUME NEW i \in Ifs, NEW j, LastOf(MsgsOf(i), sx, j), sx[j] \in News(i)
      PROVE  sx[j].addr \in kif'[i].addrs
  <2>1. \/ \E k : LastOf(MsgsOf(i), x, k) /\ sx[j] = x[k]
        \/ NoneOf(MsgsOf(i), x) /\ LastOf(MsgsOf(i), s, j) /\ sx[j] = s[j]
    BY <1>1, <1>3, LastAppend
  <2> QED
    BY <1>1, <2>1 DEF NewsIn
<1>2. ASSUME NEW i \in Ifs, NoneOf(MsgsOf(i), s \o x),
             FindOrAdd(i)'.current_state = "IF_NEWADDR"
      PROVE  FindOrAdd(i)'.ipaddr \in kif'[i].addrs
  BY <1>0, <1>2, NoneAppend DEF NewsIn
<1> QED
  BY <1>1, <1>2 DEF NewsIn, sx

\* Where x says nothing of the addresses of i
LEMMA AddrsStay ==
  ASSUME NEW s \in Seq(Msg), NEW x \in Seq(Msg), NEW i \in Ifs,
         LastTrue(i, s), NodeTrue(i, s), Alternate(i, s),
         nodes' = nodes, attr' = attr, NoneOf(AddrsOf(i), x),
         kif'[i].addrs = kif[i].addrs, DumpToCome => DumpToCome' \/ kif[i].addrs = {}
  PROVE  LastTrue(i, s \o x)' /\ NodeTrue(i, s \o x)' /\ Alternate(i, s \o x)'
<1>0. FindOrAdd(i)' = FindOrAdd(i)
  BY DEF FindOrAdd
<1>1. LastTrue(i, s \o x)'
  <2> DEFINE sx == s \o x
  <2>2. Joined(s, x, sx)
    BY JoinedConcat
  <2> HIDE DEF sx
  <2>1. ASSUME NEW j, LastOf(AddrsOf(i), sx, j)
        PROVE  LastOf(AddrsOf(i), s, j) /\ sx[j] = s[j]
    <3>1. ~\E k : LastOf(AddrsOf(i), x, k)
      BY DEF LastOf, NoneOf
    <3> QED
      BY <2>1, <2>2, <3>1, LastAppend
  <2> QED
    BY <2>1 DEF LastTrue, sx
<1>2. NodeTrue(i, s \o x)'
  <2>1. NoneOf(AddrsOf(i), s \o x) => NoneOf(AddrsOf(i), s)
    BY NoneAppend
  <2> QED
    BY <1>0, <2>1 DEF NodeTrue
<1>3. Alternate(i, s \o x)'
  <2> SUFFICES ASSUME NEW j \in DOMAIN (s \o x), (s \o x)[j] \in Deletions(i)
               PROVE  Follows(i, s \o x, j)'
    BY DEF Alternate
  <2>1. /\ Len(s) \in Nat /\ Len(x) \in Nat /\ DOMAIN s = 1 .. Len(s) /\ DOMAIN x = 1 .. Len(x)
        /\ j \in 1 .. Len(s) + Len(x)
        /\ \A k \in 1 .. Len(s) : (s \o x)[k] = s[k]
        /\ \A k \in 1 .. Len(x) : (s \o x)[Len(s) + k] = x[k]
    OBVIOUS
  <2>2. j \in 1 .. Len(s)
    <3> SUFFICES ASSUME j > Len(s)
                 PROVE  FALSE
      BY <2>1
    <3>1. j - Len(s) \in 1 .. Len(x) /\ Len(s) + (j - Len(s)) = j
      BY <2>1
    <3>2. x[j - Len(s)] \in AddrsOf(i)
      BY <2>1, <3>1 DEF Deletions
    <3> QED
      BY <2>1, <3>1, <3>2 DEF NoneOf
  <2>3. Follows(i, s, j)
    BY <2>1, <2>2 DEF Alternate
  <2>4. \A k \in 1 .. j - 1 : k \in 1 .. Len(s) /\ \A l \in k + 1 .. j - 1 : l \in 1 .. Len(s)
    BY <2>1, <2>2
  <2> QED
    BY <1>0, <2>1, <2>3, <2>4 DEF Follows
<1> QED
  BY <1>1, <1>2, <1>3

\* Where x ends with a message that is true of the address of i, and has a
\* deletion only as the first and when there was an address.
LEMMA AddrsAppend ==
  ASSUME NEW s \in Seq(Msg), NEW x \in Seq(Msg), NEW i \in Ifs,
         LastTrue(i, s), NodeTrue(i, s), Alternate(i, s),
         nodes' = nodes, attr' = attr, ~NoneOf(AddrsOf(i), x),
         \A j : LastOf(AddrsOf(i), x, j) =>
           IF x[j].type = "DELADDR" THEN kif'[i].addrs = {} ELSE x[j].addr \in kif'[i].addrs,
         \A j \in DOMAIN x : x[j] \in Deletions(i) =>
           /\ \A k \in 1 .. j - 1 : x[k] \notin AddrsOf(i)
           /\ kif[i].addrs # {}
  PROVE  LastTrue(i, s \o x)' /\ NodeTrue(i, s \o x)' /\ Alternate(i, s \o x)'
<1> DEFINE sx == s \o x
<1>0. FindOrAdd(i)' = FindOrAdd(i)
  BY DEF FindOrAdd
<1>1. LastTrue(i, sx)'
  <2>2. Joined(s, x, sx)
    BY JoinedConcat
  <2> HIDE DEF sx
  <2>1. ASSUME NEW j, LastOf(AddrsOf(i), sx, j)
        PROVE  \E k : LastOf(AddrsOf(i), x, k) /\ sx[j] = x[k]
    BY <2>1, <2>2, LastAppend
  <2> QED
    BY <2>1 DEF LastTrue
<1>2. NodeTrue(i, sx)'
  <2>1. ~NoneOf(AddrsOf(i), sx)
    BY NoneAppend
  <2> QED
    BY <2>1 DEF NodeTrue
<1>3. Alternate(i, sx)'
  <2> SUFFICES ASSUME NEW j \in DOMAIN sx, sx[j] \in Deletions(i)
               PROVE  Follows(i, sx, j)'
    BY DEF Alternate
  <2>1. /\ Len(s) \in Nat /\ Len(x) \in Nat /\ DOMAIN s = 1 .. Len(s) /\ DOMAIN x = 1 .. Len(x)
        /\ j \in 1 .. Len(s) + Len(x)
        /\ \A k \in 1 .. Len(s) : sx[k] = s[k]
        /\ \A k \in 1 .. Len(x) : sx[Len(s) + k] = x[k]
    OBVIOUS
  <2> HIDE DEF sx
  <2>2. CASE j \in 1 .. Len(s)
    <3>1. Follows(i, s, j)
      BY <2>1, <2>2 DEF Alternate
    <3>2. \A k \in 1 .. j - 1 : k \in 1 .. Len(s) /\ \A l \in k + 1 .. j - 1 : l \in 1 .. Len(s)
      BY <2>1, <2>2
    <3> QED
      BY <1>0, <2>1, <3>1, <3>2 DEF Follows
  <2>3. CASE j \notin 1 .. Len(s)
    <3>1. j - Len(s) \in 1 .. Len(x) /\ Len(s) + (j - Len(s)) = j
      BY <2>1, <2>3
    <3>2. x[j - Len(s)] \in Deletions(i)
      BY <2>1, <3>1
    <3>3. kif[i].addrs # {} /\ \A k \in 1 .. j - Len(s) - 1 : x[k] \notin AddrsOf(i)
      BY <2>1, <3>1, <3>2
    <3>4. ASSUME NEW l \in Len(s) + 1 .. j - 1
          PROVE  sx[l] \notin AddrsOf(i)
      <4>1. l - Len(s) \in 1 .. j - Len(s) - 1 /\ l - Len(s) \in 1 .. Len(x)
            /\ Len(s) + (l - Len(s)) = l
        BY <2>1, <3>1
      <4> QED
        BY <2>1, <3>3, <4>1
    <3>5. CASE NoneOf(AddrsOf(i), s)
      <4>1. FindOrAdd(i).current_state # "IF_DELADDR"
        BY <3>3, <3>5 DEF NodeTrue
      <4>2. ASSUME NEW k \in 1 .. j - 1
            PROVE  sx[k] \notin AddrsOf(i)
        <5>1. k \in 1 .. Len(s) \/ k \in Len(s) + 1 .. j - 1
          BY <2>1
        <5> QED
          BY <2>1, <3>4, <3>5, <5>1 DEF NoneOf
      <4> QED
        BY <1>0, <4>1, <4>2 DEF Follows
    <3>6. CASE ~NoneOf(AddrsOf(i), s)
      <4>1. PICK k : LastOf(AddrsOf(i), s, k)
        BY <3>6, LastExists
      <4>2. k \in 1 .. Len(s) /\ s[k] \in AddrsOf(i) /\ s[k].type # "DELADDR"
            /\ \A l \in 1 .. Len(s) : l > k => s[l] \notin AddrsOf(i)
        BY <2>1, <3>3, <4>1 DEF LastTrue, LastOf
      <4>3. sx[k] = s[k] /\ s[k] \in News(i)
        <5>1. s[k] \in Msg
          BY <2>1, <4>2
        <5> QED
          BY <2>1, <4>2, <5>1, Kinds
      <4>4. ASSUME NEW l \in k + 1 .. j - 1
            PROVE  sx[l] \notin AddrsOf(i)
        <5>1. (l \in 1 .. Len(s) /\ l > k) \/ l \in Len(s) + 1 .. j - 1
          BY <2>1, <4>2
        <5> QED
          BY <2>1, <3>4, <4>2, <5>1
      <4>5. k \in 1 .. j - 1
        BY <2>1, <2>3, <4>2
      <4> QED
        BY <4>3, <4>4, <4>5 DEF Follows
    <3> QED
      BY <3>5, <3>6
  <2> QED
    BY <2>2, <2>3
<1> QED
  BY <1>1, <1>2, <1>3

-----------------------------------------------------------------------------
(* What leaves the front of the pipe.                                      *)

LEMMA LinksTake ==
  ASSUME NEW s \in Seq(Msg), s # <<>>, LinksIn(s), announced' = announced, kif' = kif,
         nodes \subseteq nodes',
         \A i \in announced :
           IF s[1] \in LinksOf(i) THEN i \in nodes' /\ attr'[i].link = s[1].link
                                  ELSE i \in nodes => attr'[i].link = attr[i].link
  PROVE  LinksIn(Tail(s))'
<1> SUFFICES ASSUME NEW i \in announced
             PROVE  /\ \A j : LastOf(LinksOf(i), Tail(s), j) => Tail(s)[j].link = kif[i].link
                    /\ NoneOf(LinksOf(i), Tail(s)) => i \in nodes' /\ attr'[i].link = kif[i].link
  BY DEF LinksIn
<1>1. /\ \A j : LastOf(LinksOf(i), s, j) => s[j].link = kif[i].link
      /\ NoneOf(LinksOf(i), s) => i \in nodes /\ attr[i].link = kif[i].link
  BY DEF LinksIn
<1>2. ASSUME NEW j, LastOf(LinksOf(i), Tail(s), j)
      PROVE  Tail(s)[j].link = kif[i].link
  <2>1. LastOf(LinksOf(i), s, j + 1) /\ Tail(s)[j] = s[j + 1]
    BY <1>2, LastTail
  <2> QED
    BY <1>1, <2>1
<1>3. ASSUME NoneOf(LinksOf(i), Tail(s))
      PROVE  i \in nodes' /\ attr'[i].link = kif[i].link
  <2>1. IF s[1] \in LinksOf(i) THEN LastOf(LinksOf(i), s, 1) ELSE NoneOf(LinksOf(i), s)
    BY <1>3, NoneTail
  <2> QED
    BY <1>1, <2>1
<1> QED
  BY <1>2, <1>3

LEMMA NewsTake ==
  ASSUME NEW s \in Seq(Msg), s # <<>>, NewsIn(s), kif' = kif,
         \A i \in Ifs :
           /\ s[1] \notin MsgsOf(i) => FindOrAdd(i)' = FindOrAdd(i)
           /\ s[1] \in MsgsOf(i) =>
                IF s[1] \in News(i) THEN FindOrAdd(i)'.ipaddr = s[1].addr
                                    ELSE FindOrAdd(i)'.current_state # "IF_NEWADDR"
  PROVE  NewsIn(Tail(s))'
<1> SUFFICES ASSUME NEW i \in Ifs
             PROVE  /\ \A j : LastOf(MsgsOf(i), Tail(s), j) /\ Tail(s)[j] \in News(i) =>
                                Tail(s)[j].addr \in kif[i].addrs
                    /\ NoneOf(MsgsOf(i), Tail(s))
                         /\ FindOrAdd(i)'.current_state = "IF_NEWADDR" =>
                       FindOrAdd(i)'.ipaddr \in kif[i].addrs
  BY DEF NewsIn
<1>1. /\ \A j : LastOf(MsgsOf(i), s, j) /\ s[j] \in News(i) => s[j].addr \in kif[i].addrs
      /\ NoneOf(MsgsOf(i), s) /\ FindOrAdd(i).current_state = "IF_NEWADDR" =>
           FindOrAdd(i).ipaddr \in kif[i].addrs
  BY DEF NewsIn
<1>2. ASSUME NEW j, LastOf(MsgsOf(i), Tail(s), j), Tail(s)[j] \in News(i)
      PROVE  Tail(s)[j].addr \in kif[i].addrs
  <2>1. LastOf(MsgsOf(i), s, j + 1) /\ Tail(s)[j] = s[j + 1]
    BY <1>2, LastTail
  <2> QED
    BY <1>1, <1>2, <2>1
<1>3. ASSUME NoneOf(MsgsOf(i), Tail(s)), FindOrAdd(i)'.current_state = "IF_NEWADDR"
      PROVE  FindOrAdd(i)'.ipaddr \in kif[i].addrs
  <2>1. IF s[1] \in MsgsOf(i) THEN LastOf(MsgsOf(i), s, 1) ELSE NoneOf(MsgsOf(i), s)
    BY <1>3, NoneTail
  <2> QED
    BY <1>1, <1>3, <2>1
<1> QED
  BY <1>2, <1>3

\* A deletion clears the address because it does not follow another one.
LEMMA AddrsTake ==
  ASSUME NEW s \in Seq(Msg), s # <<>>, NEW i \in Ifs, kif' = kif, DumpToCome => DumpToCome',
         LastTrue(i, s), NodeTrue(i, s), Alternate(i, s),
         s[1] \notin AddrsOf(i) =>
           /\ FindOrAdd(i)'.ipaddr = FindOrAdd(i).ipaddr
           /\ FindOrAdd(i)'.current_state = "IF_DELADDR" =>
                FindOrAdd(i).current_state = "IF_DELADDR",
         s[1] \in News(i) =>
           /\ FindOrAdd(i)'.ipaddr = s[1].addr
           /\ FindOrAdd(i)'.current_state # "IF_DELADDR",
         s[1] \in Deletions(i) /\ FindOrAdd(i).current_state # "IF_DELADDR" =>
           FindOrAdd(i)'.ipaddr = NoAddr
  PROVE  LastTrue(i, Tail(s))' /\ NodeTrue(i, Tail(s))' /\ Alternate(i, Tail(s))'
<1>1. /\ Len(s) \in Nat /\ Len(s) >= 1 /\ DOMAIN s = 1 .. Len(s)
      /\ DOMAIN Tail(s) = 1 .. Len(s) - 1
      /\ \A k \in 1 .. Len(s) - 1 : Tail(s)[k] = s[k + 1] /\ k + 1 \in 1 .. Len(s)
      /\ 1 \in DOMAIN s /\ s[1] \in Msg
  OBVIOUS
<1>2. /\ s[1] \in AddrsOf(i) <=> s[1] \in News(i) \/ s[1] \in Deletions(i)
      /\ s[1] \in News(i) => s[1].type = "NEWADDR"
      /\ s[1] \in Deletions(i) => s[1].type = "DELADDR"
  BY <1>1, Kinds
<1>3. LastTrue(i, Tail(s))'
  <2>1. ASSUME NEW j, LastOf(AddrsOf(i), Tail(s), j)
        PROVE  LastOf(AddrsOf(i), s, j + 1) /\ Tail(s)[j] = s[j + 1]
    BY <2>1, LastTail
  <2> QED
    BY <2>1 DEF LastTrue
<1>4. NodeTrue(i, Tail(s))'
  <2> SUFFICES ASSUME NoneOf(AddrsOf(i), Tail(s))
               PROVE  /\ kif[i].addrs = {} => FindOrAdd(i)'.ipaddr = NoAddr
                      /\ kif[i].addrs # {} /\ ~DumpToCome' =>
                           FindOrAdd(i)'.ipaddr \in kif[i].addrs
                      /\ FindOrAdd(i)'.current_state = "IF_DELADDR" => kif[i].addrs = {}
    BY DEF NodeTrue
  <2>1. IF s[1] \in AddrsOf(i) THEN LastOf(AddrsOf(i), s, 1) ELSE NoneOf(AddrsOf(i), s)
    BY NoneTail
  <2>2. CASE s[1] \in News(i)
    <3>1. s[1].addr \in kif[i].addrs
      BY <1>2, <2>1, <2>2 DEF LastTrue
    <3> QED
      BY <2>2, <3>1
  <2>3. CASE s[1] \in Deletions(i)
    <3>1. kif[i].addrs = {}
      BY <1>2, <2>1, <2>3 DEF LastTrue
    <3>2. Follows(i, s, 1)
      BY <1>1, <2>3 DEF Alternate
    <3>3. FindOrAdd(i).current_state # "IF_DELADDR"
      BY <3>2 DEF Follows
    <3> QED
      BY <2>3, <3>1, <3>3
  <2>4. CASE s[1] \notin AddrsOf(i)
    BY <2>1, <2>4 DEF NodeTrue
  <2> QED
    BY <1>2, <2>2, <2>3, <2>4
<1>5. Alternate(i, Tail(s))'
  <2> SUFFICES ASSUME NEW j \in DOMAIN Tail(s), Tail(s)[j] \in Deletions(i)
               PROVE  Follows(i, Tail(s), j)'
    BY DEF Alternate
  <2>1. j \in 1 .. Len(s) - 1 /\ s[j + 1] \in Deletions(i) /\ j + 1 \in DOMAIN s
    BY <1>1
  <2>2. Follows(i, s, j + 1)
    BY <2>1 DEF Alternate
  <2>3. ASSUME \A k \in 2 .. j : s[k] \notin AddrsOf(i),
               FindOrAdd(i)'.current_state # "IF_DELADDR"
        PROVE  Follows(i, Tail(s), j)'
    <3>1. ASSUME NEW k \in 1 .. j - 1
          PROVE  Tail(s)[k] \notin AddrsOf(i)
      <4>1. k + 1 \in 2 .. j /\ Tail(s)[k] = s[k + 1]
        BY <1>1, <2>1
      <4> QED
        BY <2>3, <4>1
    <3> QED
      BY <2>3, <3>1 DEF Follows
  <2>4. ASSUME NEW k \in 1 .. j, s[k] \in News(i), \A l \in k + 1 .. j : s[l] \notin AddrsOf(i)
        PROVE  Follows(i, Tail(s), j)'
    <3>1. CASE k = 1
      BY <2>3, <2>4, <3>1
    <3>2. CASE k # 1
      <4>1. k - 1 \in 1 .. j - 1 /\ Tail(s)[k - 1] = s[k]
        <5>1. k - 1 \in 1 .. Len(s) - 1 /\ k - 1 + 1 = k /\ k - 1 \in 1 .. j - 1
          BY <1>1, <2>1, <3>2
        <5> QED
          BY <1>1, <5>1
      <4>2. ASSUME NEW l \in k - 1 + 1 .. j - 1
            PROVE  Tail(s)[l] \notin AddrsOf(i)
        <5>1. l + 1 \in k + 1 .. j /\ Tail(s)[l] = s[l + 1]
          BY <1>1, <2>1
        <5> QED
          BY <2>4, <5>1
      <4> QED
        BY <2>4, <4>1, <4>2 DEF Follows
    <3> QED
      BY <3>1, <3>2
  <2>5. CASE \A k \in 1 .. j : s[k] \notin AddrsOf(i)
    <3>1. s[1] \notin AddrsOf(i) /\ \A k \in 2 .. j : s[k] \notin AddrsOf(i)
      BY <2>1, <2>5
    <3>2. FindOrAdd(i).current_state # "IF_DELADDR"
      <4>1. ~\E k \in 1 .. j + 1 - 1 : s[k] \in News(i)
        BY <2>1, <2>5 DEF News
      <4> QED
        BY <2>2, <4>1 DEF Follows
    <3> QED
      BY <2>3, <3>1, <3>2
  <2>6. CASE \E k \in 1 .. j : s[k] \in News(i) /\ \A l \in k + 1 .. j : s[l] \notin AddrsOf(i)
    BY <2>4, <2>6
  <2>7. PICK n : n = j + 1 /\ n - 1 = j
    BY <2>1
  <2>8. \/ \E k \in 1 .. j : s[k] \in News(i) /\ \A l \in k + 1 .. j : s[l] \notin AddrsOf(i)
        \/ \A k \in 1 .. j : s[k] \notin AddrsOf(i)
    <3>1. Follows(i, s, n)
      BY <2>2, <2>7
    <3>2. \/ \E k \in 1 .. n - 1 :
               s[k] \in News(i) /\ \A l \in k + 1 .. n - 1 : s[l] \notin AddrsOf(i)
          \/ \A k \in 1 .. n - 1 : s[k] \notin AddrsOf(i)
      BY <3>1 DEF Follows
    <3> QED
      BY <2>7, <3>2
  <2> QED
    BY <2>5, <2>6, <2>8
<1> QED
  BY <1>3, <1>4, <1>5

-----------------------------------------------------------------------------
(* The steps of the kernel.                                                *)

\* Without a loss every datagram reaches the receive buffer.
LEMMA DeliverAll ==
  ASSUME TypeOK, NEW dgs \in Seq(Seq(Msg)), Deliver(dgs), bound, ~lost'
  PROVE  rxq' = rxq \o dgs /\ ~lost
<1> USE NetifAssumption
<1> DEFINE room == RcvBuf - Len(rxq)
           fit == IF Len(dgs) <= room THEN Len(dgs) ELSE room
<1>1. rxq' = rxq \o SubSeq(dgs, 1, fit) /\ lost' = (lost \/ fit < Len(dgs))
  BY DEF Deliver
<1>2. Len(dgs) \in Nat /\ room \in Nat
  BY DEF TypeOK
<1>3. fit = Len(dgs)
  <2>1. ~(fit < Len(dgs))
    BY <1>1
  <2> QED
    BY <1>2, <2>1
<1>4. SubSeq(dgs, 1, Len(dgs)) = dgs
  BY SubSeqFull
<1> QED
  BY <1>1, <1>3, <1>4

\* What the kernel sends joins the end of the pipe.
LEMMA KernelPipe ==
  ASSUME CInv, KernelStep, bound, ~lost', NEW x \in Seq(Msg), NEW dgs \in Seq(Seq(Msg)),
         Len(dgs) = Len(x), \A k \in 1 .. Len(x) : dgs[k] = <<x[k]>>, Deliver(dgs)
  PROVE  /\ nodes' = nodes /\ attr' = attr /\ (DumpToCome' <=> DumpToCome)
         /\ \E s \in Seq(Msg) : PipeTrue(s) /\ Pipe(s \o x)'
<1>1. TypeOK
  BY DEF CInv, IInv
<1>2. rxq' = rxq \o dgs /\ ~lost
  BY <1>1, DeliverAll
<1>3. UNCHANGED <<bound, dumpDue, mpc, buff, nodes, attr>>
  BY DEF KernelStep, listVars
<1>4. PICK s : Pipe(s) /\ PipeTrue(s)
  BY <1>2 DEF CInv, PipeInv
<1>5. s \in Seq(Msg) /\ IsPipe(s, buff, rxq)
  BY <1>4 DEF Pipe, IsPipe
<1>6. IsPipe(s \o x, buff, rxq \o dgs)
  BY <1>1, <1>5, PipeAppendSingles DEF TypeOK
<1>7. Pipe(s \o x)'
  BY <1>2, <1>3, <1>6 DEF Pipe
<1>8. DumpToCome' <=> DumpToCome
  BY <1>3 DEF DumpToCome
<1> QED
  BY <1>3, <1>4, <1>5, <1>7, <1>8

\* A socket that is not bound misses what it did not subscribe to.
LEMMA UnboundTrue ==
  IInv /\ Unbound /\ ~bound /\ (MaxAddrs = 1 => AtMostOne) => PipeInv
<1> SUFFICES ASSUME IInv, Unbound, ~bound, MaxAddrs = 1 => AtMostOne
             PROVE  PipeInv
  OBVIOUS
<1>1. rxq = <<>> /\ buff = <<>> /\ nodes = {} /\ announced = {}
  BY DEF Unbound
<1>2. Pipe(<<>>)
  BY <1>1, PipeEmpty DEF Pipe
<1>3. DumpToCome
  BY DEF IInv, Subscribed, DumpToCome, BeforeDump
<1>4. \A i : FindOrAdd(i).current_state = "none" /\ FindOrAdd(i).ipaddr = NoAddr
  BY <1>1 DEF FindOrAdd, ClearAttr
<1>5. DOMAIN <<>> = {}
  OBVIOUS
<1>6. LinksIn(<<>>)
  BY <1>1 DEF LinksIn
<1>7. NewsIn(<<>>)
  BY <1>4, <1>5 DEF NewsIn, LastOf
<1>8. \A i \in Ifs : LastTrue(i, <<>>) /\ NodeTrue(i, <<>>) /\ Alternate(i, <<>>)
  BY <1>3, <1>4, <1>5 DEF LastTrue, NodeTrue, Alternate, LastOf
<1> QED
  BY <1>2, <1>6, <1>7, <1>8 DEF PipeInv, PipeTrue, AddrsIn

\* A step of the kernel that keeps the pipe true keeps the invariant.
LEMMA KernelStepKeeps ==
  ASSUME CInv, IInv', KernelStep, announced' = announced \/ bound,
         NEW dgs \in Seq(Seq(Msg)), Deliver(dgs),
         MaxAddrs = 1 /\ AtMostOne => AtMostOne',
         bound /\ ~lost' => \E s : Pipe(s)' /\ PipeTrue(s)'
  PROVE  CInv'
<1>1. UNCHANGED <<bound, buff, nodes>>
  BY DEF KernelStep, listVars
<1>2. CASE bound
  BY <1>1, <1>2 DEF CInv, Unbound, PipeInv
<1>3. CASE ~bound
  <2>1. rxq' = rxq /\ (lost' <=> lost) /\ announced' = announced
    BY <1>3 DEF Deliver
  <2>2. Unbound'
    BY <1>1, <2>1 DEF CInv, Unbound
  <2>3. CASE lost
    BY <2>1, <2>2, <2>3 DEF CInv, PipeInv
  <2>4. CASE ~lost
    <3>1. (MaxAddrs = 1 => AtMostOne)'
      BY <2>4 DEF CInv, PipeInv, PipeTrue, AddrsIn
    <3>2. (IInv /\ Unbound /\ ~bound /\ (MaxAddrs = 1 => AtMostOne))'
      BY <1>1, <1>3, <2>2, <3>1
    <3>3. (IInv /\ Unbound /\ ~bound /\ (MaxAddrs = 1 => AtMostOne) => PipeInv)'
      BY UnboundTrue, PTL
    <3> QED
      BY <2>2, <3>2, <3>3 DEF CInv
  <2> QED
    BY <2>3, <2>4
<1> QED
  BY <1>2, <1>3

\* A message about the link of i, whose flags it has
LEMMA LinkSent ==
  ASSUME CInv, KernelStep, bound, ~lost', NEW i \in Ifs, NEW m \in LinkMsg, m.name = i,
         Deliver(<<<<m>>>>), kif'[i].link = m.link, announced' = announced \cup {i},
         \A j \in Ifs : kif'[j].addrs = kif[j].addrs /\ (j # i => kif'[j].link = kif[j].link)
  PROVE  \E s : Pipe(s)' /\ PipeTrue(s)'
<1> DEFINE x == <<m>>
           dgs == <<<<m>>>>
<1>1. /\ m \in Msg /\ x \in Seq(Msg) /\ DOMAIN x = {1} /\ Len(x) = 1 /\ x[1] = m
      /\ dgs \in Seq(Seq(Msg)) /\ Len(dgs) = 1 /\ dgs[1] = <<x[1]>>
  BY DEF Msg
<1>2. announced \subseteq Ifs
  BY DEF CInv, IInv, TypeOK
<1>3. m \in LinksOf(i) /\ m \in MsgsOf(i) /\ m \notin News(i)
      /\ \A j : m \notin AddrsOf(j) /\ (j # i => m \notin LinksOf(j) /\ m \notin MsgsOf(j))
  <2>1. m.type \in {"NEWLINK", "DELLINK"}
    BY DEF LinkMsg
  <2> QED
    BY <1>1, <2>1, Kinds
<1>4. Deliver(dgs)
  OBVIOUS
<1> HIDE DEF x, dgs
<1>5. \A k \in 1 .. Len(x) : dgs[k] = <<x[k]>>
  BY <1>1
<1>6. PICK s \in Seq(Msg) : PipeTrue(s) /\ Pipe(s \o x)'
  BY <1>1, <1>4, <1>5, KernelPipe
<1>7. nodes' = nodes /\ attr' = attr /\ (DumpToCome' <=> DumpToCome)
  BY <1>1, <1>4, <1>5, KernelPipe
<1>8. LinksIn(s \o x)'
  <2>1. ASSUME NEW j \in announced'
        PROVE  /\ \A k : LastOf(LinksOf(j), x, k) => x[k].link = kif'[j].link
               /\ NoneOf(LinksOf(j), x) => j \in announced /\ kif'[j].link = kif[j].link
    <3>1. CASE j = i
      BY <1>1, <1>3, <3>1 DEF LastOf, NoneOf
    <3>2. CASE j # i
      BY <1>1, <1>2, <1>3, <3>2 DEF LastOf
    <3> QED
      BY <3>1, <3>2
  <2> QED
    BY <1>1, <1>6, <1>7, <2>1, LinksAppend DEF PipeTrue
<1>9. NewsIn(s \o x)'
  <2>1. ASSUME NEW j \in Ifs
        PROVE  /\ \A k : LastOf(MsgsOf(j), x, k) /\ x[k] \in News(j) =>
                           x[k].addr \in kif'[j].addrs
               /\ NoneOf(MsgsOf(j), x) => kif'[j].addrs = kif[j].addrs
    BY <1>1, <1>3 DEF LastOf, News
  <2> QED
    BY <1>1, <1>6, <1>7, <2>1, NewsAppend DEF PipeTrue
<1>10. ASSUME MaxAddrs = 1
       PROVE  AddrsIn(s \o x)'
  <2>1. AtMostOne'
    BY <1>6, <1>10 DEF PipeTrue, AddrsIn, AtMostOne
  <2>2. ASSUME NEW j \in Ifs
        PROVE  LastTrue(j, s \o x)' /\ NodeTrue(j, s \o x)' /\ Alternate(j, s \o x)'
    <3>1. LastTrue(j, s) /\ NodeTrue(j, s) /\ Alternate(j, s)
      BY <1>6, <1>10 DEF PipeTrue, AddrsIn
    <3>2. NoneOf(AddrsOf(j), x)
      BY <1>1, <1>3 DEF NoneOf
    <3> QED
      BY <1>1, <1>7, <3>1, <3>2, AddrsStay
  <2> QED
    BY <2>1, <2>2 DEF AddrsIn
<1> QED
  BY <1>6, <1>8, <1>9, <1>10 DEF PipeTrue

LEMMA NewLinkCurrent ==
  ASSUME CInv, NEW i \in Ifs, NEW link \in LinkFlags, KernelNewLink(i, link)
  PROVE  CInv'
<1> DEFINE m == [type |-> "NEWLINK", name |-> i, link |-> link]
<1>1. /\ KernelStep /\ Deliver(<<<<m>>>>)
      /\ announced' = IF bound THEN announced \cup {i} ELSE announced
  BY DEF KernelNewLink, LinkUpdate, Announce
<1>2. m \in LinkMsg /\ m.name = i /\ m.link = link
  BY DEF LinkMsg
<1>3. <<<<m>>>> \in Seq(Seq(Msg))
  BY <1>2 DEF Msg
<1>4. kif'[i].link = link
      /\ \A j \in Ifs : kif'[j].addrs = kif[j].addrs /\ (j # i => kif'[j].link = kif[j].link)
  <2>1. kif \in KifType
    BY DEF CInv, IInv, TypeOK, KifType
  <2>2. kif' = [kif EXCEPT ![i].exists = TRUE, ![i].link = link]
    BY DEF KernelNewLink
  <2> QED
    BY <2>1, <2>2 DEF KifType
<1>5. IInv'
  BY KernelNewLinkKeeps DEF CInv
<1> HIDE DEF m
<1>6. AtMostOne => AtMostOne'
  BY <1>4 DEF AtMostOne
<1>7. bound /\ ~lost' => \E s : Pipe(s)' /\ PipeTrue(s)'
  BY <1>1, <1>2, <1>4, LinkSent
<1> QED
  BY <1>1, <1>3, <1>5, <1>6, <1>7, KernelStepKeeps

LEMMA LeaveBridgeCurrent ==
  ASSUME CInv, NEW i \in Ifs, KernelLeaveBridge(i)
  PROVE  CInv'
<1> DEFINE m == [type |-> "DELLINK", name |-> i, link |-> kif[i].link]
<1>1. /\ KernelStep /\ Deliver(<<<<m>>>>) /\ kif' = kif
      /\ announced' = IF bound THEN announced \cup {i} ELSE announced
  BY DEF KernelLeaveBridge, LinkUpdate, Announce
<1>2. m \in LinkMsg /\ m.name = i /\ m.link = kif[i].link
  BY DEF LinkMsg, CInv, IInv, TypeOK
<1>3. <<<<m>>>> \in Seq(Seq(Msg))
  BY <1>2 DEF Msg
<1>4. IInv'
  BY KernelLeaveBridgeKeeps DEF CInv
<1> HIDE DEF m
<1>5. AtMostOne => AtMostOne'
  BY <1>1 DEF AtMostOne
<1>6. bound /\ ~lost' => \E s : Pipe(s)' /\ PipeTrue(s)'
  BY <1>1, <1>2, LinkSent
<1> QED
  BY <1>1, <1>3, <1>4, <1>5, <1>6, KernelStepKeeps

\* A message about an address of i
LEMMA AddrSent ==
  ASSUME CInv, KernelStep, bound, ~lost', NEW i \in Ifs, NEW m \in AddrMsg, m.name = i,
         Deliver(<<<<m>>>>), announced' = announced,
         \A j \in Ifs : kif'[j].link = kif[j].link /\ (j # i => kif'[j].addrs = kif[j].addrs),
         m.type = "NEWADDR" => m.addr \in kif'[i].addrs,
         m.type = "DELADDR" => kif[i].addrs # {},
         MaxAddrs = 1 /\ AtMostOne =>
           AtMostOne' /\ (m.type = "DELADDR" => kif'[i].addrs = {})
  PROVE  \E s : Pipe(s)' /\ PipeTrue(s)'
<1> DEFINE x == <<m>>
           dgs == <<<<m>>>>
<1>1. /\ m \in Msg /\ x \in Seq(Msg) /\ DOMAIN x = {1} /\ Len(x) = 1 /\ x[1] = m
      /\ dgs \in Seq(Seq(Msg)) /\ Len(dgs) = 1 /\ dgs[1] = <<x[1]>>
  BY DEF Msg
<1>2. announced \subseteq Ifs
  BY DEF CInv, IInv, TypeOK
<1>3. /\ m.type \in {"NEWADDR", "DELADDR"}
      /\ m \in AddrsOf(i) /\ m \in MsgsOf(i)
      /\ m \in News(i) <=> m.type = "NEWADDR"
      /\ m \in Deletions(i) <=> m.type = "DELADDR"
      /\ \A j : m \notin LinksOf(j) /\ (j # i => m \notin AddrsOf(j) /\ m \notin MsgsOf(j))
  <2>1. m.type \in {"NEWADDR", "DELADDR"}
    BY DEF AddrMsg
  <2> QED
    BY <1>1, <2>1, Kinds
<1>4. Deliver(dgs)
  OBVIOUS
<1> HIDE DEF x, dgs
<1>5. \A k \in 1 .. Len(x) : dgs[k] = <<x[k]>>
  BY <1>1
<1>6. PICK s \in Seq(Msg) : PipeTrue(s) /\ Pipe(s \o x)'
  BY <1>1, <1>4, <1>5, KernelPipe
<1>7. nodes' = nodes /\ attr' = attr /\ (DumpToCome' <=> DumpToCome)
  BY <1>1, <1>4, <1>5, KernelPipe
<1>8. LinksIn(s \o x)'
  <2>1. ASSUME NEW j \in announced'
        PROVE  /\ \A k : LastOf(LinksOf(j), x, k) => x[k].link = kif'[j].link
               /\ NoneOf(LinksOf(j), x) => j \in announced /\ kif'[j].link = kif[j].link
    BY <1>1, <1>2, <1>3 DEF LastOf
  <2> QED
    BY <1>1, <1>6, <1>7, <2>1, LinksAppend DEF PipeTrue
<1>9. NewsIn(s \o x)'
  <2>1. ASSUME NEW j \in Ifs
        PROVE  /\ \A k : LastOf(MsgsOf(j), x, k) /\ x[k] \in News(j) =>
                           x[k].addr \in kif'[j].addrs
               /\ NoneOf(MsgsOf(j), x) => kif'[j].addrs = kif[j].addrs
    <3>1. CASE j = i
      BY <1>1, <1>3, <3>1 DEF LastOf, NoneOf
    <3>2. CASE j # i
      BY <1>1, <1>3, <3>2 DEF LastOf, NoneOf
    <3> QED
      BY <3>1, <3>2
  <2> QED
    BY <1>1, <1>6, <1>7, <2>1, NewsAppend DEF PipeTrue
<1>10. ASSUME MaxAddrs = 1
       PROVE  AddrsIn(s \o x)'
  <2>1. AtMostOne' /\ (m.type = "DELADDR" => kif'[i].addrs = {})
    BY <1>6, <1>10 DEF PipeTrue, AddrsIn
  <2>2. ASSUME NEW j \in Ifs
        PROVE  LastTrue(j, s \o x)' /\ NodeTrue(j, s \o x)' /\ Alternate(j, s \o x)'
    <3>1. LastTrue(j, s) /\ NodeTrue(j, s) /\ Alternate(j, s)
      BY <1>6, <1>10 DEF PipeTrue, AddrsIn
    <3>2. CASE j # i
      <4>1. NoneOf(AddrsOf(j), x)
        BY <1>1, <1>3, <3>2 DEF NoneOf
      <4> QED
        BY <1>1, <1>7, <3>1, <3>2, <4>1, AddrsStay
    <3>3. CASE j = i
      <4>1. ~NoneOf(AddrsOf(i), x)
        BY <1>1, <1>3 DEF NoneOf
      <4>2. \A k : LastOf(AddrsOf(i), x, k) =>
              IF x[k].type = "DELADDR" THEN kif'[i].addrs = {} ELSE x[k].addr \in kif'[i].addrs
        BY <1>1, <1>3, <2>1 DEF LastOf
      <4>3. \A k \in DOMAIN x : x[k] \in Deletions(i) =>
              /\ \A l \in 1 .. k - 1 : x[l] \notin AddrsOf(i)
              /\ kif[i].addrs # {}
        BY <1>1, <1>3
      <4> QED
        BY <1>1, <1>7, <3>1, <3>3, <4>1, <4>2, <4>3, AddrsAppend
    <3> QED
      BY <3>2, <3>3
  <2> QED
    BY <2>1, <2>2 DEF AddrsIn
<1> QED
  BY <1>6, <1>8, <1>9, <1>10 DEF PipeTrue

\* A set of addresses that is not full when one is allowed is empty.
LEMMA SmallSets ==
  ASSUME NEW S \in SUBSET Addrs
  PROVE  /\ Cardinality(S) < 1 => S = {}
         /\ Cardinality(S) <= 1 => \A a, b \in S : a = b
<1>1. IsFiniteSet(S)
  BY NetifAssumption, FS_Subset
<1>2. Cardinality(S) \in Nat /\ (Cardinality(S) = 0 <=> S = {})
  BY <1>1, FS_CardinalityType, FS_EmptySet
<1>3. ASSUME NEW a \in S, NEW b \in S, a # b
      PROVE  Cardinality(S) > 1
  <2>1. IsFiniteSet({a}) /\ Cardinality({a}) = 1
    BY FS_Singleton
  <2>2. Cardinality({a} \cup {b}) = 2 /\ IsFiniteSet({a} \cup {b})
    BY <1>3, <2>1, FS_AddElement
  <2>3. Cardinality({a} \cup {b}) <= Cardinality(S)
    BY <1>1, FS_Subset
  <2> QED
    BY <1>2, <2>2, <2>3
<1> QED
  BY <1>2, <1>3

LEMMA NewAddrCurrent ==
  ASSUME CInv, NEW i \in Ifs, NEW a \in Addrs, KernelNewAddr(i, a)
  PROVE  CInv'
<1> DEFINE m == [type |-> "NEWADDR", name |-> i, addr |-> a]
<1>1. KernelStep /\ Deliver(<<<<m>>>>) /\ announced' = announced
  BY DEF KernelNewAddr, AddrUpdate
<1>2. m \in AddrMsg /\ m.name = i /\ m.addr = a /\ m.type = "NEWADDR"
  BY DEF AddrMsg
<1>3. <<<<m>>>> \in Seq(Seq(Msg))
  BY <1>2 DEF Msg
<1>4. kif \in KifType
  BY DEF CInv, IInv, TypeOK, KifType
<1>5. /\ kif'[i].addrs = kif[i].addrs \cup {a}
      /\ \A j \in Ifs : kif'[j].link = kif[j].link /\ (j # i => kif'[j].addrs = kif[j].addrs)
  <2>1. kif' = [kif EXCEPT ![i].addrs = @ \cup {a}]
    BY DEF KernelNewAddr
  <2> QED
    BY <1>4, <2>1 DEF KifType
<1>6. IInv'
  BY KernelNewAddrKeeps DEF CInv
<1> HIDE DEF m
<1>7. MaxAddrs = 1 /\ AtMostOne => AtMostOne'
  <2> SUFFICES ASSUME MaxAddrs = 1, AtMostOne
               PROVE  AtMostOne'
    OBVIOUS
  <2>1. kif[i].addrs = {}
    <3>1. kif[i].addrs \in SUBSET Addrs /\ Cardinality(kif[i].addrs) < 1
      BY <1>4 DEF KernelNewAddr, KifType
    <3> QED
      BY <3>1, SmallSets
  <2> QED
    BY <1>5, <2>1 DEF AtMostOne
<1>8. bound /\ ~lost' => \E s : Pipe(s)' /\ PipeTrue(s)'
  BY <1>1, <1>2, <1>5, <1>7, AddrSent
<1> QED
  BY <1>1, <1>3, <1>6, <1>7, <1>8, KernelStepKeeps

LEMMA DelAddrCurrent ==
  ASSUME CInv, NEW i \in Ifs, NEW a \in Addrs, KernelDelAddr(i, a)
  PROVE  CInv'
<1> DEFINE m == [type |-> "DELADDR", name |-> i, addr |-> a]
<1>1. KernelStep /\ Deliver(<<<<m>>>>) /\ announced' = announced /\ a \in kif[i].addrs
  BY DEF KernelDelAddr, AddrUpdate
<1>2. m \in AddrMsg /\ m.name = i /\ m.type = "DELADDR"
  BY DEF AddrMsg
<1>3. <<<<m>>>> \in Seq(Seq(Msg))
  BY <1>2 DEF Msg
<1>4. kif \in KifType
  BY DEF CInv, IInv, TypeOK, KifType
<1>5. /\ kif'[i].addrs = kif[i].addrs \ {a}
      /\ \A j \in Ifs : kif'[j].link = kif[j].link /\ (j # i => kif'[j].addrs = kif[j].addrs)
  <2>1. kif' = [kif EXCEPT ![i].addrs = @ \ {a}]
    BY DEF KernelDelAddr
  <2> QED
    BY <1>4, <2>1 DEF KifType
<1>6. IInv'
  BY KernelDelAddrKeeps DEF CInv
<1> HIDE DEF m
<1>7. AtMostOne => AtMostOne' /\ kif'[i].addrs = {}
  BY <1>1, <1>5 DEF AtMostOne
<1>8. bound /\ ~lost' => \E s : Pipe(s)' /\ PipeTrue(s)'
  BY <1>1, <1>2, <1>5, <1>7, AddrSent
<1> QED
  BY <1>1, <1>3, <1>6, <1>7, <1>8, KernelStepKeeps

\* A removed interface: its addresses are deleted, then its link.
LEMMA DelLinkCurrent ==
  ASSUME CInv, NEW i \in Ifs, KernelDelLink(i)
  PROVE  CInv'
<1>1. kif \in KifType /\ announced \subseteq Ifs
  BY DEF CInv, IInv, TypeOK, KifType
<1>2. PICK order \in Orders(kif[i].addrs) :
        Deliver([k \in DOMAIN order |-> AddrUpdate("DELADDR", i, order[k])]
                \o <<LinkUpdate("DELLINK", i, "down")>>)
  BY DEF KernelDelLink
<1> DEFINE del(k) == [type |-> "DELADDR", name |-> i, addr |-> order[k]]
           gone == [type |-> "DELLINK", name |-> i, link |-> "down"]
           dgs == [k \in DOMAIN order |-> <<del(k)>>] \o <<<<gone>>>>
           x == [k \in DOMAIN order |-> del(k)] \o <<gone>>
           n == Cardinality(kif[i].addrs)
<1>3. Deliver(dgs)
  BY <1>2 DEF AddrUpdate, LinkUpdate
<1>4. kif[i].addrs \subseteq Addrs
  BY <1>1 DEF KifType
<1>5. n \in Nat /\ order \in [1..n -> kif[i].addrs] /\ (n = 0 <=> kif[i].addrs = {})
  <2>1. IsFiniteSet(kif[i].addrs)
    BY <1>4, NetifAssumption, FS_Subset
  <2> QED
    BY <2>1, OrdersAreSequences, FS_EmptySet
<1>6. \A k \in 1 .. n : del(k) \in AddrMsg /\ del(k).type = "DELADDR" /\ del(k).name = i
  BY <1>4, <1>5 DEF AddrMsg
<1>7. gone \in LinkMsg /\ gone.type = "DELLINK" /\ gone.name = i /\ gone.link = "down"
  BY DEF LinkMsg, LinkFlags
<1> HIDE DEF del, gone
<1>8. /\ x \in Seq(Msg) /\ Len(x) = n + 1 /\ DOMAIN x = 1 .. n + 1
      /\ \A k \in 1 .. n : x[k] = del(k)
      /\ x[n + 1] = gone
  BY <1>5, <1>6, <1>7 DEF Msg
<1>9. /\ dgs \in Seq(Seq(Msg)) /\ Len(dgs) = Len(x)
      /\ \A k \in 1 .. Len(x) : dgs[k] = <<x[k]>>
  <2>1. /\ dgs \in Seq(Seq(Msg)) /\ Len(dgs) = n + 1
        /\ \A k \in 1 .. n : dgs[k] = <<del(k)>>
        /\ dgs[n + 1] = <<gone>>
    <3> DEFINE item(k) == <<del(k)>>
               front == [k \in 1 .. n |-> item(k)]
               last == <<gone>>
    <3>1. \A k \in 1 .. n : item(k) \in Seq(Msg)
      BY <1>6 DEF Msg
    <3>2. last \in Seq(Msg)
      BY <1>7 DEF Msg
    <3>3. dgs = front \o <<last>>
      BY <1>5
    <3> HIDE DEF item, last, dgs
    <3>4. front \in Seq(Seq(Msg)) /\ Len(front) = n /\ \A k \in 1 .. n : front[k] = item(k)
      BY <1>5, <3>1
    <3> HIDE DEF front
    <3>5. /\ dgs \in Seq(Seq(Msg)) /\ Len(dgs) = n + 1
          /\ \A k \in 1 .. n : dgs[k] = item(k)
          /\ dgs[n + 1] = last
      BY <1>5, <3>2, <3>3, <3>4
    <3> QED
      BY <3>5 DEF item, last
  <2>2. \A k \in 1 .. n + 1 : k \in 1 .. n \/ k = n + 1
    BY <1>5
  <2> QED
    BY <1>8, <2>1, <2>2
<1> HIDE DEF x, dgs
<1>10. \A k \in 1 .. n + 1 : (k \in 1 .. n /\ x[k] = del(k)) \/ (k = n + 1 /\ x[k] = gone)
  BY <1>5, <1>8
<1>11. /\ KernelStep /\ announced' = IF bound THEN announced \cup {i} ELSE announced
  BY DEF KernelDelLink, Announce
<1>12. /\ kif'[i].link = "down" /\ kif'[i].addrs = {}
       /\ \A j \in Ifs : j # i => kif'[j].link = kif[j].link /\ kif'[j].addrs = kif[j].addrs
  <2>1. kif' = [kif EXCEPT ![i] = [exists |-> FALSE, link |-> "down", addrs |-> {}]]
    BY DEF KernelDelLink
  <2> QED
    BY <1>1, <2>1 DEF KifType
<1>13. AtMostOne => AtMostOne'
  BY <1>12 DEF AtMostOne
<1>14. /\ gone \in LinksOf(i) /\ gone \in MsgsOf(i) /\ gone \notin News(i)
       /\ \A j : /\ gone \notin AddrsOf(j)
                 /\ j # i => gone \notin LinksOf(j) /\ gone \notin MsgsOf(j)
  <2>1. gone \in Msg
    BY <1>7 DEF Msg
  <2> QED
    BY <1>7, <2>1, Kinds
<1>15. ASSUME NEW k \in 1 .. n
       PROVE  /\ del(k) \in AddrsOf(i) /\ del(k) \in MsgsOf(i) /\ del(k) \notin News(i)
              /\ \A j : /\ del(k) \notin LinksOf(j)
                        /\ j # i => del(k) \notin AddrsOf(j) /\ del(k) \notin MsgsOf(j)
  <2>1. del(k) \in Msg /\ del(k).type = "DELADDR" /\ del(k).name = i
    BY <1>6 DEF Msg
  <2> QED
    BY <2>1, Kinds
<1>16. \A k \in DOMAIN x : k = n + 1 \/ n + 1 > k
  BY <1>5, <1>8
<1>17. n + 1 \in DOMAIN x
  BY <1>5, <1>8
<1>18. ASSUME bound, ~lost'
       PROVE  \E s : Pipe(s)' /\ PipeTrue(s)'
  <2>1. PICK s \in Seq(Msg) : PipeTrue(s) /\ Pipe(s \o x)'
    BY <1>3, <1>8, <1>9, <1>11, <1>18, KernelPipe
  <2>2. nodes' = nodes /\ attr' = attr /\ (DumpToCome' <=> DumpToCome)
    BY <1>3, <1>8, <1>9, <1>11, <1>18, KernelPipe
  <2>3. ASSUME NEW j, NEW k, LastOf(LinksOf(j), x, k) \/ LastOf(MsgsOf(j), x, k)
        PROVE  j = i /\ x[k] = gone
    <3>1. k \in DOMAIN x /\ (x[k] \in LinksOf(j) \/ x[k] \in MsgsOf(j))
      BY <2>3 DEF LastOf
    <3>2. j = i
      BY <1>8, <1>10, <1>14, <1>15, <3>1
    <3> QED
      BY <1>8, <1>14, <1>16, <1>17, <2>3, <3>1, <3>2 DEF LastOf
  <2>4. ~NoneOf(LinksOf(i), x) /\ ~NoneOf(MsgsOf(i), x)
    BY <1>8, <1>14, <1>17 DEF NoneOf
  <2>5. LinksIn(s \o x)'
    <3>1. ASSUME NEW j \in announced'
          PROVE  /\ \A k : LastOf(LinksOf(j), x, k) => x[k].link = kif'[j].link
                 /\ NoneOf(LinksOf(j), x) => j \in announced /\ kif'[j].link = kif[j].link
      BY <1>1, <1>7, <1>11, <1>12, <2>3, <2>4
    <3> QED
      BY <1>8, <2>1, <2>2, <3>1, LinksAppend DEF PipeTrue
  <2>6. NewsIn(s \o x)'
    <3>1. ASSUME NEW j \in Ifs
          PROVE  /\ \A k : LastOf(MsgsOf(j), x, k) /\ x[k] \in News(j) =>
                             x[k].addr \in kif'[j].addrs
                 /\ NoneOf(MsgsOf(j), x) => kif'[j].addrs = kif[j].addrs
      BY <1>12, <1>14, <2>3, <2>4
    <3> QED
      BY <1>8, <2>1, <2>2, <3>1, NewsAppend DEF PipeTrue
  <2>7. ASSUME MaxAddrs = 1
        PROVE  AddrsIn(s \o x)'
    <3>1. AtMostOne /\ AtMostOne'
      BY <1>13, <2>1, <2>7 DEF PipeTrue, AddrsIn
    <3>2. ASSUME NEW j \in Ifs
          PROVE  LastTrue(j, s \o x)' /\ NodeTrue(j, s \o x)' /\ Alternate(j, s \o x)'
      <4>1. LastTrue(j, s) /\ NodeTrue(j, s) /\ Alternate(j, s)
        BY <2>1, <2>7 DEF PipeTrue, AddrsIn
      <4>2. CASE j # i \/ n = 0
        <5>1. NoneOf(AddrsOf(j), x)
          BY <1>8, <1>10, <1>14, <1>15, <4>2 DEF NoneOf
        <5>2. kif'[j].addrs = kif[j].addrs
          BY <1>5, <1>12, <4>2
        <5> QED
          BY <1>8, <2>2, <4>1, <5>1, <5>2, AddrsStay
      <4>3. CASE j = i /\ n # 0
        <5>1. n = 1
          <6>1. PICK a : kif[i].addrs = {a}
            BY <1>5, <3>1, <4>3 DEF AtMostOne
          <6> QED
            BY <6>1, FS_Singleton
        <5>2. x[1] = del(1) /\ x[2] = gone /\ DOMAIN x = {1, 2}
          BY <1>8, <5>1
        <5>3. /\ del(1) \in AddrsOf(i) /\ gone \notin AddrsOf(i) /\ gone \notin Deletions(i)
              /\ del(1).type = "DELADDR"
          BY <1>6, <1>14, <1>15, <5>1 DEF Deletions
        <5>4. ~NoneOf(AddrsOf(i), x)
          BY <5>2, <5>3 DEF NoneOf
        <5>5. \A k : LastOf(AddrsOf(i), x, k) =>
                IF x[k].type = "DELADDR" THEN kif'[i].addrs = {} ELSE x[k].addr \in kif'[i].addrs
          BY <1>12, <5>2, <5>3 DEF LastOf
        <5>6. \A k \in DOMAIN x : x[k] \in Deletions(i) =>
                /\ \A l \in 1 .. k - 1 : x[l] \notin AddrsOf(i)
                /\ kif[i].addrs # {}
          BY <1>5, <4>3, <5>2, <5>3
        <5> QED
          BY <1>8, <2>2, <4>1, <4>3, <5>4, <5>5, <5>6, AddrsAppend
      <4> QED
        BY <4>2, <4>3
    <3> QED
      BY <3>1, <3>2 DEF AddrsIn
  <2> QED
    BY <2>1, <2>5, <2>6, <2>7 DEF PipeTrue
<1>19. IInv'
  BY KernelDelLinkKeeps DEF CInv
<1> QED
  BY <1>3, <1>9, <1>11, <1>13, <1>18, <1>19, KernelStepKeeps

-----------------------------------------------------------------------------
(* The steps of main.                                                      *)

\* What a dump says of addresses is true.
LEMMA DumpTrue ==
  ASSUME TypeOK, NEW dump \in Dumps, NEW j \in DOMAIN dump
  PROVE  \/ dump[j].type = "DONE"
         \/ /\ dump[j].type = "NEWADDR" /\ dump[j].name \in Ifs
            /\ dump[j].addr \in kif[dump[j].name].addrs
<1> DEFINE entry(ia) == [type |-> "NEWADDR", name |-> ia[1], addr |-> ia[2]]
           n == Cardinality(Assigned)
<1>1. PICK order \in Orders(Assigned) :
        dump = [k \in DOMAIN order |-> entry(order[k])] \o <<[type |-> "DONE"]>>
  BY DEF Dumps
<1>2. n \in Nat /\ order \in [1..n -> Assigned]
  BY OrdersAreSequences, AssignedFinite
<1>3. \A k \in 1..n : /\ order[k][1] \in Ifs /\ order[k][2] \in Addrs
                       /\ order[k][2] \in kif[order[k][1]].addrs
  BY <1>2 DEF Assigned
<1> DEFINE news == [k \in 1..n |-> entry(order[k])]
           done == <<[type |-> "DONE"]>>
<1>4. dump = news \o done
  BY <1>1, <1>2
<1>5. \A k \in 1..n : /\ news[k] \in AddrMsg /\ news[k].type = "NEWADDR"
                       /\ news[k].name \in Ifs /\ news[k].addr \in kif[news[k].name].addrs
  BY <1>3 DEF AddrMsg
<1>6. news \in Seq(Msg) /\ Len(news) = n
  BY <1>2, <1>5 DEF Msg
<1>7. done \in Seq(Msg) /\ Len(done) = 1 /\ done[1].type = "DONE"
  BY DEF Msg
<1> HIDE DEF news, done, entry, n
<1>8. /\ DOMAIN dump = 1..n + 1
      /\ \A k \in 1..n : dump[k] = news[k]
      /\ dump[n + 1] = done[1]
  <2>1. Joined(news, done, dump)
    BY <1>4, <1>6, <1>7, JoinedConcat
  <2>2. 1 \in 1..Len(done)
    BY <1>7
  <2> QED
    BY <1>6, <1>7, <2>1, <2>2 DEF Joined
<1>9. j \in 1..n \/ j = n + 1
  BY <1>2, <1>8
<1> QED
  BY <1>5, <1>7, <1>8, <1>9

\* The dump joins the end of the pipe.
LEMMA DumpSent ==
  ASSUME TypeOK, NEW dump \in Dumps, NEW s \in Seq(Msg), PipeTrue(s),
         UNCHANGED <<kif, nodes, attr, announced>>
  PROVE  PipeTrue(s \o dump)'
<1>1. /\ dump \in Seq(Msg)
      /\ \A i \in Ifs : kif[i].addrs # {} => About(i, dump)
  BY DumpComplete
<1>2. \A j \in DOMAIN dump : dump[j] \in Msg
  BY <1>1
<1>3. ASSUME NEW i, NEW j \in DOMAIN dump
      PROVE  /\ dump[j] \notin LinksOf(i) /\ dump[j] \notin Deletions(i)
             /\ dump[j] \in MsgsOf(i) =>
                  dump[j].type = "NEWADDR" /\ dump[j].addr \in kif[i].addrs
             /\ dump[j] \in AddrsOf(i) <=> dump[j].type # "DONE" /\ dump[j].name = i
             /\ dump[j] \in AddrsOf(i) =>
                  dump[j].type = "NEWADDR" /\ dump[j].addr \in kif[i].addrs
  <2>1. \/ dump[j].type = "DONE"
        \/ dump[j].type = "NEWADDR" /\ dump[j].addr \in kif[dump[j].name].addrs
    BY DumpTrue
  <2> QED
    BY <1>2, <2>1, Kinds
<1>4. LinksIn(s \o dump)'
  <2>1. \A i \in announced' :
          /\ \A j : LastOf(LinksOf(i), dump, j) => dump[j].link = kif'[i].link
          /\ NoneOf(LinksOf(i), dump) => i \in announced /\ kif'[i].link = kif[i].link
    BY <1>3 DEF LastOf
  <2> QED
    BY <1>1, <2>1, LinksAppend DEF PipeTrue
<1>5. NewsIn(s \o dump)'
  <2>1. \A i \in Ifs :
          /\ \A j : LastOf(MsgsOf(i), dump, j) /\ dump[j] \in News(i) =>
                      dump[j].addr \in kif'[i].addrs
          /\ NoneOf(MsgsOf(i), dump) => kif'[i].addrs = kif[i].addrs
    BY <1>3 DEF LastOf
  <2> QED
    BY <1>1, <2>1, NewsAppend DEF PipeTrue
<1>6. ASSUME MaxAddrs = 1
      PROVE  AddrsIn(s \o dump)'
  <2>1. AtMostOne'
    BY <1>6 DEF PipeTrue, AddrsIn, AtMostOne
  <2>2. ASSUME NEW i \in Ifs
        PROVE  LastTrue(i, s \o dump)' /\ NodeTrue(i, s \o dump)' /\ Alternate(i, s \o dump)'
    <3>1. LastTrue(i, s) /\ NodeTrue(i, s) /\ Alternate(i, s)
      BY <1>6 DEF PipeTrue, AddrsIn
    <3>2. CASE kif[i].addrs = {}
      <4>1. NoneOf(AddrsOf(i), dump)
        BY <1>3, <3>2 DEF NoneOf
      <4> QED
        BY <1>1, <3>1, <3>2, <4>1, AddrsStay
    <3>3. CASE kif[i].addrs # {}
      <4>1. ~NoneOf(AddrsOf(i), dump)
        BY <1>1, <1>3, <3>3 DEF NoneOf, About
      <4>2. \A j : LastOf(AddrsOf(i), dump, j) =>
              IF dump[j].type = "DELADDR" THEN kif'[i].addrs = {}
              ELSE dump[j].addr \in kif'[i].addrs
        BY <1>3 DEF LastOf
      <4>3. \A j \in DOMAIN dump : dump[j] \in Deletions(i) =>
              /\ \A k \in 1 .. j - 1 : dump[k] \notin AddrsOf(i)
              /\ kif[i].addrs # {}
        BY <1>3
      <4> QED
        BY <1>1, <3>1, <4>1, <4>2, <4>3, AddrsAppend
    <3> QED
      BY <3>2, <3>3
  <2> QED
    BY <2>1, <2>2 DEF AddrsIn
<1> QED
  BY <1>4, <1>5, <1>6 DEF PipeTrue

\* A dump that is to come stays to come, for a pipe that does not change.
LEMMA SamePipe ==
  ASSUME NEW s, PipeTrue(s), UNCHANGED <<kif, nodes, attr, announced>>,
         DumpToCome => DumpToCome'
  PROVE  PipeTrue(s)'
<1>1. \A i : FindOrAdd(i)' = FindOrAdd(i)
  BY DEF FindOrAdd
<1>2. LinksIn(s)' /\ NewsIn(s)'
  BY <1>1 DEF PipeTrue, LinksIn, NewsIn
<1>3. ASSUME MaxAddrs = 1
      PROVE  AddrsIn(s)'
  <2>1. AtMostOne'
    BY <1>3 DEF PipeTrue, AddrsIn, AtMostOne
  <2>2. ASSUME NEW i \in Ifs
        PROVE  LastTrue(i, s)' /\ NodeTrue(i, s)' /\ Alternate(i, s)'
    <3>1. LastTrue(i, s) /\ NodeTrue(i, s) /\ Alternate(i, s)
      BY <1>3 DEF PipeTrue, AddrsIn
    <3> QED
      BY <1>1, <3>1 DEF LastTrue, NodeTrue, Alternate, Follows
  <2> QED
    BY <2>1, <2>2 DEF AddrsIn
<1> QED
  BY <1>2, <1>3 DEF PipeTrue

\* The steps that neither send nor take a message
LEMMA IdleCurrent ==
  ASSUME CInv, UNCHANGED <<kif, rxq, buff, nodes, attr, lost, announced>>,
         bound' = bound \/ bound', DumpToCome => DumpToCome', IInv'
  PROVE  CInv'
<1>1. Unbound'
  BY DEF CInv, Unbound
<1>2. \A s : Pipe(s) => Pipe(s)'
  BY DEF Pipe
<1>3. \A s : PipeTrue(s) => PipeTrue(s)'
  BY SamePipe
<1> QED
  BY <1>1, <1>2, <1>3 DEF CInv, PipeInv

LEMMA MainCurrent ==
  ASSUME CInv, EpollCreate \/ CreateNetlinkSocket \/ EpollAddFd \/ CreateThread \/ MutexInit
               \/ InitFails \/ InitListHead
  PROVE  CInv'
<1>1. IInv'
  BY MainKeeps, InitListHeadKeeps DEF CInv
<1>2. nodes' = nodes
  <2>1. headReady <=> mpc = "sleep"
    BY DEF CInv, IInv, HeadReadyAtEnd
  <2>2. ~headReady => nodes = {}
    BY DEF CInv, IInv, EmptyBeforeInit
  <2> QED
    BY <2>1, <2>2 DEF EpollCreate, CreateNetlinkSocket, EpollAddFd, CreateThread, MutexInit,
       InitFails, InitListHead, MainAt, listVars
<1>3. /\ UNCHANGED <<kif, rxq, buff, attr, lost, announced, dumpDue>>
      /\ bound' = bound \/ bound'
      /\ mpc' \in BeforeDump \cup {"exited"} \/ mpc \notin BeforeDump \cup {"exited"}
  <2> USE DEF MainAt, kernelVars, socketVars, listVars, BeforeDump
  <2>1. CASE EpollCreate \/ EpollAddFd
    BY <2>1 DEF EpollCreate, EpollAddFd
  <2>2. CASE CreateNetlinkSocket
    BY <2>2 DEF CreateNetlinkSocket
  <2>3. CASE CreateThread \/ MutexInit
    BY <2>3 DEF CreateThread, MutexInit
  <2>4. CASE InitFails \/ InitListHead
    BY <2>4 DEF InitFails, InitListHead
  <2> QED
    BY <2>1, <2>2, <2>3, <2>4
<1>4. DumpToCome => DumpToCome'
  BY <1>3 DEF DumpToCome
<1> QED
  BY <1>1, <1>2, <1>3, <1>4, IdleCurrent

LEMMA ColdbootCurrent ==
  ASSUME CInv, Coldboot
  PROVE  CInv'
<1>1. IInv /\ IInv' /\ TypeOK
  BY ColdbootKeeps DEF CInv, IInv
<1>2. /\ UNCHANGED <<kif, buff, nodes, attr, lost, announced, bound>>
      /\ mpc = "netif_coldboot"
  BY DEF Coldboot, MainAt, kernelVars, listVars
<1>3. bound
  BY <1>1, <1>2 DEF IInv, Subscribed
<1>4. CASE Len(rxq) < RcvBuf /\ ~lost
  <2>1. PICK dump \in Dumps : rxq' = Append(rxq, dump)
    BY <1>4 DEF Coldboot
  <2>2. PICK s : Pipe(s) /\ PipeTrue(s)
    BY <1>4 DEF CInv, PipeInv
  <2>3. s \in Seq(Msg) /\ dump \in Seq(Msg)
    BY <1>1, <2>2, DumpComplete DEF Pipe, IsPipe
  <2>4. IsPipe(s \o dump, buff, Append(rxq, dump))
    BY <1>1, <2>2, <2>3, PipeAppend DEF Pipe, TypeOK
  <2>5. Pipe(s \o dump)'
    BY <1>2, <2>1, <2>4 DEF Pipe
  <2>6. PipeTrue(s \o dump)'
    BY <1>1, <1>2, <2>2, <2>3, DumpSent
  <2> QED
    BY <1>1, <1>2, <1>3, <2>5, <2>6 DEF CInv, Unbound, PipeInv
<1>5. CASE ~(Len(rxq) < RcvBuf)
  <2>1. rxq' = rxq /\ dumpDue'
    BY <1>5 DEF Coldboot
  <2> QED
    BY <1>1, <1>2, <2>1, IdleCurrent DEF DumpToCome
<1>6. CASE lost
  BY <1>1, <1>2, <1>3, <1>6 DEF CInv, Unbound, PipeInv
<1> QED
  BY <1>4, <1>5, <1>6

-----------------------------------------------------------------------------
(* The steps of the event thread.                                          *)

LEMMA RecvCurrent ==
  ASSUME CInv, Recv
  PROVE  CInv'
<1> USE NetifAssumption
<1> DEFINE dgram == Head(rxq)
           n == IF Len(dgram) <= RecvMsgs THEN Len(dgram) ELSE RecvMsgs
<1>1. IInv /\ IInv' /\ TypeOK
  BY RecvKeeps DEF CInv, IInv
<1>2. /\ UNCHANGED <<kif, bound, mpc, nodes, attr, announced>>
      /\ dumpDue' = FALSE /\ buff = <<>> /\ rxq # <<>>
      /\ buff' = SubSeq(dgram, 1, n)
      /\ lost' = (lost \/ n < Len(dgram))
  BY DEF Recv, kernelVars, listVars
<1>3. bound
  BY <1>2 DEF CInv, Unbound
<1>4. rxq \in Seq(Seq(Msg)) /\ dgram \in Seq(Msg) /\ Len(dgram) \in Nat
      /\ Tail(rxq) \in Seq(Seq(Msg))
  BY <1>1, <1>2 DEF TypeOK
<1>5. ASSUME ~lost'
      PROVE  PipeInv'
  <2>1. ~lost /\ n = Len(dgram)
    <3>1. ~lost /\ ~(n < Len(dgram))
      BY <1>2, <1>5
    <3>2. Len(dgram) \in Nat /\ RecvMsgs \in Nat
      BY <1>4
    <3> QED
      BY <3>1, <3>2
  <2>2. buff' = dgram
    BY <1>2, <1>4, <2>1, SubSeqFull
  <2>3. PICK s : Pipe(s) /\ PipeTrue(s)
    BY <2>1 DEF CInv, PipeInv
  <2>4. s \in Seq(Msg) /\ IsPipe(s, <<>>, rxq)
    BY <1>2, <2>3 DEF Pipe, IsPipe
  <2>5. IsPipe(s, dgram, Tail(rxq))
    BY <1>2, <1>4, <2>4, PipeRecv
  <2>6. CASE dumpDue
    <3>1. PICK dump \in Dumps : rxq' = Append(Tail(rxq), dump)
      BY <2>6 DEF Recv
    <3>2. dump \in Seq(Msg)
      BY <1>1, DumpComplete
    <3>3. IsPipe(s \o dump, dgram, Append(Tail(rxq), dump))
      BY <1>4, <2>5, <3>2, PipeAppend
    <3>4. Pipe(s \o dump)'
      BY <2>2, <3>1, <3>3 DEF Pipe
    <3>5. PipeTrue(s \o dump)'
      BY <1>1, <1>2, <2>3, <2>4, DumpSent
    <3> QED
      BY <3>4, <3>5 DEF PipeInv
  <2>7. CASE ~dumpDue
    <3>1. rxq' = Tail(rxq)
      BY <2>7 DEF Recv
    <3>2. Pipe(s)'
      BY <2>2, <2>5, <3>1 DEF Pipe
    <3>3. PipeTrue(s)'
      BY <1>2, <2>3, <2>7, SamePipe DEF DumpToCome
    <3> QED
      BY <3>2, <3>3 DEF PipeInv
  <2> QED
    BY <2>6, <2>7
<1> QED
  BY <1>1, <1>2, <1>3, <1>5 DEF CInv, Unbound, PipeInv

\* The front of the pipe is the message that is dispatched.
LEMMA DispatchPipe ==
  ASSUME CInv, Dispatch, buff' = Tail(buff), ~lost
  PROVE  /\ Head(buff) \in Msg
         /\ \E s \in Seq(Msg) : /\ PipeTrue(s) /\ s # <<>> /\ s[1] = Head(buff)
                                /\ Pipe(Tail(s))'
<1>1. buff \in Seq(Msg) /\ rxq \in Seq(Seq(Msg)) /\ buff # <<>> /\ rxq' = rxq
  BY DEF CInv, IInv, TypeOK, Dispatch, socketVars
<1>2. PICK s : Pipe(s) /\ PipeTrue(s)
  BY DEF CInv, PipeInv
<1>3. IsPipe(Tail(s), Tail(buff), rxq) /\ s # <<>> /\ s[1] = Head(buff) /\ s \in Seq(Msg)
  BY <1>1, <1>2, PipeTake DEF Pipe, IsPipe
<1>4. Pipe(Tail(s))'
  BY <1>1, <1>3 DEF Pipe
<1> QED
  BY <1>1, <1>2, <1>3, <1>4

\* A message that is dispatched is the truth of its interface in the node.
LEMMA DispatchCurrent ==
  ASSUME CInv, IInv', Dispatch, buff' = Tail(buff), lost' = lost, nodes \subseteq nodes',
         \A i \in Ifs :
           IF Head(buff) \in LinksOf(i) THEN i \in nodes' /\ attr'[i].link = Head(buff).link
                                        ELSE i \in nodes => attr'[i].link = attr[i].link,
         \A i \in Ifs : Head(buff) \notin MsgsOf(i) => FindOrAdd(i)' = FindOrAdd(i),
         \A i \in Ifs : Head(buff) \in LinksOf(i) =>
           /\ FindOrAdd(i)'.ipaddr = FindOrAdd(i).ipaddr
           /\ FindOrAdd(i)'.current_state \in {"IF_UP", "IF_DOWN"},
         \A i \in Ifs : Head(buff) \in News(i) =>
           /\ FindOrAdd(i)'.ipaddr = Head(buff).addr
           /\ FindOrAdd(i)'.current_state = "IF_NEWADDR",
         \A i \in Ifs : Head(buff) \in Deletions(i) =>
           /\ FindOrAdd(i).current_state # "IF_DELADDR" => FindOrAdd(i)'.ipaddr = NoAddr
           /\ FindOrAdd(i)'.current_state = "IF_DELADDR"
  PROVE  CInv'
<1>1. UNCHANGED <<kif, bound, dumpDue, mpc, rxq, announced>> /\ buff # <<>>
  BY DEF Dispatch, kernelVars, socketVars
<1>2. Unbound'
  BY <1>1 DEF CInv, Unbound
<1>3. announced \subseteq Ifs
  BY DEF CInv, IInv, TypeOK
<1>4. ASSUME ~lost
      PROVE  PipeInv'
  <2>1. PICK s \in Seq(Msg) : /\ PipeTrue(s) /\ s # <<>> /\ s[1] = Head(buff)
                              /\ Pipe(Tail(s))'
    BY <1>4, DispatchPipe
  <2>2. Head(buff) \in Msg
    BY <1>4, DispatchPipe
  <2>3. \A i : /\ Head(buff) \in MsgsOf(i) <=>
                    \/ Head(buff) \in LinksOf(i)
                    \/ Head(buff) \in News(i) \/ Head(buff) \in Deletions(i)
               /\ Head(buff) \in AddrsOf(i) <=>
                    Head(buff) \in News(i) \/ Head(buff) \in Deletions(i)
               /\ ~(Head(buff) \in News(i) /\ Head(buff) \in LinksOf(i))
               /\ ~(Head(buff) \in News(i) /\ Head(buff) \in Deletions(i))
    BY <2>2, Kinds DEF MsgsOf
  <2>4. LinksIn(Tail(s))'
    BY <1>1, <1>3, <2>1, LinksTake DEF PipeTrue
  <2>5. NewsIn(Tail(s))'
    <3>1. \A i \in Ifs :
            /\ s[1] \notin MsgsOf(i) => FindOrAdd(i)' = FindOrAdd(i)
            /\ s[1] \in MsgsOf(i) =>
                 IF s[1] \in News(i) THEN FindOrAdd(i)'.ipaddr = s[1].addr
                                     ELSE FindOrAdd(i)'.current_state # "IF_NEWADDR"
      BY <2>1, <2>3
    <3> QED
      BY <1>1, <2>1, <3>1, NewsTake DEF PipeTrue
  <2>6. ASSUME MaxAddrs = 1
        PROVE  AddrsIn(Tail(s))'
    <3>1. AtMostOne'
      BY <1>1, <2>1, <2>6 DEF PipeTrue, AddrsIn, AtMostOne
    <3>2. ASSUME NEW i \in Ifs
          PROVE  LastTrue(i, Tail(s))' /\ NodeTrue(i, Tail(s))' /\ Alternate(i, Tail(s))'
      <4>1. LastTrue(i, s) /\ NodeTrue(i, s) /\ Alternate(i, s)
        BY <2>1, <2>6 DEF PipeTrue, AddrsIn
      <4>2. DumpToCome => DumpToCome'
        BY <1>1 DEF DumpToCome
      <4>3. s[1] \notin AddrsOf(i) =>
              /\ FindOrAdd(i)'.ipaddr = FindOrAdd(i).ipaddr
              /\ FindOrAdd(i)'.current_state = "IF_DELADDR" =>
                   FindOrAdd(i).current_state = "IF_DELADDR"
        BY <2>1, <2>3
      <4>4. s[1] \in News(i) =>
              /\ FindOrAdd(i)'.ipaddr = s[1].addr
              /\ FindOrAdd(i)'.current_state # "IF_DELADDR"
        BY <2>1
      <4>5. s[1] \in Deletions(i) /\ FindOrAdd(i).current_state # "IF_DELADDR" =>
              FindOrAdd(i)'.ipaddr = NoAddr
        BY <2>1
      <4> QED
        BY <1>1, <2>1, <4>1, <4>2, <4>3, <4>4, <4>5, AddrsTake
    <3> QED
      BY <3>1, <3>2 DEF AddrsIn
  <2> QED
    BY <2>1, <2>4, <2>5, <2>6 DEF PipeInv, PipeTrue
<1> QED
  BY <1>2, <1>4 DEF CInv, PipeInv

\* What ifinfomsg_handle and ifaddrmsg_handle leave in the node
LEMMA HandlersCurrent ==
  ASSUME CInv, IfinfomsgHandle \/ IfaddrmsgHandle
  PROVE  CInv'
<1>0. PICK m : m = Head(buff)
  OBVIOUS
<1>1. IInv /\ IInv' /\ TypeOK
  BY HandlersKeep DEF CInv, IInv
<1>2. Dispatch /\ headReady /\ m.type # "DONE"
  BY <1>0 DEF IfinfomsgHandle, IfaddrmsgHandle
<1>3. m \in Msg /\ m.name \in Ifs
  <2>1. m \in Msg
    BY <1>0, <1>1, <1>2 DEF TypeOK, Dispatch
  <2> QED
    BY <1>2, <2>1 DEF Msg, LinkMsg, AddrMsg
<1>4. nodes \subseteq Ifs /\ attr \in [Ifs -> Node]
  BY <1>1 DEF TypeOK, Node
<1>5. FindOrAdd(m.name) \in Node
  BY <1>3, <1>4 DEF FindOrAdd, ClearAttr, Node, LinkFlags, EventType
<1>6. m.name \in nodes => attr[m.name] = FindOrAdd(m.name)
  BY DEF FindOrAdd
<1>7. ASSUME NEW node, Store(m.name, node)
      PROVE  /\ buff' = Tail(buff) /\ lost' = lost /\ nodes \subseteq nodes'
             /\ m.name \in nodes' /\ attr'[m.name] = node /\ FindOrAdd(m.name)' = node
             /\ \A i \in Ifs : i # m.name =>
                  attr'[i] = attr[i] /\ FindOrAdd(i)' = FindOrAdd(i)
  <2>1. /\ nodes' = nodes \cup {m.name} /\ attr' = [attr EXCEPT ![m.name] = node]
        /\ buff' = Tail(buff) /\ lost' = lost
    BY <1>7 DEF Store
  <2>2. /\ m.name \in nodes' /\ nodes \subseteq nodes' /\ attr'[m.name] = node
        /\ \A i \in Ifs : i # m.name => attr'[i] = attr[i] /\ (i \in nodes' <=> i \in nodes)
    BY <1>3, <1>4, <2>1
  <2>3. \A i \in Ifs : i # m.name => FindOrAdd(i)' = FindOrAdd(i)
    BY <2>2 DEF FindOrAdd
  <2>4. FindOrAdd(m.name)' = node
    BY <2>2 DEF FindOrAdd
  <2> QED
    BY <2>1, <2>2, <2>3, <2>4
<1>8. CASE IfinfomsgHandle
  <2>1. m.type \in {"NEWLINK", "DELLINK"} /\ Store(m.name, AfterLinkMsg(m))
    BY <1>0, <1>8 DEF IfinfomsgHandle
  <2>2. /\ AfterLinkMsg(m).link = m.link
        /\ AfterLinkMsg(m).ipaddr = FindOrAdd(m.name).ipaddr
        /\ AfterLinkMsg(m).current_state \in {"IF_UP", "IF_DOWN"}
    BY <1>5 DEF AfterLinkMsg, Notified, Node
  <2>3. PICK node : node = AfterLinkMsg(m)
    OBVIOUS
  <2>4. /\ buff' = Tail(buff) /\ lost' = lost /\ nodes \subseteq nodes'
        /\ m.name \in nodes' /\ attr'[m.name] = node /\ FindOrAdd(m.name)' = node
        /\ \A i \in Ifs : i # m.name => attr'[i] = attr[i] /\ FindOrAdd(i)' = FindOrAdd(i)
    BY <1>7, <2>1, <2>3
  <2>5. \A i : /\ m \in LinksOf(i) <=> i = m.name
               /\ m \in MsgsOf(i) <=> i = m.name
               /\ m \notin News(i) /\ m \notin Deletions(i)
    BY <1>3, <2>1, Kinds
  <2> QED
    BY <1>0, <1>1, <1>2, <2>2, <2>3, <2>4, <2>5, DispatchCurrent
<1>9. CASE IfaddrmsgHandle
  <2>1. m.type \in {"NEWADDR", "DELADDR"} /\ Store(m.name, AfterAddrMsg(m))
    BY <1>0, <1>9 DEF IfaddrmsgHandle
  <2>2. /\ AfterAddrMsg(m).link = FindOrAdd(m.name).link
        /\ m.type = "NEWADDR" => /\ AfterAddrMsg(m).ipaddr = m.addr
                                 /\ AfterAddrMsg(m).current_state = "IF_NEWADDR"
        /\ m.type = "DELADDR" =>
             /\ FindOrAdd(m.name).current_state # "IF_DELADDR" =>
                  AfterAddrMsg(m).ipaddr = NoAddr
             /\ AfterAddrMsg(m).current_state = "IF_DELADDR"
    BY <1>5 DEF AfterAddrMsg, Notified, Node
  <2>3. PICK node : node = AfterAddrMsg(m)
    OBVIOUS
  <2>4. /\ buff' = Tail(buff) /\ lost' = lost /\ nodes \subseteq nodes'
        /\ m.name \in nodes' /\ attr'[m.name] = node /\ FindOrAdd(m.name)' = node
        /\ \A i \in Ifs : i # m.name => attr'[i] = attr[i] /\ FindOrAdd(i)' = FindOrAdd(i)
    BY <1>7, <2>1, <2>3
  <2>5. \A i : /\ m \notin LinksOf(i)
               /\ m \in MsgsOf(i) <=> i = m.name
               /\ m \in News(i) <=> i = m.name /\ m.type = "NEWADDR"
               /\ m \in Deletions(i) <=> i = m.name /\ m.type = "DELADDR"
    BY <1>3, <2>1, Kinds
  <2> QED
    BY <1>0, <1>1, <1>2, <1>6, <2>2, <2>3, <2>4, <2>5, DispatchCurrent
<1> QED
  BY <1>8, <1>9

LEMMA ThreadCurrent ==
  ASSUME CInv, EpollWait \/ RecvError \/ WalkUninitialisedList \/ DispatchDone \/ NodeAddFails
  PROVE  CInv'
<1>1. IInv' /\ TypeOK
  BY ThreadMoves, HandlersKeep DEF CInv, IInv
<1>2. CASE EpollWait \/ RecvError \/ WalkUninitialisedList
  <2>1. UNCHANGED <<kif, rxq, buff, nodes, attr, lost, announced, bound, dumpDue, mpc>>
    BY <1>2 DEF EpollWait, RecvError, WalkUninitialisedList, Dispatch, kernelVars, socketVars,
       listVars
  <2> QED
    BY <1>1, <2>1, IdleCurrent DEF DumpToCome
<1>3. CASE DispatchDone
  <2>1. /\ Dispatch /\ buff' = Tail(buff) /\ Head(buff).type = "DONE"
        /\ UNCHANGED <<nodes, attr, lost>>
    BY <1>3 DEF DispatchDone, listVars
  <2>2. \A i : /\ Head(buff) \notin LinksOf(i) /\ Head(buff) \notin MsgsOf(i)
               /\ Head(buff) \notin News(i) /\ Head(buff) \notin Deletions(i)
    <3>1. Head(buff) \in Msg
      BY <1>1, <2>1 DEF TypeOK, Dispatch
    <3> QED
      BY <2>1, <3>1, Kinds
  <2>3. \A i : FindOrAdd(i)' = FindOrAdd(i)
    BY <2>1 DEF FindOrAdd
  <2> QED
    BY <1>1, <2>1, <2>2, <2>3, DispatchCurrent
<1>4. CASE NodeAddFails
  <2>1. lost' /\ buff # <<>> /\ bound' = bound
    BY <1>4 DEF NodeAddFails, Dispatch, socketVars
  <2> QED
    BY <1>1, <2>1 DEF CInv, Unbound, PipeInv
<1> QED
  BY <1>2, <1>3, <1>4

-----------------------------------------------------------------------------
(* The invariant, and what follows from it.                                *)

LEMMA CurrentAtFirst == Init => CInv
<1> SUFFICES ASSUME Init
             PROVE  CInv
  OBVIOUS
<1>1. IInv
  BY InitEstablishes
<1>2. Unbound /\ ~bound
  BY DEF Init, Unbound
<1>3. MaxAddrs = 1 => AtMostOne
  <2> SUFFICES ASSUME MaxAddrs = 1, NEW i \in Ifs
               PROVE  \A a, b \in kif[i].addrs : a = b
    BY DEF AtMostOne
  <2>1. kif[i].addrs \in SUBSET Addrs /\ Cardinality(kif[i].addrs) <= 1
    BY DEF Init
  <2> QED
    BY <2>1, SmallSets
<1> QED
  BY <1>1, <1>2, <1>3, UnboundTrue DEF CInv

LEMMA CurrentPreserved == CInv /\ [Next]_vars => CInv'
<1> SUFFICES ASSUME CInv, [Next]_vars
             PROVE  CInv'
  OBVIOUS
<1>1. CASE Kernel
  BY <1>1, NewLinkCurrent, DelLinkCurrent, LeaveBridgeCurrent, NewAddrCurrent, DelAddrCurrent
     DEF Kernel
<1>2. CASE Main \/ InitFails
  BY <1>2, MainCurrent, ColdbootCurrent DEF Main
<1>3. CASE Thread \/ NodeAddFails
  BY <1>3, ThreadCurrent, RecvCurrent, HandlersCurrent DEF Thread
<1>4. CASE UNCHANGED vars
  <2>1. IInv'
    BY <1>4, NextPreserves DEF CInv
  <2>2. UNCHANGED <<kif, rxq, buff, nodes, attr, lost, announced, bound, dumpDue, mpc>>
    BY <1>4 DEF vars, kernelVars, socketVars, listVars
  <2> QED
    BY <2>1, <2>2, IdleCurrent DEF DumpToCome
<1> QED
  BY <1>1, <1>2, <1>3, <1>4 DEF Next

LEMMA CurrentHolds == Spec => []CInv
  BY CurrentAtFirst, CurrentPreserved, PTL DEF Spec

\* When the server has caught up the pipe is empty.
LEMMA CaughtUpTrue == CInv /\ CaughtUp => PipeTrue(<<>>) /\ ~DumpToCome /\ nodes \subseteq Ifs
<1> SUFFICES ASSUME CInv, CaughtUp
             PROVE  PipeTrue(<<>>) /\ ~DumpToCome /\ nodes \subseteq Ifs
  OBVIOUS
<1>1. PICK s : Pipe(s) /\ PipeTrue(s)
  BY DEF CInv, PipeInv, CaughtUp
<1>2. s = <<>>
  BY <1>1, EmptyPipe DEF Pipe, CaughtUp
<1> QED
  BY <1>1, <1>2 DEF CaughtUp, DumpToCome, BeforeDump, CInv, IInv, TypeOK

\* Nothing is in an empty pipe.
LEMMA NoneInEmpty == \A C : NoneOf(C, <<>>)
  BY DEF NoneOf

\* A server that has caught up shows the flags that every announced interface
\* has (ifinfomsg_handle copies them on RTM_DELLINK as well).
THEOREM NetifLinksCurrent == Spec => []LinksCurrent
<1>1. CInv => LinksCurrent
  BY CaughtUpTrue, NoneInEmpty DEF LinksCurrent, PipeTrue, LinksIn
<1> QED
  BY <1>1, CurrentHolds, PTL

\* A node of a server that has caught up, whose last event was a new address,
\* shows an address its interface still has.
THEOREM NetifNewAddressCurrent == Spec => []NewAddressCurrent
<1>1. CInv => NewAddressCurrent
  <2> SUFFICES ASSUME CInv, CaughtUp, NEW i \in nodes, attr[i].current_state = "IF_NEWADDR"
               PROVE  attr[i].ipaddr \in kif[i].addrs
    BY DEF NewAddressCurrent
  <2>1. NewsIn(<<>>) /\ i \in Ifs /\ FindOrAdd(i) = attr[i]
    BY CaughtUpTrue DEF PipeTrue, FindOrAdd
  <2> QED
    BY <2>1, NoneInEmpty DEF NewsIn
<1> QED
  BY <1>1, CurrentHolds, PTL

\* With one address on an interface, the copy that ifaddrmsg_handle makes on
\* RTM_DELADDR is always undone by net_event_notify: no deletion is dispatched
\* to a node whose last event was a deletion.
THEOREM NetifAddressesCurrent == Spec => []AddressesCurrent
<1>1. CInv => AddressesCurrent
  <2> SUFFICES ASSUME CInv, CaughtUp, MaxAddrs = 1, NEW i \in nodes
               PROVE  attr[i].ipaddr = IF kif[i].addrs = {} THEN NoAddr
                                       ELSE CHOOSE a \in kif[i].addrs : TRUE
    BY DEF AddressesCurrent
  <2>1. i \in Ifs /\ FindOrAdd(i) = attr[i] /\ AddrsIn(<<>>) /\ ~DumpToCome
    BY CaughtUpTrue DEF PipeTrue, FindOrAdd
  <2>2. /\ kif[i].addrs = {} => attr[i].ipaddr = NoAddr
        /\ kif[i].addrs # {} => attr[i].ipaddr \in kif[i].addrs
    BY <2>1, NoneInEmpty DEF AddrsIn, NodeTrue
  <2>3. \A a, b \in kif[i].addrs : a = b
    BY <2>1 DEF AddrsIn, AtMostOne
  <2>4. kif[i].addrs # {} => (CHOOSE a \in kif[i].addrs : TRUE) \in kif[i].addrs
    OBVIOUS
  <2> QED
    BY <2>2, <2>3, <2>4
<1> QED
  BY <1>1, CurrentHolds, PTL
=============================================================================
