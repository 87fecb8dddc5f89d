-------------------------- MODULE NetTransport_proofs --------------------------
(* Proofs about the transport of the nodes, for any number of nodes, packets,  *)
(* buffers and retries: the queue, the types, and the order of arrival for any *)
(* network and any ACKs that come in; what an ACK tells, and the service, when *)
(* the answers are prompt and no other node is in range.                       *)
EXTENDS NetTransportProps, SequenceTheorems, FunctionTheorems, FiniteSetTheorems, TLAPS

-----------------------------------------------------------------------------
(* The inductive invariants of the proofs.                                  *)

\* A queue q whose first packet was transmitted c times, with the transmissions t
\* of all packets when x were accepted: the packets before the queue were all
\* transmitted, those after its first one were not.
QueueOK(q, c, t, x) ==
  /\ q \in Seq([id : 1 .. MaxPkts, ack : BOOLEAN]) /\ Len(q) <= NetPkt /\ Len(q) <= x
  /\ c \in 0 .. RetryMax - 1 /\ x \in 0 .. MaxPkts
  /\ t \in [1 .. MaxPkts -> 0 .. RetryMax]
  /\ \A k \in 1 .. Len(q) : q[k].id = x - Len(q) + k
  /\ c > 0 => q # <<>> /\ q[1].ack
  /\ \A i \in 1 .. MaxPkts :
       /\ i <= x - Len(q) => t[i] > 0
       /\ i = x - Len(q) + 1 => t[i] = c
       /\ i > x - Len(q) + 1 => t[i] = 0

\* The arrays of the nodes are complete, and the queue of each is in order.
QueueInv ==
  /\ buf \in [Nodes -> Seq([id : 1 .. MaxPkts, ack : BOOLEAN])]
  /\ sendCnt \in [Nodes -> Nat] /\ nextId \in [Nodes -> Nat]
  /\ tries \in [Nodes -> [1 .. MaxPkts -> Nat]]
  /\ \A n \in Nodes : QueueOK(buf[n], sendCnt[n], tries[n], nextId[n])

\* The rest of the types: time, the radios, the datagrams and the hub.
AirInv ==
  /\ sendTime \in [Nodes -> 0 .. ClockMod - 1] /\ now \in [Nodes -> 0 .. ClockMod - 1]
  /\ queuedAck \in [Nodes -> Nodes \cup {None}]
  /\ rx \in [Nodes -> Packet \cup {None}]
  /\ toHub \in Seq(Packet) /\ Len(toHub) <= MaxFlight
  /\ toGw \in Seq(Packet) /\ Len(toGw) <= MaxFlight
  /\ arrived \in [Nodes -> Seq(1 .. MaxPkts)]
  /\ reqs \in 0 .. MaxReqs
  /\ \A k \in 1 .. Len(toHub) : toHub[k].kind = "data" => toHub[k].id # 0

DataFrom(n) == {p \in Packet : p.kind = "data" /\ p.node = n}
DataOf(n, i) == {p \in DataFrom(n) : p.id = i}

\* What the hub has got of node n, in a, comes before what is on its way in q, and
\* that is in order; and there are no more copies of a packet than it was
\* transmitted according to t.
FlowOK(n, a, q, t) ==
  /\ \A j, k \in 1 .. Len(a) : j < k => a[j] <= a[k]
  /\ \A k \in 1 .. Len(q) : q[k] \in DataFrom(n) =>
       /\ \A j \in 1 .. Len(a) : a[j] <= q[k].id
       /\ \A l \in 1 .. Len(q) : k < l /\ q[l] \in DataFrom(n) => q[k].id <= q[l].id
  /\ \A i \in 1 .. MaxPkts : Number(a, {i}) + Number(q, DataOf(n, i)) <= t[i]

ArriveInv == \A n \in Nodes : FlowOK(n, arrived[n], toHub, tries[n])

\* A transmission of n that asks for an ACK.
AskedBy(n) == {p \in Packet : p.node = n /\ p.ack}

\* The answers to n that are still to come, when rxn is in its receive buffer, q are
\* the datagrams to the hub and g those to the gateway.
Answers(n, rxn, q, g) ==
  Number(q, AskedBy(n)) + Number(g, {Ack(n)}) + (IF rxn = Ack(n) THEN 1 ELSE 0)

\* Node n with the queue b, whose first packet was transmitted c times, where the hub
\* has got a: at most one answer is to come, to the last transmission of that packet,
\* and none if it was not transmitted; an ACK tells that the hub has got the packet.
AnswerOK(n, b, c, rxn, q, g, a) ==
  /\ rxn \in {None, Request(n), Ack(n)}
  /\ Answers(n, rxn, q, g) <= (IF c > 0 THEN 1 ELSE 0)
  /\ \A k \in 1 .. Len(q) : q[k] \in AskedBy(n) => q[k] \in DataOf(n, Head(b).id)
  /\ \A k \in 1 .. Len(g) : g[k].node = n => g[k] \in {Request(n), Ack(n)}
  /\ Number(g, {Ack(n)}) > 0 \/ rxn = Ack(n) => Number(a, {Head(b).id}) > 0

\* What keeps AckMeansReceived with Prompt and with no other node in range.
AnswerInv ==
  \A n \in Nodes :
    /\ queuedAck[n] \in {n, None}
    /\ AnswerOK(n, buf[n], sendCnt[n], rx[n], toHub, toGw, arrived[n])

-----------------------------------------------------------------------------
Pkt == [id : 1 .. MaxPkts, ack : BOOLEAN]

\* Net::send puts a new packet behind the others; it was not transmitted yet.
LEMMA AppendStep ==
  ASSUME NEW q, NEW c, NEW t, NEW x, QueueOK(q, c, t, x),
         Len(q) < NetPkt, x < MaxPkts, NEW ack \in BOOLEAN
  PROVE  /\ QueueOK(Append(q, [id |-> x + 1, ack |-> ack]), c, t, x + 1)
         /\ Append(q, [id |-> x + 1, ack |-> ack]) # <<>>
<1> DEFINE p == [id |-> x + 1, ack |-> ack]
           r == Append(q, p)
           y == x + 1
<1>1. /\ q \in Seq(Pkt) /\ Len(q) \in Nat /\ x \in Nat /\ MaxPkts \in Nat /\ NetPkt \in Nat
      /\ Len(q) <= x
  BY ConstantsAssumption DEF QueueOK, Pkt
<1>2. p \in Pkt
  BY <1>1 DEF Pkt
<1>3. /\ r \in Seq(Pkt) /\ Len(r) = Len(q) + 1
      /\ \A k \in 1 .. Len(q) : r[k] = q[k]
      /\ r[Len(q) + 1] = p
  BY <1>1, <1>2
<1>4. p.id = y /\ y = x + 1
  OBVIOUS
<1> HIDE DEF p, r, y
<1>5. \A k \in 1 .. Len(r) : r[k].id = y - Len(r) + k
  <2>1. SUFFICES ASSUME NEW k \in 1 .. Len(r) PROVE r[k].id = y - Len(r) + k
    OBVIOUS
  <2>2. CASE k = Len(q) + 1
    BY <1>1, <1>3, <1>4, <2>2
  <2>3. CASE k # Len(q) + 1
    <3>1. k \in 1 .. Len(q)
      BY <1>1, <1>3, <2>3
    <3>2. q[k].id = x - Len(q) + k
      BY <3>1 DEF QueueOK
    <3>3. QED
      BY <1>1, <1>3, <1>4, <3>1, <3>2
  <2>4. QED
    BY <2>2, <2>3
<1>6. c > 0 => r # <<>> /\ r[1].ack
  <2>1. SUFFICES ASSUME c > 0 PROVE r # <<>> /\ r[1].ack
    OBVIOUS
  <2>2. q # <<>> /\ q[1].ack
    BY <2>1 DEF QueueOK
  <2>3. Len(q) > 0
    BY <1>1, <2>2, EmptySeq
  <2>4. QED
    BY <1>1, <1>3, <2>2, <2>3
<1>7. y - Len(r) = x - Len(q) /\ Len(r) <= NetPkt /\ Len(r) <= y /\ y \in 0 .. MaxPkts
  BY <1>1, <1>3, <1>4
<1>8. /\ c \in 0 .. RetryMax - 1 /\ t \in [1 .. MaxPkts -> 0 .. RetryMax]
      /\ \A i \in 1 .. MaxPkts :
           /\ i <= y - Len(r) => t[i] > 0
           /\ i = y - Len(r) + 1 => t[i] = c
           /\ i > y - Len(r) + 1 => t[i] = 0
  BY <1>7 DEF QueueOK
<1>9. QueueOK(r, c, t, y)
  BY ONLY <1>3, <1>5, <1>6, <1>7, <1>8 DEF QueueOK, Pkt
<1>10. r # <<>>
  <2>1. Len(r) # 0
    BY <1>1, <1>3
  <2>2. QED
    BY <1>3, <2>1, EmptySeq
<1>11. QED
  BY <1>9, <1>10 DEF r, p, y

\* What is left of a queue without its first packet.
LEMMA TailOK ==
  ASSUME NEW q, NEW c, NEW t, NEW x, QueueOK(q, c, t, x), q # <<>>
  PROVE  /\ Tail(q) \in Seq(Pkt) /\ Len(Tail(q)) = Len(q) - 1
         /\ Len(q) \in Nat \ {0} /\ x \in Nat /\ Len(q) <= x /\ Len(q) <= NetPkt
         /\ \A k \in 1 .. Len(Tail(q)) : Tail(q)[k].id = x - Len(Tail(q)) + k
         /\ Head(q) \in Pkt /\ Head(q).id = x - Len(q) + 1 /\ Head(q) = q[1]
<1>1. q \in Seq(Pkt) /\ x \in Nat /\ NetPkt \in Nat /\ Len(q) <= x /\ Len(q) <= NetPkt
  BY ConstantsAssumption DEF QueueOK, Pkt
<1>2. /\ Len(q) \in Nat \ {0} /\ Head(q) = q[1] /\ Head(q) \in Pkt
      /\ Tail(q) \in Seq(Pkt) /\ Len(Tail(q)) = Len(q) - 1
      /\ \A k \in 1 .. Len(q) - 1 : Tail(q)[k] = q[k + 1]
  BY <1>1, HeadTailProperties
<1>3. \A k \in 1 .. Len(q) : q[k].id = x - Len(q) + k
  BY DEF QueueOK
<1>4. ASSUME NEW k \in 1 .. Len(q) - 1 PROVE Tail(q)[k].id = x - (Len(q) - 1) + k
  <2>1. k + 1 \in 1 .. Len(q) /\ Tail(q)[k] = q[k + 1]
    BY <1>2
  <2>2. q[k + 1].id = x - Len(q) + (k + 1)
    BY <1>3, <2>1
  <2>3. QED
    BY <1>1, <1>2, <2>1, <2>2
<1>5. q[1].id = x - Len(q) + 1
  BY <1>2, <1>3
<1>6. QED
  BY <1>1, <1>2, <1>4, <1>5

\* Net::poll pops a packet that waits for its ACK: it was transmitted.
LEMMA PopStep ==
  ASSUME NEW q, NEW c, NEW t, NEW x, QueueOK(q, c, t, x), q # <<>>, c > 0
  PROVE  QueueOK(Tail(q), 0, t, x)
<1> DEFINE r == Tail(q)
<1>1. /\ r \in Seq(Pkt) /\ Len(r) = Len(q) - 1 /\ Len(q) \in Nat \ {0}
      /\ x \in Nat /\ Len(q) <= x /\ Len(q) <= NetPkt
      /\ \A k \in 1 .. Len(r) : r[k].id = x - Len(r) + k
  BY TailOK
<1>2. RetryMax \in Nat \ {0} /\ NetPkt \in Nat
  BY ConstantsAssumption
<1> HIDE DEF r
<1>3. ASSUME NEW i \in 1 .. MaxPkts
      PROVE  /\ i <= x - Len(r) => t[i] > 0
             /\ i = x - Len(r) + 1 => t[i] = 0
             /\ i > x - Len(r) + 1 => t[i] = 0
  <2>1. /\ i <= x - Len(q) => t[i] > 0
        /\ i = x - Len(q) + 1 => t[i] = c
        /\ i > x - Len(q) + 1 => t[i] = 0
    BY DEF QueueOK
  <2>2. i \in Int /\ Len(q) \in Int /\ x \in Int /\ Len(r) = Len(q) - 1 /\ c > 0
    BY <1>1
  <2>3. QED
    BY ONLY <2>1, <2>2
<1>4. /\ 0 \in 0 .. RetryMax - 1 /\ x \in 0 .. MaxPkts /\ ~(0 > 0)
      /\ t \in [1 .. MaxPkts -> 0 .. RetryMax]
      /\ Len(r) <= x /\ Len(r) <= NetPkt
  BY <1>1, <1>2 DEF QueueOK
<1>5. QueueOK(r, 0, t, x)
  BY ONLY <1>1, <1>2, <1>3, <1>4 DEF QueueOK, Pkt
<1>6. QED
  BY <1>5 DEF r

\* Net::doSend transmits the first packet: it stays if it asks for an ACK.
LEMMA SendStep ==
  ASSUME NEW q, NEW c, NEW t, NEW x, QueueOK(q, c, t, x), q # <<>>
  PROVE  LET u == [t EXCEPT ![Head(q).id] = @ + 1]
         IN  IF AsksAck(Head(q), c) THEN QueueOK(q, c + 1, u, x) ELSE QueueOK(Tail(q), 0, u, x)
<1> DEFINE r == Tail(q)
<1>a. r \in Seq(Pkt)
  BY TailOK
<1>b. Len(r) = Len(q) - 1 /\ Len(q) \in Nat \ {0}
  BY TailOK
<1>c. x \in Nat /\ Len(q) <= x /\ Len(q) <= NetPkt
  BY TailOK
<1>d. \A k \in 1 .. Len(r) : r[k].id = x - Len(r) + k
  BY TailOK
<1>0. /\ r \in Seq(Pkt) /\ Len(r) = Len(q) - 1 /\ Len(q) \in Nat \ {0}
      /\ x \in Nat /\ Len(q) <= x /\ Len(q) <= NetPkt
      /\ \A k \in 1 .. Len(r) : r[k].id = x - Len(r) + k
  BY <1>a, <1>b, <1>c, <1>d
<1>0a. Head(q) \in Pkt /\ Head(q).id = x - Len(q) + 1 /\ Head(q) = q[1]
  BY TailOK
<1> DEFINE u == [t EXCEPT ![Head(q).id] = @ + 1]
           h == x - Len(q) + 1
<1>1. /\ r \in Seq(Pkt) /\ Len(r) = Len(q) - 1 /\ Len(q) \in Nat \ {0}
      /\ x \in Nat /\ Len(q) <= x /\ Len(q) <= NetPkt
      /\ \A k \in 1 .. Len(r) : r[k].id = x - Len(r) + k
      /\ Head(q) \in Pkt /\ Head(q).id = h /\ Head(q) = q[1]
  BY <1>0, <1>0a
<1>2. /\ RetryMax \in Nat \ {0} /\ NetPkt \in Nat /\ c \in 0 .. RetryMax - 1
      /\ t \in [1 .. MaxPkts -> 0 .. RetryMax] /\ x \in 0 .. MaxPkts /\ MaxPkts \in Nat
      /\ c > 0 => q[1].ack
  BY ConstantsAssumption DEF QueueOK
<1>3. h \in 1 .. MaxPkts /\ h \in Nat
  BY <1>1, <1>2 DEF Pkt
<1>4. u = [t EXCEPT ![h] = @ + 1]
  BY <1>1
<1> HIDE DEF u, r, h
<1>5. t[h] = c
  BY <1>3 DEF QueueOK, h
<1>6. u \in [1 .. MaxPkts -> 0 .. RetryMax] /\ u[h] = c + 1
  BY <1>2, <1>3, <1>4, <1>5
<1>7. \A i \in 1 .. MaxPkts : i # h => u[i] = t[i]
  BY <1>2, <1>4
<1>8. ASSUME NEW i \in 1 .. MaxPkts
      PROVE  /\ i < h => u[i] > 0
             /\ i = h => u[i] = c + 1
             /\ i > h => u[i] = 0
  <2>1. i < h <=> i <= x - Len(q)
    BY <1>1 DEF h
  <2>2. /\ i < h => t[i] > 0
        /\ i > h => t[i] = 0
    BY <2>1 DEF QueueOK, h
  <2>3. i # h => u[i] = t[i]
    BY <1>7
  <2>4. QED
    BY <1>3, <1>6, <2>2, <2>3
<1>9. CASE AsksAck(Head(q), c)
  <2>1. q[1].ack /\ c + 1 \in 0 .. RetryMax - 1
    BY <1>1, <1>2, <1>9 DEF AsksAck
  <2>2. \A i \in 1 .. MaxPkts :
          /\ i <= x - Len(q) => u[i] > 0
          /\ i = x - Len(q) + 1 => u[i] = c + 1
          /\ i > x - Len(q) + 1 => u[i] = 0
    BY <1>1, <1>8 DEF h
  <2>3. QueueOK(q, c + 1, u, x)
    <3>1. /\ q \in Seq(Pkt) /\ Len(q) <= NetPkt /\ Len(q) <= x /\ x \in 0 .. MaxPkts
          /\ \A k \in 1 .. Len(q) : q[k].id = x - Len(q) + k
      BY DEF QueueOK, Pkt
    <3>2. QED
      BY ONLY q # <<>>, <1>6, <2>1, <2>2, <3>1 DEF QueueOK, Pkt
  <2>4. QED
    BY <1>9, <2>3 DEF u
<1>10. CASE ~AsksAck(Head(q), c)
  <2>1. \A i \in 1 .. MaxPkts :
          /\ i <= x - Len(r) => u[i] > 0
          /\ i = x - Len(r) + 1 => u[i] = 0
          /\ i > x - Len(r) + 1 => u[i] = 0
    <3>1. SUFFICES ASSUME NEW i \in 1 .. MaxPkts
                   PROVE  /\ i <= x - Len(r) => u[i] > 0
                          /\ i = x - Len(r) + 1 => u[i] = 0
                          /\ i > x - Len(r) + 1 => u[i] = 0
      OBVIOUS
    <3>2. x - Len(r) = h
      BY <1>1 DEF h
    <3>3. c + 1 > 0
      BY <1>2
    <3>4. QED
      BY <1>3, <1>8, <3>2, <3>3
  <2>2. Len(r) <= NetPkt /\ Len(r) <= x /\ 0 \in 0 .. RetryMax - 1 /\ ~(0 > 0)
    BY <1>1, <1>2
  <2>3. QueueOK(r, 0, u, x)
    BY ONLY <1>1, <1>2, <1>6, <2>1, <2>2 DEF QueueOK, Pkt
  <2>4. QED
    BY <1>10, <2>3 DEF u, r
<1>11. QED
  BY <1>9, <1>10

\* A step of one node leaves the queues of the others in order.
LEMMA UpdateNode ==
  ASSUME QueueInv, NEW n \in Nodes, NEW q, NEW c, NEW t, NEW x, QueueOK(q, c, t, x),
         buf' = [buf EXCEPT ![n] = q], sendCnt' = [sendCnt EXCEPT ![n] = c],
         tries' = [tries EXCEPT ![n] = t], nextId' = [nextId EXCEPT ![n] = x]
  PROVE  QueueInv'
<1>1. /\ buf \in [Nodes -> Seq(Pkt)] /\ sendCnt \in [Nodes -> Nat]
      /\ nextId \in [Nodes -> Nat] /\ tries \in [Nodes -> [1 .. MaxPkts -> Nat]]
      /\ \A m \in Nodes : QueueOK(buf[m], sendCnt[m], tries[m], nextId[m])
  BY DEF QueueInv, Pkt
<1>2. q \in Seq(Pkt) /\ c \in Nat /\ x \in Nat /\ t \in [1 .. MaxPkts -> Nat]
  <2>1. RetryMax \in Nat
    BY ConstantsAssumption
  <2>2. QED
    BY <2>1 DEF QueueOK, Pkt
<1>3. /\ buf' \in [Nodes -> Seq(Pkt)] /\ sendCnt' \in [Nodes -> Nat]
      /\ nextId' \in [Nodes -> Nat] /\ tries' \in [Nodes -> [1 .. MaxPkts -> Nat]]
  BY <1>1, <1>2
<1>4. ASSUME NEW m \in Nodes PROVE QueueOK(buf'[m], sendCnt'[m], tries'[m], nextId'[m])
  <2>1. CASE m = n
    <3>1. buf'[m] = q /\ sendCnt'[m] = c /\ tries'[m] = t /\ nextId'[m] = x
      BY <1>1, <2>1
    <3>2. QED
      BY <3>1
  <2>2. CASE m # n
    <3>1. buf'[m] = buf[m] /\ sendCnt'[m] = sendCnt[m] /\ tries'[m] = tries[m] /\ nextId'[m] = nextId[m]
      BY <1>1, <2>2
    <3>2. QED
      BY <1>1, <3>1
  <2>3. QED
    BY <2>1, <2>2
<1>5. QED
  BY <1>3, <1>4 DEF QueueInv, Pkt

\* A step that leaves the queues alone: other packets, ACKs, time, the network.
LEMMA UnchangedQueues ==
  ASSUME QueueInv, UNCHANGED <<buf, sendCnt, tries, nextId>>
  PROVE  QueueInv'
BY DEF QueueInv, QueueOK

\* Net::poll with an ACK pops a packet only if it waits for one.
LEMMA QueueLeftOK ==
  ASSUME QueueInv, NEW n \in Nodes
  PROVE  QueueOK(QueueLeft(n), CountLeft(n), tries[n], nextId[n])
<1>1. QueueOK(buf[n], sendCnt[n], tries[n], nextId[n])
  BY DEF QueueInv
<1>2. CASE Acked(n)
  <2>1. buf[n] # <<>> /\ sendCnt[n] > 0 /\ QueueLeft(n) = Tail(buf[n]) /\ CountLeft(n) = 0
    BY <1>2 DEF Acked, QueueLeft, CountLeft
  <2>2. QED
    BY <1>1, <2>1, PopStep
<1>3. CASE ~Acked(n)
  BY <1>1, <1>3 DEF QueueLeft, CountLeft
<1>4. QED
  BY <1>2, <1>3

\* Net::doSend with the queue q that is in order.
LEMMA DoSendStep ==
  ASSUME QueueInv, NEW n \in Nodes, NEW q, NEW c, NEW mine, NEW x,
         QueueOK(q, c, tries[n], x), q # <<>>, DoSend(n, q, c, mine),
         nextId' = [nextId EXCEPT ![n] = x]
  PROVE  QueueInv'
<1> DEFINE u == [tries[n] EXCEPT ![Head(q).id] = @ + 1]
<1>1. IF AsksAck(Head(q), c) THEN QueueOK(q, c + 1, u, x) ELSE QueueOK(Tail(q), 0, u, x)
  BY SendStep
<1>2. tries' = [tries EXCEPT ![n] = u]
  BY DEF DoSend
<1> HIDE DEF u
<1>3. CASE AsksAck(Head(q), c)
  <2>1. buf' = [buf EXCEPT ![n] = q] /\ sendCnt' = [sendCnt EXCEPT ![n] = c + 1]
    BY <1>3 DEF DoSend
  <2>2. QED
    BY <1>1, <1>2, <1>3, <2>1, UpdateNode
<1>4. CASE ~AsksAck(Head(q), c)
  <2>1. buf' = [buf EXCEPT ![n] = Tail(q)] /\ sendCnt' = [sendCnt EXCEPT ![n] = 0]
    BY <1>4 DEF DoSend
  <2>2. QED
    BY <1>1, <1>2, <1>4, <2>1, UpdateNode
<1>5. QED
  BY <1>3, <1>4

\* Net::send, with or without a transmission at once.
LEMMA SendKeepsQueue ==
  ASSUME QueueInv, NEW n \in Nodes, Send(n)
  PROVE  QueueInv'
<1>1. /\ nextId \in [Nodes -> Nat] /\ sendCnt \in [Nodes -> Nat]
      /\ tries \in [Nodes -> [1 .. MaxPkts -> Nat]] /\ buf \in [Nodes -> Seq(Pkt)]
      /\ QueueOK(buf[n], sendCnt[n], tries[n], nextId[n])
  BY DEF QueueInv, Pkt
<1>2. Len(buf[n]) < NetPkt /\ nextId[n] < MaxPkts /\ nextId' = [nextId EXCEPT ![n] = nextId[n] + 1]
  BY DEF Send
<1>3. nextId'[n] = nextId[n] + 1
  BY <1>1, <1>2
<1>4. PICK ack \in BOOLEAN :
        LET q == Append(buf[n], [id |-> nextId[n] + 1, ack |-> ack]) IN
        \/ /\ buf' = [buf EXCEPT ![n] = q]
           /\ UNCHANGED <<sendCnt, tries>>
        \/ DoSend(n, q, sendCnt[n], rx[n])
  BY <1>3 DEF Send
<1>5. QueueOK(Append(buf[n], [id |-> nextId[n] + 1, ack |-> ack]),
              sendCnt[n], tries[n], nextId[n] + 1)
  BY <1>1, <1>2, AppendStep
<1>6. Append(buf[n], [id |-> nextId[n] + 1, ack |-> ack]) # <<>>
  BY <1>1, <1>2, AppendStep
<1> DEFINE q == Append(buf[n], [id |-> nextId[n] + 1, ack |-> ack])
<1>7. (buf' = [buf EXCEPT ![n] = q] /\ UNCHANGED <<sendCnt, tries>>) \/ DoSend(n, q, sendCnt[n], rx[n])
  BY <1>4
<1>7a. QueueOK(q, sendCnt[n], tries[n], nextId[n] + 1) /\ q # <<>>
  BY <1>5, <1>6
<1> HIDE DEF q
<1>8. CASE buf' = [buf EXCEPT ![n] = q] /\ UNCHANGED <<sendCnt, tries>>
  <2>1. sendCnt' = [sendCnt EXCEPT ![n] = sendCnt[n]] /\ tries' = [tries EXCEPT ![n] = tries[n]]
    BY <1>1, <1>8
  <2>2. QED
    BY <1>2, <1>7a, <1>8, <2>1, UpdateNode
<1>9. CASE DoSend(n, q, sendCnt[n], rx[n])
  BY <1>2, <1>7a, <1>9, DoSendStep
<1>10. QED
  BY <1>7, <1>8, <1>9

\* Net::poll, with what it receives and what it transmits.
LEMMA PollKeepsQueue ==
  ASSUME QueueInv, NEW n \in Nodes, Poll(n)
  PROVE  QueueInv'
<1>1. /\ nextId \in [Nodes -> Nat] /\ tries \in [Nodes -> [1 .. MaxPkts -> Nat]]
      /\ QueueOK(QueueLeft(n), CountLeft(n), tries[n], nextId[n])
  BY QueueLeftOK DEF QueueInv
<1>2. ASSUME PollData(n) PROVE QueueInv'
  BY <1>2, UnchangedQueues DEF PollData, history
<1>3. ASSUME PollAck(n) \/ PollIdle(n) PROVE QueueInv'
  <2>1. /\ buf' = [buf EXCEPT ![n] = QueueLeft(n)]
        /\ sendCnt' = [sendCnt EXCEPT ![n] = CountLeft(n)]
        /\ UNCHANGED <<tries, nextId>>
    BY <1>3 DEF PollAck, PollIdle, history
  <2>2. SUFFICES ASSUME NEW t, NEW x, t = tries[n], x = nextId[n] PROVE QueueInv'
    OBVIOUS
  <2>3. tries' = [tries EXCEPT ![n] = t] /\ nextId' = [nextId EXCEPT ![n] = x]
    BY <1>1, <2>1, <2>2
  <2>4. QueueOK(QueueLeft(n), CountLeft(n), t, x)
    BY <1>1, <2>2
  <2>5. QED
    BY <2>1, <2>3, <2>4, UpdateNode
<1>4. ASSUME PollSend(n) PROVE QueueInv'
  <2>1. QueueLeft(n) # <<>> /\ DoSend(n, QueueLeft(n), CountLeft(n), None) /\ UNCHANGED nextId
    BY <1>4 DEF PollSend
  <2>2. nextId' = [nextId EXCEPT ![n] = nextId[n]]
    BY <1>1, <2>1
  <2>3. QED
    BY <1>1, <2>1, <2>2, DoSendStep
<1>5. QED
  BY <1>2, <1>3, <1>4 DEF Poll

\* The queues are empty at the start.
LEMMA QueueInit ==
  ASSUME Init
  PROVE  QueueInv
<1>1. RetryMax \in Nat \ {0} /\ NetPkt \in Nat /\ MaxPkts \in Nat
  BY ConstantsAssumption
<1>2. <<>> \in Seq(Pkt) /\ Len(<<>>) = 0
  OBVIOUS
<1>3. [i \in 1 .. MaxPkts |-> 0] \in [1 .. MaxPkts -> 0 .. RetryMax]
  BY <1>1
<1>4. QueueOK(<<>>, 0, [i \in 1 .. MaxPkts |-> 0], 0)
  BY <1>1, <1>2, <1>3 DEF QueueOK, Pkt
<1>5. /\ buf = [n \in Nodes |-> <<>>] /\ sendCnt = [n \in Nodes |-> 0]
      /\ tries = [n \in Nodes |-> [i \in 1 .. MaxPkts |-> 0]] /\ nextId = [n \in Nodes |-> 0]
  BY DEF Init
<1>6. QED
  BY <1>2, <1>4, <1>5 DEF QueueInv, Pkt

\* Every reachable queue is in order, whatever the network does.
THEOREM QueueInvariant == Spec => []QueueInv
<1>1. ASSUME QueueInv, [Next]_vars PROVE QueueInv'
  <2>1. ASSUME NEW n \in Nodes, Send(n) PROVE QueueInv'
    BY <1>1, <2>1, SendKeepsQueue
  <2>2. ASSUME NEW n \in Nodes, Poll(n) PROVE QueueInv'
    BY <1>1, <2>2, PollKeepsQueue
  <2>3. ASSUME NEW n \in Nodes, Tick(n) \/ HubRequest(n) PROVE QueueInv'
    BY <1>1, <2>3, UnchangedQueues DEF Tick, HubRequest, nodeVars, history
  <2>4. ASSUME GatewaySend \/ HubReceive \/ Lose \/ UNCHANGED vars PROVE QueueInv'
    BY <1>1, <2>4, UnchangedQueues DEF GatewaySend, HubReceive, Lose, vars, nodeVars, history
  <2>5. QED
    BY <1>1, <2>1, <2>2, <2>3, <2>4 DEF Next
<1>2. QED
  BY QueueInit, <1>1, PTL DEF Spec

\* The queue holds the last packets sent, each once and in their order.
THEOREM PacketsStayInOrder == Spec => []QueueInOrder
<1>1. QueueInv => QueueInOrder
  BY DEF QueueInv, QueueOK, QueueInOrder
<1>2. QED
  BY QueueInvariant, <1>1, PTL

\* No packet leaves the queue before it was on the air, whatever ACKs come in.
THEOREM NoPacketLeavesUnsent == Spec => []NoneLeavesUnsent
<1>1. ASSUME QueueInv, NEW n \in Nodes, NEW i \in 1 .. nextId[n] - Len(buf[n])
      PROVE  tries[n][i] > 0
  <2>1. QueueOK(buf[n], sendCnt[n], tries[n], nextId[n])
    BY <1>1 DEF QueueInv
  <2>2. /\ buf[n] \in Seq(Pkt) /\ nextId[n] \in 0 .. MaxPkts /\ MaxPkts \in Nat
        /\ \A j \in 1 .. MaxPkts : j <= nextId[n] - Len(buf[n]) => tries[n][j] > 0
    BY <2>1, ConstantsAssumption DEF QueueOK, Pkt
  <2>3. Len(buf[n]) \in Nat
    BY <2>2
  <2>4. i \in 1 .. MaxPkts /\ i <= nextId[n] - Len(buf[n])
    BY <1>1, <2>2, <2>3
  <2>5. QED
    BY <2>2, <2>4
<1>2. QueueInv => NoneLeavesUnsent
  BY <1>1 DEF NoneLeavesUnsent
<1>3. QED
  BY QueueInvariant, <1>2, PTL

\* sendCnt is the number of transmissions of the first packet, and no other packet
\* in the queue was transmitted.
THEOREM CountIsOfTheFirst == Spec => []CountsTheFirst
<1>1. ASSUME QueueInv, NEW n \in Nodes
      PROVE  /\ buf[n] = <<>> => sendCnt[n] = 0
             /\ \A k \in 1 .. Len(buf[n]) :
                  tries[n][buf[n][k].id] = IF k = 1 THEN sendCnt[n] ELSE 0
  <2>1. QueueOK(buf[n], sendCnt[n], tries[n], nextId[n])
    BY <1>1 DEF QueueInv
  <2>2. /\ buf[n] \in Seq(Pkt) /\ nextId[n] \in Nat /\ Len(buf[n]) \in Nat
        /\ sendCnt[n] \in Nat /\ (sendCnt[n] > 0 => buf[n] # <<>>)
        /\ \A j \in 1 .. MaxPkts :
             /\ j = nextId[n] - Len(buf[n]) + 1 => tries[n][j] = sendCnt[n]
             /\ j > nextId[n] - Len(buf[n]) + 1 => tries[n][j] = 0
        /\ \A k \in 1 .. Len(buf[n]) : buf[n][k].id = nextId[n] - Len(buf[n]) + k
    <3>1. RetryMax \in Nat \ {0} /\ MaxPkts \in Nat
      BY ConstantsAssumption
    <3>2. buf[n] \in Seq(Pkt)
      BY <2>1 DEF QueueOK, Pkt
    <3>3. QED
      BY <2>1, <3>1, <3>2 DEF QueueOK
  <2>3. ASSUME NEW k \in 1 .. Len(buf[n])
        PROVE  tries[n][buf[n][k].id] = IF k = 1 THEN sendCnt[n] ELSE 0
    <3>1. buf[n][k] \in Pkt
      BY <2>2
    <3>2. buf[n][k].id \in 1 .. MaxPkts /\ buf[n][k].id = nextId[n] - Len(buf[n]) + k
      BY <2>2, <3>1 DEF Pkt
    <3>3. CASE k = 1
      BY <2>2, <3>2, <3>3
    <3>4. CASE k # 1
      <4>1. buf[n][k].id > nextId[n] - Len(buf[n]) + 1
        BY <2>2, <3>2, <3>4
      <4>2. QED
        BY <2>2, <3>2, <3>4, <4>1
    <3>5. QED
      BY <3>3, <3>4
  <2>4. buf[n] = <<>> => sendCnt[n] = 0
    <3>1. ~(sendCnt[n] > 0) => sendCnt[n] = 0
      BY <2>2
    <3>2. QED
      BY <2>2, <3>1, Zenon
  <2>5. QED
    BY <2>3, <2>4, Zenon
<1>2. QueueInv => CountsTheFirst
  BY <1>1 DEF CountsTheFirst
<1>3. QED
  BY QueueInvariant, <1>2, PTL

-------------------------------------------------------------------------------
(* Counting in a sequence: what a datagram sent, received or lost changes.     *)

\* There are finitely many positions to count, and no element means none.
LEMMA NumberProperties ==
  ASSUME NEW S, NEW q \in Seq(S), NEW W
  PROVE  /\ IsFiniteSet({k \in 1 .. Len(q) : q[k] \in W})
         /\ Number(q, W) \in Nat
         /\ Number(q, W) = 0 <=> \A k \in 1 .. Len(q) : q[k] \notin W
<1> DEFINE P == {k \in 1 .. Len(q) : q[k] \in W}
<1>1. IsFiniteSet(P)
  <2>1. IsFiniteSet(1 .. Len(q))
    BY LenProperties, FS_Interval
  <2>2. QED
    BY <2>1, FS_Subset
<1>2. Cardinality(P) \in Nat /\ (Cardinality(P) = 0 <=> P = {})
  BY <1>1, FS_CardinalityType, FS_EmptySet
<1>3. Number(q, W) = Cardinality(P)
  BY DEF Number
<1>4. QED
  BY <1>1, <1>2, <1>3

\* One element more at the end.
LEMMA NumberAppend ==
  ASSUME NEW S, NEW q \in Seq(S), NEW e \in S, NEW W
  PROVE  Number(Append(q, e), W) = Number(q, W) + (IF e \in W THEN 1 ELSE 0)
<1> DEFINE P == {k \in 1 .. Len(q) : q[k] \in W}
           r == Append(q, e)
           R == {k \in 1 .. Len(r) : r[k] \in W}
<1>1. /\ Len(q) \in Nat /\ Len(r) = Len(q) + 1 /\ r[Len(q) + 1] = e
      /\ \A k \in 1 .. Len(q) : r[k] = q[k]
  BY AppendProperties, LenProperties
<1>2. IsFiniteSet(P) /\ Cardinality(P) \in Nat
  BY NumberProperties, FS_CardinalityType
<1>3. Number(q, W) = Cardinality(P) /\ Number(r, W) = Cardinality(R)
  BY DEF Number
<1> HIDE DEF r
<1>4. CASE e \in W
  <2>1. R = P \cup {Len(q) + 1}
    BY <1>1, <1>4
  <2>2. Len(q) + 1 \notin P
    BY <1>1
  <2>3. Cardinality(R) = Cardinality(P) + 1
    BY <1>2, <2>1, <2>2, FS_AddElement
  <2>4. QED
    BY <1>3, <1>4, <2>3 DEF r
<1>5. CASE e \notin W
  <2>1. R = P
    BY <1>1, <1>5
  <2> HIDE DEF P, R
  <2>2. QED
    BY <1>2, <1>3, <1>5, <2>1 DEF r
<1>6. QED
  BY <1>4, <1>5

\* One element less at the front.
LEMMA NumberTail ==
  ASSUME NEW S, NEW q \in Seq(S), q # <<>>, NEW W
  PROVE  Number(q, W) = Number(Tail(q), W) + (IF Head(q) \in W THEN 1 ELSE 0)
<1> DEFINE r == Tail(q)
           P == {k \in 1 .. Len(q) : q[k] \in W}
           R == {k \in 1 .. Len(r) : r[k] \in W}
           f == [k \in R |-> k + 1]
<1>1. /\ r \in Seq(S) /\ Len(q) \in Nat \ {0} /\ Len(r) = Len(q) - 1 /\ Head(q) = q[1]
      /\ \A k \in 1 .. Len(r) : r[k] = q[k + 1]
  BY HeadTailProperties, EmptySeq
<1>2. /\ IsFiniteSet(P) /\ Cardinality(P) \in Nat
      /\ IsFiniteSet(R) /\ Cardinality(R) \in Nat
  BY <1>1, NumberProperties, FS_CardinalityType
<1>3. Number(q, W) = Cardinality(P) /\ Number(r, W) = Cardinality(R)
  BY DEF Number
<1>4. Cardinality(P \ {1}) = Cardinality(R)
  <2>1. f \in [R -> P \ {1}]
    BY <1>1
  <2>2. \A a, b \in R : f[a] = f[b] => a = b
    BY <1>1
  <2>3. ASSUME NEW k \in P \ {1}
        PROVE  \E a \in R : f[a] = k
    <3>1. k - 1 \in 1 .. Len(r) /\ (k - 1) + 1 = k
      BY <1>1
    <3>2. k - 1 \in R
      BY <1>1, <3>1
    <3>3. QED
      BY <3>1, <3>2
  <2> HIDE DEF f
  <2>4. f \in Bijection(R, P \ {1})
    BY <2>1, <2>2, <2>3, Fun_IsBij
  <2>5. ExistsBijection(R, P \ {1})
    BY <2>4 DEF ExistsBijection
  <2>6. QED
    BY <1>2, <2>5, FS_Bijection
<1>5. CASE Head(q) \in W
  <2>1. 1 \in P
    BY <1>1, <1>5
  <2>2. Cardinality(P \ {1}) = Cardinality(P) - 1
    BY <1>2, <2>1, FS_RemoveElement
  <2> HIDE DEF P, R
  <2>3. QED
    BY <1>2, <1>3, <1>4, <1>5, <2>2
<1>6. CASE Head(q) \notin W
  <2>1. P \ {1} = P
    BY <1>1, <1>6
  <2> HIDE DEF P, R, f
  <2>2. Cardinality(P) = Cardinality(R)
    BY <1>4, <2>1
  <2>3. QED
    BY <1>2, <1>3, <1>6, <2>2
<1>7. QED
  BY <1>5, <1>6

\* The copies of packet i when packet h arrives.
LEMMA CopiesArrived ==
  ASSUME NEW a \in Seq(1 .. MaxPkts), NEW h \in 1 .. MaxPkts, NEW i
  PROVE  /\ Number(Append(a, h), {i}) = Number(a, {i}) + (IF h = i THEN 1 ELSE 0)
         /\ Number(a, {i}) \in Nat
<1>1. Number(Append(a, h), {i}) = Number(a, {i}) + (IF h \in {i} THEN 1 ELSE 0)
  BY NumberAppend
<1>2. Number(a, {i}) \in Nat
  BY NumberProperties
<1>3. QED
  BY <1>1, <1>2

-------------------------------------------------------------------------------
(* From a node to the hub: FlowOK, for what may happen to a datagram.          *)

\* A datagram is lost.
LEMMA FlowShorter ==
  ASSUME NEW n \in Nodes, NEW a \in Seq(1 .. MaxPkts), NEW q \in Seq(Packet), q # <<>>,
         NEW t \in [1 .. MaxPkts -> Nat], FlowOK(n, a, q, t)
  PROVE  FlowOK(n, a, Tail(q), t)
<1> DEFINE r == Tail(q)
<1>1. /\ r \in Seq(Packet) /\ Len(q) \in Nat \ {0} /\ Len(r) = Len(q) - 1
      /\ \A k \in 1 .. Len(r) : r[k] = q[k + 1] /\ k + 1 \in 1 .. Len(q)
  BY HeadTailProperties, EmptySeq
<1>2. ASSUME NEW i \in 1 .. MaxPkts
      PROVE  Number(a, {i}) + Number(r, DataOf(n, i)) <= t[i]
  <2>1. /\ Number(a, {i}) + Number(q, DataOf(n, i)) <= t[i]
        /\ Number(a, {i}) \in Nat /\ Number(r, DataOf(n, i)) \in Nat
        /\ Number(q, DataOf(n, i)) \in Nat
    BY <1>1, NumberProperties DEF FlowOK
  <2>2. Number(q, DataOf(n, i))
          = Number(r, DataOf(n, i)) + (IF Head(q) \in DataOf(n, i) THEN 1 ELSE 0)
    BY NumberTail
  <2>3. QED
    BY <2>1, <2>2
<1> HIDE DEF r
<1>3. ASSUME NEW k \in 1 .. Len(r), r[k] \in DataFrom(n)
      PROVE  /\ \A j \in 1 .. Len(a) : a[j] <= r[k].id
             /\ \A l \in 1 .. Len(r) : k < l /\ r[l] \in DataFrom(n) => r[k].id <= r[l].id
  <2>1. r[k] = q[k + 1] /\ k + 1 \in 1 .. Len(q) /\ q[k + 1] \in DataFrom(n)
    BY <1>1, <1>3
  <2>2. ASSUME NEW l \in 1 .. Len(r), k < l, r[l] \in DataFrom(n)
        PROVE  r[k].id <= r[l].id
    <3>1. r[l] = q[l + 1] /\ l + 1 \in 1 .. Len(q) /\ k + 1 < l + 1
      BY <1>1, <2>2
    <3>2. QED
      BY <2>1, <2>2, <3>1 DEF FlowOK
  <2>3. QED
    BY <2>1, <2>2 DEF FlowOK
<1>4. FlowOK(n, a, r, t)
  BY <1>2, <1>3 DEF FlowOK
<1>5. QED
  BY <1>4 DEF r

\* A datagram is added that is not a packet of n, or not older than all of them.
LEMMA FlowLonger ==
  ASSUME NEW n \in Nodes, NEW a \in Seq(1 .. MaxPkts), NEW q \in Seq(Packet),
         NEW p \in Packet,
         NEW t \in [1 .. MaxPkts -> Nat], NEW u \in [1 .. MaxPkts -> Nat],
         FlowOK(n, a, q, t),
         p \in DataFrom(n) =>
           /\ \A j \in 1 .. Len(a) : a[j] <= p.id
           /\ \A k \in 1 .. Len(q) : q[k] \in DataFrom(n) => q[k].id <= p.id,
         \A i \in 1 .. MaxPkts : t[i] + (IF p \in DataOf(n, i) THEN 1 ELSE 0) <= u[i]
  PROVE  FlowOK(n, a, Append(q, p), u)
<1> DEFINE r == Append(q, p)
<1>1. /\ r \in Seq(Packet) /\ Len(q) \in Nat /\ Len(r) = Len(q) + 1
      /\ r[Len(q) + 1] = p
      /\ \A k \in 1 .. Len(q) : r[k] = q[k]
  BY AppendProperties, LenProperties
<1>2. ASSUME NEW i \in 1 .. MaxPkts
      PROVE  Number(a, {i}) + Number(r, DataOf(n, i)) <= u[i]
  <2>1. /\ Number(a, {i}) + Number(q, DataOf(n, i)) <= t[i]
        /\ Number(a, {i}) \in Nat /\ Number(q, DataOf(n, i)) \in Nat
        /\ t[i] \in Nat /\ u[i] \in Nat
        /\ t[i] + (IF p \in DataOf(n, i) THEN 1 ELSE 0) <= u[i]
    BY <1>1, NumberProperties DEF FlowOK
  <2>2. Number(r, DataOf(n, i))
          = Number(q, DataOf(n, i)) + (IF p \in DataOf(n, i) THEN 1 ELSE 0)
    BY NumberAppend
  <2>3. QED
    BY <2>1, <2>2
<1> HIDE DEF r
<1>3. ASSUME NEW k \in 1 .. Len(r), r[k] \in DataFrom(n)
      PROVE  /\ \A j \in 1 .. Len(a) : a[j] <= r[k].id
             /\ \A l \in 1 .. Len(r) : k < l /\ r[l] \in DataFrom(n) => r[k].id <= r[l].id
  <2>1. CASE k = Len(q) + 1
    <3>1. r[k] = p /\ \A l \in 1 .. Len(r) : ~(k < l)
      BY <1>1, <2>1
    <3>2. QED
      BY <1>3, <3>1
  <2>2. CASE k # Len(q) + 1
    <3>1. k \in 1 .. Len(q) /\ r[k] = q[k]
      BY <1>1, <2>2
    <3>2. ASSUME NEW l \in 1 .. Len(r), k < l, r[l] \in DataFrom(n)
          PROVE  r[k].id <= r[l].id
      <4>1. CASE l = Len(q) + 1
        BY <1>1, <1>3, <3>1, <3>2, <4>1
      <4>2. CASE l # Len(q) + 1
        <5>1. l \in 1 .. Len(q) /\ r[l] = q[l]
          BY <1>1, <4>2
        <5>2. QED
          BY <1>3, <3>1, <3>2, <5>1 DEF FlowOK
      <4>3. QED
        BY <4>1, <4>2
    <3>3. QED
      BY <1>3, <3>1, <3>2 DEF FlowOK
  <2>3. QED
    BY <2>1, <2>2
<1>4. FlowOK(n, a, r, u)
  BY <1>2, <1>3 DEF FlowOK
<1>5. QED
  BY <1>4 DEF r

\* The hub takes the first datagram, a packet of n.
LEMMA FlowReceived ==
  ASSUME NEW n \in Nodes, NEW a \in Seq(1 .. MaxPkts), NEW q \in Seq(Packet), q # <<>>,
         NEW t \in [1 .. MaxPkts -> Nat], FlowOK(n, a, q, t),
         NEW h \in 1 .. MaxPkts, Head(q) \in DataOf(n, h)
  PROVE  FlowOK(n, Append(a, h), Tail(q), t)
<1> DEFINE r == Tail(q)
           b == Append(a, h)
<1>1. /\ r \in Seq(Packet) /\ Len(q) \in Nat \ {0} /\ Len(r) = Len(q) - 1
      /\ Head(q) = q[1] /\ 1 \in 1 .. Len(q)
      /\ \A k \in 1 .. Len(r) : r[k] = q[k + 1] /\ k + 1 \in 1 .. Len(q)
  BY HeadTailProperties, EmptySeq
<1>2. /\ b \in Seq(1 .. MaxPkts) /\ Len(a) \in Nat /\ Len(b) = Len(a) + 1
      /\ b[Len(a) + 1] = h
      /\ \A j \in 1 .. Len(a) : b[j] = a[j]
  BY AppendProperties, LenProperties
<1>3. ASSUME NEW i \in 1 .. MaxPkts
      PROVE  Number(b, {i}) + Number(r, DataOf(n, i)) <= t[i]
  <2>1. /\ Number(a, {i}) + Number(q, DataOf(n, i)) <= t[i]
        /\ Number(a, {i}) \in Nat /\ Number(r, DataOf(n, i)) \in Nat
        /\ t[i] \in Nat
    BY <1>1, NumberProperties DEF FlowOK
  <2>2. Number(q, DataOf(n, i))
          = Number(r, DataOf(n, i)) + (IF Head(q) \in DataOf(n, i) THEN 1 ELSE 0)
    BY NumberTail
  <2>3. Number(b, {i}) = Number(a, {i}) + (IF h \in {i} THEN 1 ELSE 0)
    BY CopiesArrived
  <2>4. h = i => Head(q) \in DataOf(n, i)
    OBVIOUS
  <2>5. QED
    BY <2>1, <2>2, <2>3, <2>4
<1>4. Head(q) \in DataFrom(n) /\ Head(q).id = h
  BY DEF DataOf
<1> HIDE DEF r, b
<1>5. \A j \in 1 .. Len(a) : a[j] <= h
  BY <1>1, <1>4 DEF FlowOK
<1>6. ASSUME NEW j \in 1 .. Len(b), NEW k \in 1 .. Len(b), j < k
      PROVE  b[j] <= b[k]
  <2>1. j \in 1 .. Len(a) /\ b[j] = a[j]
    BY <1>2, <1>6
  <2>2. CASE k = Len(a) + 1
    BY <1>2, <1>5, <2>1, <2>2
  <2>3. CASE k # Len(a) + 1
    <3>1. k \in 1 .. Len(a) /\ b[k] = a[k]
      BY <1>2, <2>3
    <3>2. QED
      BY <1>6, <2>1, <3>1 DEF FlowOK
  <2>4. QED
    BY <2>2, <2>3
<1>7. ASSUME NEW k \in 1 .. Len(r), r[k] \in DataFrom(n)
      PROVE  /\ \A j \in 1 .. Len(b) : b[j] <= r[k].id
             /\ \A l \in 1 .. Len(r) : k < l /\ r[l] \in DataFrom(n) => r[k].id <= r[l].id
  <2>1. /\ r[k] = q[k + 1] /\ k + 1 \in 1 .. Len(q) /\ q[k + 1] \in DataFrom(n)
        /\ 1 < k + 1
    BY <1>1, <1>7
  <2>2. ASSUME NEW j \in 1 .. Len(b)
        PROVE  b[j] <= r[k].id
    <3>1. CASE j = Len(a) + 1
      <4>1. q[1].id <= q[k + 1].id
        BY <1>1, <1>4, <2>1 DEF FlowOK
      <4>2. QED
        BY <1>1, <1>2, <1>4, <2>1, <3>1, <4>1
    <3>2. CASE j # Len(a) + 1
      <4>1. j \in 1 .. Len(a) /\ b[j] = a[j]
        BY <1>2, <3>2
      <4>2. QED
        BY <2>1, <4>1 DEF FlowOK
    <3>3. QED
      BY <3>1, <3>2
  <2>3. ASSUME NEW l \in 1 .. Len(r), k < l, r[l] \in DataFrom(n)
        PROVE  r[k].id <= r[l].id
    <3>1. r[l] = q[l + 1] /\ l + 1 \in 1 .. Len(q) /\ k + 1 < l + 1
      BY <1>1, <2>3
    <3>2. QED
      BY <2>1, <2>3, <3>1 DEF FlowOK
  <2>4. QED
    BY <2>2, <2>3
<1>8. FlowOK(n, b, r, t)
  BY <1>3, <1>6, <1>7 DEF FlowOK
<1>9. QED
  BY <1>8 DEF r, b

-------------------------------------------------------------------------------
(* The types of the air and the network, action by action.                     *)

\* The packets that the actions put on the air.
LEMMA PacketShapes ==
  ASSUME NEW n \in Nodes
  PROVE  /\ Request(n) \in Packet /\ Ack(n) \in Packet /\ Done(n) \in Packet
         /\ \A i \in 1 .. MaxPkts : \A ack \in BOOLEAN :
              Data(n, i, ack) \in Packet /\ Data(n, i, ack) \in DataOf(n, i)
<1>1. MaxPkts \in Nat /\ 0 \in 0 .. MaxPkts
  BY ConstantsAssumption
<1>2. Request(n) \in Packet
  BY <1>1 DEF Request, Packet
<1>3. Ack(n) \in Packet
  BY <1>1 DEF Ack, Packet
<1>4. Done(n) \in Packet
  BY <1>1 DEF Done, Packet
<1>5. ASSUME NEW i \in 1 .. MaxPkts, NEW ack \in BOOLEAN
      PROVE  Data(n, i, ack) \in Packet /\ Data(n, i, ack) \in DataOf(n, i)
  <2>1. i \in 0 .. MaxPkts
    BY <1>1
  <2>2. Data(n, i, ack) \in Packet
    BY <2>1 DEF Data, Packet
  <2>3. QED
    BY <2>2 DEF Data, DataOf, DataFrom
<1>6. QED
  BY <1>2, <1>3, <1>4, <1>5

\* A datagram that does not fit is lost.
LEMMA PostProperties ==
  ASSUME NEW q \in Seq(Packet), Len(q) <= MaxFlight, NEW p \in Packet
  PROVE  /\ Post(q, p) \in Seq(Packet) /\ Len(Post(q, p)) <= MaxFlight
         /\ Post(q, p) = q \/ Post(q, p) = Append(q, p)
<1>1. Len(q) \in Nat /\ Append(q, p) \in Seq(Packet) /\ Len(Append(q, p)) = Len(q) + 1
  BY AppendProperties, LenProperties
<1>2. MaxFlight \in Nat
  BY ConstantsAssumption
<1>3. QED
  BY <1>1, <1>2 DEF Post

\* What a queue of datagrams is after the first was taken.
LEMMA TailProperties ==
  ASSUME NEW q \in Seq(Packet), Len(q) <= MaxFlight, q # <<>>
  PROVE  /\ Tail(q) \in Seq(Packet) /\ Len(Tail(q)) <= MaxFlight
         /\ Head(q) = q[1] /\ 1 \in 1 .. Len(q) /\ Head(q) \in Packet
         /\ \A k \in 1 .. Len(Tail(q)) : Tail(q)[k] = q[k + 1] /\ k + 1 \in 1 .. Len(q)
<1>1. /\ Tail(q) \in Seq(Packet) /\ Len(q) \in Nat \ {0} /\ Len(Tail(q)) = Len(q) - 1
      /\ Head(q) = q[1] /\ Head(q) \in Packet
      /\ \A k \in 1 .. Len(Tail(q)) : Tail(q)[k] = q[k + 1]
  BY HeadTailProperties, EmptySeq
<1>2. MaxFlight \in Nat
  BY ConstantsAssumption
<1>3. QED
  BY <1>1, <1>2

\* What a transmission of a node does to the radios and to the hub's datagrams.
LEMMA TransmitTypes ==
  ASSUME AirInv, NEW n \in Nodes, NEW p \in Packet, p.kind = "data" => p.id # 0,
         NEW mine \in Packet \cup {None}, Transmit(n, p, mine)
  PROVE  /\ rx' \in [Nodes -> Packet \cup {None}]
         /\ toHub' \in Seq(Packet) /\ Len(toHub') <= MaxFlight
         /\ \A k \in 1 .. Len(toHub') : toHub'[k].kind = "data" => toHub'[k].id # 0
         /\ toHub' = toHub \/ toHub' = Append(toHub, p)
<1>1. /\ toHub \in Seq(Packet) /\ Len(toHub) <= MaxFlight /\ Len(toHub) \in Nat
      /\ \A k \in 1 .. Len(toHub) : toHub[k].kind = "data" => toHub[k].id # 0
      /\ rx \in [Nodes -> Packet \cup {None}]
  BY LenProperties DEF AirInv
<1>2. rx' \in [Nodes -> Packet \cup {None}]
  <2>1. PICK R \in SUBSET {m \in InRange(n, p) : rx[m] = None} :
          rx' = [m \in Nodes |-> IF m = n THEN mine ELSE IF m \in R THEN p ELSE rx[m]]
    BY DEF Transmit
  <2>2. QED
    BY <1>1, <2>1
<1>3. /\ toHub' = toHub \/ toHub' = Append(toHub, p)
      /\ toHub' \in Seq(Packet) /\ Len(toHub') <= MaxFlight
  <2>1. toHub' = toHub \/ toHub' = Post(toHub, p)
    BY DEF Transmit
  <2>2. QED
    BY <1>1, <2>1, PostProperties
<1>4. \A k \in 1 .. Len(toHub') : toHub'[k].kind = "data" => toHub'[k].id # 0
  <2>1. CASE toHub' = toHub
    BY <1>1, <2>1
  <2>2. CASE toHub' = Append(toHub, p)
    <3>1. SUFFICES ASSUME NEW k \in 1 .. Len(toHub')
                   PROVE  toHub'[k].kind = "data" => toHub'[k].id # 0
      OBVIOUS
    <3>2. k = Len(toHub) + 1 \/ k \in 1 .. Len(toHub)
      BY <1>1, <2>2
    <3>3. QED
      BY <1>1, <2>2, <3>2
  <2>3. QED
    BY <1>3, <2>1, <2>2
<1>5. QED
  BY <1>2, <1>3, <1>4

\* Net::doSend keeps the types, and the time of the transmission.
LEMMA DoSendTypes ==
  ASSUME AirInv, NEW n \in Nodes, NEW q \in Seq(Pkt), q # <<>>, NEW c \in Nat,
         NEW mine \in Packet \cup {None}, DoSend(n, q, c, mine),
         UNCHANGED <<queuedAck, now, toGw, hubVars>>
  PROVE  AirInv'
<1>1. Head(q) \in Pkt
  BY HeadTailProperties
<1>2. /\ Head(q).id \in 1 .. MaxPkts /\ AsksAck(Head(q), c) \in BOOLEAN
      /\ MaxPkts \in Nat
  BY <1>1, ConstantsAssumption DEF Pkt, AsksAck
<1> DEFINE p == Data(n, Head(q).id, AsksAck(Head(q), c))
<1>3. p \in Packet /\ p.id # 0
  <2>1. p \in Packet /\ p \in DataOf(n, Head(q).id)
    BY <1>2, PacketShapes
  <2>2. p.id = Head(q).id
    BY <2>1 DEF DataOf
  <2>3. QED
    BY <1>2, <2>1, <2>2
<1>4. Transmit(n, p, mine)
  BY DEF DoSend
<1> HIDE DEF p
<1>5. /\ rx' \in [Nodes -> Packet \cup {None}]
      /\ toHub' \in Seq(Packet) /\ Len(toHub') <= MaxFlight
      /\ \A k \in 1 .. Len(toHub') : toHub'[k].kind = "data" => toHub'[k].id # 0
  BY <1>3, <1>4, TransmitTypes
<1>6. sendTime' \in [Nodes -> 0 .. ClockMod - 1]
  BY DEF AirInv, DoSend
<1>7. QED
  BY <1>5, <1>6 DEF AirInv, hubVars

\* Every step keeps the types.
LEMMA AirStep ==
  ASSUME QueueInv, AirInv, [Next]_vars
  PROVE  AirInv'
<1>1. ASSUME NEW n \in Nodes, Tick(n)
      PROVE  AirInv'
  <2>1. PICK d \in Gaps : now' = [now EXCEPT ![n] = (now[n] + d) % ClockMod]
    BY <1>1 DEF Tick
  <2>2. (now[n] + d) % ClockMod \in 0 .. ClockMod - 1
    <3>1. now[n] \in Int /\ d \in Nat /\ ClockMod \in Nat \ {0}
      BY ConstantsAssumption DEF AirInv
    <3>2. QED
      BY <3>1
  <2>3. now' \in [Nodes -> 0 .. ClockMod - 1]
    BY <2>1, <2>2 DEF AirInv
  <2>4. QED
    BY <1>1, <2>3 DEF Tick, AirInv, hubVars
<1>2. ASSUME NEW n \in Nodes, Send(n)
      PROVE  AirInv'
  <2>1. /\ QueueOK(buf[n], sendCnt[n], tries[n], nextId[n])
        /\ nextId' = [nextId EXCEPT ![n] = nextId[n] + 1]
        /\ nextId \in [Nodes -> Nat] /\ sendCnt[n] \in Nat /\ rx[n] \in Packet \cup {None}
        /\ UNCHANGED <<queuedAck, now, toGw, hubVars>>
    BY <1>2 DEF Send, QueueInv, AirInv
  <2>2. nextId'[n] = nextId[n] + 1 /\ Len(buf[n]) < NetPkt /\ nextId[n] < MaxPkts
    BY <1>2, <2>1 DEF Send
  <2>3. PICK ack \in BOOLEAN :
          \/ UNCHANGED <<sendTime, rx, toHub>>
          \/ DoSend(n, Append(buf[n], [id |-> nextId[n] + 1, ack |-> ack]), sendCnt[n], rx[n])
    BY <1>2, <2>2 DEF Send
  <2> DEFINE q == Append(buf[n], [id |-> nextId[n] + 1, ack |-> ack])
  <2>4. QueueOK(q, sendCnt[n], tries[n], nextId[n] + 1) /\ q # <<>>
    BY <2>1, <2>2, AppendStep
  <2>5. q \in Seq(Pkt)
    BY <2>4 DEF QueueOK, Pkt
  <2>6. UNCHANGED <<sendTime, rx, toHub>> \/ DoSend(n, q, sendCnt[n], rx[n])
    BY <2>3
  <2> HIDE DEF q
  <2>7. CASE UNCHANGED <<sendTime, rx, toHub>>
    BY <2>1, <2>7 DEF AirInv, hubVars
  <2>8. CASE DoSend(n, q, sendCnt[n], rx[n])
    BY <2>1, <2>4, <2>5, <2>8, DoSendTypes
  <2>9. QED
    BY <2>6, <2>7, <2>8
<1>3. ASSUME NEW n \in Nodes, PollData(n)
      PROVE  AirInv'
  <2>1. rx[n] \in Packet
    BY <1>3 DEF AirInv, PollData, HasData
  <2>2. rx[n].node \in Nodes
    BY <2>1 DEF Packet
  <2>3. queuedAck' \in [Nodes -> Nodes \cup {None}] /\ rx' \in [Nodes -> Packet \cup {None}]
    BY <1>3, <2>2 DEF AirInv, PollData
  <2>4. QED
    BY <1>3, <2>3 DEF AirInv, PollData, hubVars
<1>4. ASSUME NEW n \in Nodes, PollAck(n)
      PROVE  AirInv'
  <2>1. queuedAck[n] \in Nodes /\ queuedAck' \in [Nodes -> Nodes \cup {None}]
    BY <1>4 DEF AirInv, PollAck
  <2>2. PICK p \in Packet : p.kind # "data" /\ Transmit(n, p, None)
    <3>1. Done(n) \in Packet /\ Ack(queuedAck[n]) \in Packet
      BY <2>1, PacketShapes
    <3>2. Done(n).kind # "data" /\ Ack(queuedAck[n]).kind # "data"
      BY DEF Done, Ack
    <3>3. Transmit(n, Done(n), None) \/ Transmit(n, Ack(queuedAck[n]), None)
      BY <1>4 DEF PollAck
    <3>4. QED
      BY <3>1, <3>2, <3>3
  <2>3. /\ rx' \in [Nodes -> Packet \cup {None}]
        /\ toHub' \in Seq(Packet) /\ Len(toHub') <= MaxFlight
        /\ \A k \in 1 .. Len(toHub') : toHub'[k].kind = "data" => toHub'[k].id # 0
    BY <2>2, TransmitTypes
  <2>4. QED
    BY <1>4, <2>1, <2>3 DEF AirInv, PollAck, hubVars
<1>5. ASSUME NEW n \in Nodes, PollSend(n)
      PROVE  AirInv'
  <2>1. QueueOK(QueueLeft(n), CountLeft(n), tries[n], nextId[n]) /\ QueueLeft(n) # <<>>
    BY <1>5, QueueLeftOK DEF PollSend
  <2>2. QueueLeft(n) \in Seq(Pkt) /\ CountLeft(n) \in Nat
    BY <2>1, ConstantsAssumption DEF QueueOK, Pkt
  <2>3. /\ DoSend(n, QueueLeft(n), CountLeft(n), None)
        /\ UNCHANGED <<queuedAck, now, toGw, hubVars>>
    BY <1>5 DEF PollSend
  <2>4. QED
    BY <2>1, <2>2, <2>3, DoSendTypes
<1>6. ASSUME NEW n \in Nodes, PollIdle(n)
      PROVE  AirInv'
  BY <1>6 DEF AirInv, PollIdle, hubVars
<1>7. ASSUME NEW n \in Nodes, HubRequest(n)
      PROVE  AirInv'
  <2>1. Request(n) \in Packet
    BY PacketShapes
  <2>2. toGw' \in Seq(Packet) /\ Len(toGw') <= MaxFlight
    BY <1>7, <2>1, PostProperties DEF AirInv, HubRequest
  <2>3. reqs' \in 0 .. MaxReqs
    BY <1>7, ConstantsAssumption DEF AirInv, HubRequest
  <2>4. QED
    BY <1>7, <2>2, <2>3 DEF AirInv, HubRequest, nodeVars
<1>8. CASE GatewaySend
  <2>1. /\ toGw' \in Seq(Packet) /\ Len(toGw') <= MaxFlight /\ Head(toGw) \in Packet
    BY <1>8, TailProperties DEF AirInv, GatewaySend
  <2>2. rx' = rx \/ rx' = [rx EXCEPT ![Head(toGw).node] = Head(toGw)]
    BY <1>8 DEF GatewaySend
  <2>3. rx' \in [Nodes -> Packet \cup {None}]
    BY <2>1, <2>2 DEF AirInv
  <2>4. QED
    BY <1>8, <2>1, <2>3 DEF AirInv, GatewaySend, nodeVars, hubVars
<1>9. CASE HubReceive
  <2> DEFINE p == Head(toHub)
  <2>1. /\ toHub' \in Seq(Packet) /\ Len(toHub') <= MaxFlight /\ p \in Packet
        /\ p = toHub[1] /\ 1 \in 1 .. Len(toHub) /\ toHub' = Tail(toHub)
        /\ \A k \in 1 .. Len(toHub') : toHub'[k] = toHub[k + 1] /\ k + 1 \in 1 .. Len(toHub)
    BY <1>9, TailProperties DEF AirInv, HubReceive
  <2>2. p.node \in Nodes /\ p.id \in 0 .. MaxPkts
    BY <2>1 DEF Packet
  <2>3. \A k \in 1 .. Len(toHub') : toHub'[k].kind = "data" => toHub'[k].id # 0
    BY <2>1 DEF AirInv
  <2>4. CASE p.kind = "data"
    <3>1. p.id \in 1 .. MaxPkts
      <4>1. p.id # 0
        BY <2>1, <2>4 DEF AirInv
      <4>2. QED
        BY <2>2, <4>1, ConstantsAssumption
    <3>2. /\ toGw' = toGw \/ toGw' = Post(toGw, Ack(p.node))
          /\ arrived' = [arrived EXCEPT ![p.node] = Append(arrived[p.node], p.id)]
      BY <1>9, <2>4 DEF HubReceive
    <3>3. toGw' \in Seq(Packet) /\ Len(toGw') <= MaxFlight
      BY <2>2, <3>2, PacketShapes, PostProperties DEF AirInv
    <3>4. arrived' \in [Nodes -> Seq(1 .. MaxPkts)]
      <4>1. arrived[p.node] \in Seq(1 .. MaxPkts)
        BY <2>2 DEF AirInv
      <4>2. Append(arrived[p.node], p.id) \in Seq(1 .. MaxPkts)
        BY <3>1, <4>1, AppendProperties
      <4>3. QED
        BY <3>2, <4>2 DEF AirInv
    <3>5. QED
      BY <1>9, <2>1, <2>3, <3>3, <3>4 DEF AirInv, HubReceive, nodeVars
  <2>5. CASE p.kind # "data"
    BY <1>9, <2>1, <2>3, <2>5 DEF AirInv, HubReceive, nodeVars
  <2>6. QED
    BY <2>4, <2>5
<1>10. CASE Lose
  <2>1. /\ toHub # <<>> =>
             /\ Tail(toHub) \in Seq(Packet) /\ Len(Tail(toHub)) <= MaxFlight
             /\ \A k \in 1 .. Len(Tail(toHub)) :
                  Tail(toHub)[k] = toHub[k + 1] /\ k + 1 \in 1 .. Len(toHub)
        /\ toGw # <<>> => Tail(toGw) \in Seq(Packet) /\ Len(Tail(toGw)) <= MaxFlight
    BY TailProperties DEF AirInv
  <2>2. \/ toHub # <<>> /\ toHub' = Tail(toHub) /\ UNCHANGED toGw
        \/ toGw # <<>> /\ toGw' = Tail(toGw) /\ UNCHANGED toHub
    BY <1>10 DEF Lose
  <2>3. /\ toHub' \in Seq(Packet) /\ Len(toHub') <= MaxFlight
        /\ toGw' \in Seq(Packet) /\ Len(toGw') <= MaxFlight
        /\ \A k \in 1 .. Len(toHub') : toHub'[k].kind = "data" => toHub'[k].id # 0
    BY <2>1, <2>2 DEF AirInv
  <2>4. QED
    BY <1>10, <2>3 DEF AirInv, Lose, nodeVars, hubVars
<1>11. CASE UNCHANGED vars
  BY <1>11 DEF AirInv, vars, nodeVars, hubVars
<1>12. QED
  BY <1>1, <1>2, <1>3, <1>4, <1>5, <1>6, <1>7, <1>8, <1>9, <1>10, <1>11 DEF Next, Poll

\* Nothing is on the air at the start.
LEMMA AirInit == Init => AirInv
<1> SUFFICES ASSUME Init PROVE AirInv
  OBVIOUS
<1>1. /\ 0 \in 0 .. ClockMod - 1 /\ 0 \in 0 .. MaxReqs /\ 0 <= MaxFlight
  BY ConstantsAssumption
<1>2. <<>> \in Seq(Packet) /\ <<>> \in Seq(1 .. MaxPkts) /\ Len(<<>>) = 0
  BY EmptySeq
<1>3. QED
  BY <1>1, <1>2 DEF Init, AirInv

\* Every reachable state has the types.
LEMMA AirInvariant == Spec => []AirInv
BY AirInit, AirStep, QueueInvariant, PTL DEF Spec

\* Every variable keeps the values that Net.cpp and the hub give it: the queue
\* never holds more than NET_PKT packets, and no packet is transmitted more than
\* NET_RETRY_MAX times, whatever the radio and the network do.
THEOREM NetTypes == Spec => []TypeOK
<1>1. ASSUME QueueInv, AirInv PROVE TypeOK
  <2>1. ASSUME NEW n \in Nodes
        PROVE  /\ buf[n] \in Seq([id : 1 .. MaxPkts, ack : BOOLEAN])
               /\ Len(buf[n]) <= NetPkt /\ sendCnt[n] \in 0 .. RetryMax
               /\ nextId[n] \in 0 .. MaxPkts /\ tries[n] \in [1 .. MaxPkts -> 0 .. RetryMax]
    <3>1. QueueOK(buf[n], sendCnt[n], tries[n], nextId[n])
      BY <1>1 DEF QueueInv
    <3>2. QED
      BY <3>1, ConstantsAssumption DEF QueueOK
  <2>2. /\ buf \in [Nodes -> Seq([id : 1 .. MaxPkts, ack : BOOLEAN])]
        /\ sendCnt \in [Nodes -> 0 .. RetryMax] /\ nextId \in [Nodes -> 0 .. MaxPkts]
        /\ tries \in [Nodes -> [1 .. MaxPkts -> 0 .. RetryMax]]
        /\ \A n \in Nodes : Len(buf[n]) <= NetPkt
    BY <1>1, <2>1 DEF QueueInv
  <2>3. QED
    BY <1>1, <2>2 DEF AirInv, TypeOK
<1>2. QED
  BY <1>1, QueueInvariant, AirInvariant, PTL

-------------------------------------------------------------------------------
(* The order in which packets arrive, action by action.                        *)

\* A transmission that is lost.
LEMMA FlowLost ==
  ASSUME NEW n \in Nodes, NEW a \in Seq(1 .. MaxPkts), NEW q \in Seq(Packet),
         NEW t \in [1 .. MaxPkts -> Nat], NEW u \in [1 .. MaxPkts -> Nat],
         FlowOK(n, a, q, t), \A i \in 1 .. MaxPkts : t[i] <= u[i]
  PROVE  FlowOK(n, a, q, u)
<1>1. ASSUME NEW i \in 1 .. MaxPkts
      PROVE  Number(a, {i}) + Number(q, DataOf(n, i)) <= u[i]
  <2>1. /\ Number(a, {i}) + Number(q, DataOf(n, i)) <= t[i]
        /\ Number(a, {i}) \in Nat /\ Number(q, DataOf(n, i)) \in Nat
        /\ t[i] \in Nat /\ u[i] \in Nat /\ t[i] <= u[i]
    BY NumberProperties DEF FlowOK
  <2>2. QED
    BY <2>1
<1>2. QED
  BY <1>1 DEF FlowOK

\* What the proofs need to know of the flow from node m to the hub.
LEMMA FlowShapes ==
  ASSUME QueueInv, AirInv, NEW m \in Nodes
  PROVE  /\ arrived[m] \in Seq(1 .. MaxPkts) /\ toHub \in Seq(Packet)
         /\ Len(toHub) <= MaxFlight
         /\ tries[m] \in [1 .. MaxPkts -> Nat] /\ tries \in [Nodes -> [1 .. MaxPkts -> Nat]]
BY DEF QueueInv, AirInv

\* The copies of packet i that arrived and those that are on their way.
LEMMA FlowNumbers ==
  ASSUME QueueInv, AirInv, ArriveInv, NEW n \in Nodes, NEW i \in 1 .. MaxPkts
  PROVE  /\ Number(arrived[n], {i}) + Number(toHub, DataOf(n, i)) <= tries[n][i]
         /\ Number(arrived[n], {i}) \in Nat /\ Number(toHub, DataOf(n, i)) \in Nat
         /\ tries[n][i] \in Nat
<1>1. FlowOK(n, arrived[n], toHub, tries[n])
  BY DEF ArriveInv
<1>2. /\ arrived[n] \in Seq(1 .. MaxPkts) /\ toHub \in Seq(Packet)
      /\ tries[n] \in [1 .. MaxPkts -> Nat]
  BY FlowShapes
<1>3. (\A W : Number(arrived[n], W) \in Nat) /\ (\A W : Number(toHub, W) \in Nat)
  BY <1>2, NumberProperties
<1>4. Number(arrived[n], {i}) + Number(toHub, DataOf(n, i)) <= tries[n][i]
  BY <1>1 DEF FlowOK
<1>5. Number(arrived[n], {i}) \in Nat /\ Number(toHub, DataOf(n, i)) \in Nat
  BY <1>3, Zenon
<1>6. QED
  BY <1>2, <1>4, <1>5

\* No packet that was transmitted is behind the one that is transmitted now.
LEMMA FirstIsLast ==
  ASSUME QueueInv, AirInv, ArriveInv, NEW n \in Nodes,
         NEW q, NEW c, NEW x, QueueOK(q, c, tries[n], x), q # <<>>
  PROVE  /\ Head(q).id \in 1 .. MaxPkts
         /\ \A j \in 1 .. Len(arrived[n]) : arrived[n][j] <= Head(q).id
         /\ \A k \in 1 .. Len(toHub) :
              toHub[k] \in DataFrom(n) => toHub[k].id <= Head(q).id
<1>1. /\ Head(q) \in Pkt /\ Head(q).id = x - Len(q) + 1 /\ x \in Nat
      /\ Len(q) \in Nat \ {0} /\ MaxPkts \in Nat
  BY TailOK, ConstantsAssumption
<1>2. Head(q).id \in 1 .. MaxPkts
  BY <1>1 DEF Pkt
<1>3. ASSUME NEW i \in 1 .. MaxPkts, tries[n][i] # 0
      PROVE  i <= Head(q).id
  <2>1. i > x - Len(q) + 1 => tries[n][i] = 0
    BY DEF QueueOK
  <2>2. QED
    BY <1>1, <1>3, <2>1
<1>4. ASSUME NEW i \in 1 .. MaxPkts,
             \/ \E j \in 1 .. Len(arrived[n]) : arrived[n][j] \in {i}
             \/ \E k \in 1 .. Len(toHub) : toHub[k] \in DataOf(n, i)
      PROVE  tries[n][i] # 0
  <2>1. /\ Number(arrived[n], {i}) + Number(toHub, DataOf(n, i)) <= tries[n][i]
        /\ Number(arrived[n], {i}) \in Nat /\ Number(toHub, DataOf(n, i)) \in Nat
        /\ tries[n][i] \in Nat
    BY FlowNumbers
  <2>2. Number(arrived[n], {i}) # 0 \/ Number(toHub, DataOf(n, i)) # 0
    BY <1>4, FlowShapes, NumberProperties
  <2>3. QED
    BY <2>1, <2>2
<1>5. \A j \in 1 .. Len(arrived[n]) : arrived[n][j] <= Head(q).id
  <2>1. SUFFICES ASSUME NEW j \in 1 .. Len(arrived[n]) PROVE arrived[n][j] <= Head(q).id
    OBVIOUS
  <2>2. arrived[n][j] \in 1 .. MaxPkts
    BY FlowShapes, ElementOfSeq
  <2>3. tries[n][arrived[n][j]] # 0
    BY <1>4, <2>2
  <2>4. QED
    BY <1>3, <2>2, <2>3
<1>6. \A k \in 1 .. Len(toHub) :
        toHub[k] \in DataFrom(n) => toHub[k].id <= Head(q).id
  <2>1. SUFFICES ASSUME NEW k \in 1 .. Len(toHub), toHub[k] \in DataFrom(n)
                 PROVE  toHub[k].id <= Head(q).id
    OBVIOUS
  <2>2. toHub[k] \in Packet /\ toHub[k].kind = "data"
    BY <2>1 DEF DataFrom
  <2>3. toHub[k].id # 0 /\ toHub[k].id \in 0 .. MaxPkts
    BY <2>2 DEF AirInv, Packet
  <2>4. toHub[k].id \in 1 .. MaxPkts
    BY <1>1, <2>3
  <2>5. toHub[k] \in DataOf(n, toHub[k].id)
    BY <2>1 DEF DataOf
  <2>6. tries[n][toHub[k].id] # 0
    BY <1>4, <2>4, <2>5
  <2>7. QED
    BY <1>3, <2>4, <2>6
<1>7. QED
  BY <1>2, <1>5, <1>6

\* Net::doSend counts a transmission; its packet comes after all that arrived.
LEMMA DoSendFlow ==
  ASSUME QueueInv, AirInv, ArriveInv, NEW n \in Nodes, NEW mine \in Packet \cup {None},
         NEW q, NEW c, NEW x, QueueOK(q, c, tries[n], x), q # <<>>,
         DoSend(n, q, c, mine), UNCHANGED arrived
  PROVE  ArriveInv'
<1>1. PICK h \in 1 .. MaxPkts : h = Head(q).id
  BY FirstIsLast
<1>2. PICK p \in Packet : p \in DataOf(n, h) /\ (toHub' = toHub \/ toHub' = Append(toHub, p))
  <2>1. AsksAck(Head(q), c) \in BOOLEAN
    <3>1. Head(q) \in Pkt
      BY TailOK
    <3>2. QED
      BY <3>1 DEF AsksAck, Pkt
  <2>2. /\ Data(n, h, AsksAck(Head(q), c)) \in Packet
        /\ Data(n, h, AsksAck(Head(q), c)) \in DataOf(n, h)
    BY <2>1, PacketShapes
  <2>3. Transmit(n, Data(n, h, AsksAck(Head(q), c)), mine)
    BY <1>1 DEF DoSend
  <2>4. /\ Data(n, h, AsksAck(Head(q), c)).id # 0
    BY DEF Data
  <2>5. QED
    BY <2>2, <2>3, <2>4, TransmitTypes
<1>3. p \in DataFrom(n) /\ p.id = h /\ \A m \in Nodes \ {n} : p \notin DataFrom(m)
  BY <1>2 DEF DataOf, DataFrom
<1>4. tries' = [tries EXCEPT ![n] = [tries[n] EXCEPT ![h] = @ + 1]]
  BY <1>1 DEF DoSend
<1>5. ASSUME NEW m \in Nodes
      PROVE  FlowOK(m, arrived[m], toHub', tries'[m])
  <2>1. /\ arrived[m] \in Seq(1 .. MaxPkts) /\ toHub \in Seq(Packet)
        /\ tries[m] \in [1 .. MaxPkts -> Nat] /\ tries \in [Nodes -> [1 .. MaxPkts -> Nat]]
        /\ FlowOK(m, arrived[m], toHub, tries[m])
    BY FlowShapes DEF ArriveInv
  <2>2. PICK u \in [1 .. MaxPkts -> Nat] :
          /\ u = tries'[m]
          /\ u = IF m = n THEN [tries[m] EXCEPT ![h] = @ + 1] ELSE tries[m]
    <3>1. tries'[m] = IF m = n THEN [tries[m] EXCEPT ![h] = @ + 1] ELSE tries[m]
      BY <1>4, <2>1
    <3>2. [tries[m] EXCEPT ![h] = @ + 1] \in [1 .. MaxPkts -> Nat]
      BY <2>1
    <3>3. tries'[m] \in [1 .. MaxPkts -> Nat]
      BY <2>1, <3>1, <3>2
    <3>4. QED
      BY <3>1, <3>3
  <2>3. \A i \in 1 .. MaxPkts :
          /\ tries[m][i] <= u[i]
          /\ tries[m][i] + (IF p \in DataOf(m, i) THEN 1 ELSE 0) <= u[i]
    <3>1. SUFFICES ASSUME NEW i \in 1 .. MaxPkts
                   PROVE  /\ tries[m][i] <= u[i]
                          /\ tries[m][i] + (IF p \in DataOf(m, i) THEN 1 ELSE 0) <= u[i]
      OBVIOUS
    <3>2. p \in DataOf(m, i) => m = n /\ i = h
      BY <1>3 DEF DataOf
    <3>3. u[i] = tries[m][i] + (IF m = n /\ i = h THEN 1 ELSE 0) /\ tries[m][i] \in Nat
      BY <2>1, <2>2
    <3>4. QED
      BY <3>2, <3>3
  <2>4. p \in DataFrom(m) =>
          /\ \A j \in 1 .. Len(arrived[m]) : arrived[m][j] <= p.id
          /\ \A k \in 1 .. Len(toHub) : toHub[k] \in DataFrom(m) => toHub[k].id <= p.id
    BY <1>1, <1>3, FirstIsLast
  <2>5. FlowOK(m, arrived[m], toHub, u)
    BY <2>1, <2>3, FlowLost
  <2>6. FlowOK(m, arrived[m], Append(toHub, p), u)
    BY <2>1, <2>3, <2>4, FlowLonger
  <2>7. QED
    BY <1>2, <2>2, <2>5, <2>6
<1>6. QED
  BY <1>5 DEF ArriveInv

\* Every step keeps the order of arrival.
LEMMA ArriveStep ==
  ASSUME QueueInv, AirInv, ArriveInv, [Next]_vars
  PROVE  ArriveInv'
<1>1. ASSUME UNCHANGED <<toHub, arrived, tries>>
      PROVE  ArriveInv'
  BY <1>1 DEF ArriveInv
<1>2. ASSUME NEW n \in Nodes, Send(n)
      PROVE  ArriveInv'
  <2>1. /\ QueueOK(buf[n], sendCnt[n], tries[n], nextId[n])
        /\ nextId' = [nextId EXCEPT ![n] = nextId[n] + 1]
        /\ nextId \in [Nodes -> Nat] /\ rx[n] \in Packet \cup {None}
        /\ UNCHANGED arrived
    BY <1>2 DEF Send, QueueInv, AirInv, hubVars
  <2>2. nextId'[n] = nextId[n] + 1 /\ Len(buf[n]) < NetPkt /\ nextId[n] < MaxPkts
    BY <1>2, <2>1 DEF Send
  <2>3. PICK ack \in BOOLEAN :
          \/ UNCHANGED <<toHub, tries>>
          \/ DoSend(n, Append(buf[n], [id |-> nextId[n] + 1, ack |-> ack]), sendCnt[n], rx[n])
    BY <1>2, <2>2 DEF Send
  <2> DEFINE q == Append(buf[n], [id |-> nextId[n] + 1, ack |-> ack])
  <2>4. QueueOK(q, sendCnt[n], tries[n], nextId[n] + 1) /\ q # <<>>
    BY <2>1, <2>2, AppendStep
  <2>5. UNCHANGED <<toHub, tries>> \/ DoSend(n, q, sendCnt[n], rx[n])
    BY <2>3
  <2> HIDE DEF q
  <2>6. CASE DoSend(n, q, sendCnt[n], rx[n])
    BY <2>1, <2>4, <2>6, DoSendFlow
  <2>7. QED
    BY <1>1, <2>1, <2>5, <2>6
<1>3. ASSUME NEW n \in Nodes, PollSend(n)
      PROVE  ArriveInv'
  <2>1. QueueOK(QueueLeft(n), CountLeft(n), tries[n], nextId[n]) /\ QueueLeft(n) # <<>>
    BY <1>3, QueueLeftOK DEF PollSend
  <2>2. DoSend(n, QueueLeft(n), CountLeft(n), None) /\ UNCHANGED arrived
    BY <1>3 DEF PollSend, hubVars
  <2>3. QED
    BY <2>1, <2>2, DoSendFlow
<1>4. ASSUME NEW n \in Nodes, PollAck(n)
      PROVE  ArriveInv'
  <2>1. queuedAck[n] \in Nodes
    BY <1>4 DEF AirInv, PollAck
  <2>2. PICK p \in Packet : p.kind # "data" /\ Transmit(n, p, None)
    <3>1. Done(n) \in Packet /\ Ack(queuedAck[n]) \in Packet
      BY <2>1, PacketShapes
    <3>2. Done(n).kind # "data" /\ Ack(queuedAck[n]).kind # "data"
      BY DEF Done, Ack
    <3>3. Transmit(n, Done(n), None) \/ Transmit(n, Ack(queuedAck[n]), None)
      BY <1>4 DEF PollAck
    <3>4. QED
      BY <3>1, <3>2, <3>3
  <2>3. UNCHANGED <<arrived, tries>> /\ (toHub' = toHub \/ toHub' = Append(toHub, p))
    BY <1>4, <2>2, TransmitTypes DEF PollAck, hubVars, history
  <2>4. ASSUME NEW m \in Nodes
        PROVE  FlowOK(m, arrived[m], Append(toHub, p), tries[m])
    <3>1. p \notin DataFrom(m) /\ \A i \in 1 .. MaxPkts : p \notin DataOf(m, i)
      BY <2>2 DEF DataFrom, DataOf
    <3>2. /\ arrived[m] \in Seq(1 .. MaxPkts) /\ toHub \in Seq(Packet)
          /\ tries[m] \in [1 .. MaxPkts -> Nat]
          /\ FlowOK(m, arrived[m], toHub, tries[m])
      BY FlowShapes DEF ArriveInv
    <3>3. \A i \in 1 .. MaxPkts :
            tries[m][i] + (IF p \in DataOf(m, i) THEN 1 ELSE 0) <= tries[m][i]
      <4>1. SUFFICES ASSUME NEW i \in 1 .. MaxPkts
                     PROVE  tries[m][i] + (IF p \in DataOf(m, i) THEN 1 ELSE 0) <= tries[m][i]
        OBVIOUS
      <4>2. tries[m][i] \in Nat
        BY <3>2
      <4>3. p \notin DataOf(m, i)
        BY <3>1
      <4>4. QED
        BY <4>2, <4>3
    <3>4. QED
      BY <3>1, <3>2, <3>3, FlowLonger
  <2>5. QED
    BY <2>3, <2>4 DEF ArriveInv
<1>5. CASE HubReceive
  <2> DEFINE p == Head(toHub)
  <2>1. /\ toHub # <<>> /\ toHub' = Tail(toHub) /\ UNCHANGED tries
        /\ p \in Packet /\ p = toHub[1] /\ 1 \in 1 .. Len(toHub)
    BY <1>5, TailProperties DEF AirInv, HubReceive, history
  <2>2. p.node \in Nodes /\ p.id \in 0 .. MaxPkts
    BY <2>1 DEF Packet
  <2>3. CASE p.kind = "data"
    <3>1. p.id \in 1 .. MaxPkts /\ p \in DataOf(p.node, p.id)
      <4>1. p.id # 0
        BY <2>1, <2>3 DEF AirInv
      <4>2. QED
        BY <2>1, <2>2, <2>3, <4>1, ConstantsAssumption DEF DataOf, DataFrom
    <3>2. arrived' = [arrived EXCEPT ![p.node] = Append(arrived[p.node], p.id)]
      BY <1>5, <2>3 DEF HubReceive
    <3>3. ASSUME NEW m \in Nodes
          PROVE  FlowOK(m, arrived'[m], toHub', tries'[m])
      <4>1. /\ arrived[m] \in Seq(1 .. MaxPkts) /\ toHub \in Seq(Packet)
            /\ tries[m] \in [1 .. MaxPkts -> Nat]
            /\ FlowOK(m, arrived[m], toHub, tries[m])
        BY FlowShapes DEF ArriveInv
      <4>2. CASE m = p.node
        <5>1. arrived'[m] = Append(arrived[m], p.id)
          BY <2>2, <3>2, <4>2 DEF AirInv
        <5>2. FlowOK(m, Append(arrived[m], p.id), Tail(toHub), tries[m])
          BY <2>1, <3>1, <4>1, <4>2, FlowReceived
        <5>3. QED
          BY <2>1, <5>1, <5>2
      <4>3. CASE m # p.node
        <5>1. arrived'[m] = arrived[m]
          BY <3>2, <4>3 DEF AirInv
        <5>2. FlowOK(m, arrived[m], Tail(toHub), tries[m])
          BY <2>1, <4>1, FlowShorter
        <5>3. QED
          BY <2>1, <5>1, <5>2
      <4>4. QED
        BY <4>2, <4>3
    <3>4. QED
      BY <3>3 DEF ArriveInv
  <2>4. CASE p.kind # "data"
    <3>1. UNCHANGED arrived
      BY <1>5, <2>4 DEF HubReceive
    <3>2. \A m \in Nodes : FlowOK(m, arrived[m], Tail(toHub), tries[m])
      BY <2>1, FlowShapes, FlowShorter DEF ArriveInv
    <3>3. QED
      BY <2>1, <3>1, <3>2 DEF ArriveInv
  <2>5. QED
    BY <2>3, <2>4
<1>6. CASE Lose
  <2>1. UNCHANGED <<arrived, tries>> /\ (UNCHANGED toHub \/ (toHub # <<>> /\ toHub' = Tail(toHub)))
    BY <1>6 DEF Lose, hubVars, history
  <2>2. toHub # <<>> => \A m \in Nodes : FlowOK(m, arrived[m], Tail(toHub), tries[m])
    BY FlowShapes, FlowShorter DEF ArriveInv
  <2>3. QED
    BY <2>1, <2>2 DEF ArriveInv
<1>7. ASSUME \/ \E n \in Nodes : Tick(n) \/ PollData(n) \/ PollIdle(n) \/ HubRequest(n)
             \/ GatewaySend \/ UNCHANGED vars
      PROVE  ArriveInv'
  <2>1. UNCHANGED <<toHub, arrived, tries>>
    BY <1>7 DEF Tick, PollData, PollIdle, HubRequest, GatewaySend, vars, hubVars, history
  <2>2. QED
    BY <1>1, <2>1
<1>8. QED
  BY <1>2, <1>3, <1>4, <1>5, <1>6, <1>7 DEF Next, Poll

\* Nothing has arrived at the start.
LEMMA ArriveInit == Init => ArriveInv
<1> SUFFICES ASSUME Init, NEW n \in Nodes PROVE FlowOK(n, <<>>, <<>>, tries[n])
  BY DEF Init, ArriveInv
<1>1. <<>> \in Seq(Packet) /\ <<>> \in Seq(1 .. MaxPkts) /\ Len(<<>>) = 0
  BY EmptySeq
<1>2. \A W : Number(<<>>, W) = 0
  <2>1. SUFFICES ASSUME NEW W PROVE Number(<<>>, W) = 0
    OBVIOUS
  <2>2. {k \in 1 .. Len(<<>>) : <<>>[k] \in W} = {}
    BY <1>1
  <2>3. QED
    BY <2>2, FS_EmptySet, Zenon DEF Number
<1>3. ASSUME NEW i \in 1 .. MaxPkts
      PROVE  Number(<<>>, {i}) + Number(<<>>, DataOf(n, i)) <= tries[n][i]
  <2>1. Number(<<>>, {i}) = 0 /\ Number(<<>>, DataOf(n, i)) = 0
    BY <1>2
  <2>2. tries[n][i] = 0
    BY DEF Init
  <2>3. QED
    BY <2>1, <2>2
<1>4. QED
  BY <1>1, <1>3 DEF FlowOK

\* Every reachable state has what arrived, and what is on its way, in order.
LEMMA ArriveInvariant == Spec => []ArriveInv
BY ArriveInit, ArriveStep, QueueInvariant, AirInvariant, PTL DEF Spec

\* The hub gets the packets of a node in the order they were sent, and each at most
\* as often as Net.cpp transmitted it: no more than NET_RETRY_MAX times, whatever is
\* lost or late, and whichever ACKs come in.
THEOREM PacketsArriveInOrder == Spec => []ArriveInOrder
<1>1. ASSUME QueueInv, AirInv, ArriveInv, NEW n \in Nodes
      PROVE  /\ \A j, k \in 1 .. Len(arrived[n]) : j < k => arrived[n][j] <= arrived[n][k]
             /\ \A i \in 1 .. MaxPkts : Copies(n, i) <= tries[n][i] /\ tries[n][i] <= RetryMax
  <2>1. FlowOK(n, arrived[n], toHub, tries[n])
    BY <1>1 DEF ArriveInv
  <2>2. ASSUME NEW i \in 1 .. MaxPkts
        PROVE  Copies(n, i) <= tries[n][i] /\ tries[n][i] <= RetryMax
    <3>1. /\ Number(arrived[n], {i}) + Number(toHub, DataOf(n, i)) <= tries[n][i]
          /\ Number(arrived[n], {i}) \in Nat /\ Number(toHub, DataOf(n, i)) \in Nat
          /\ tries[n][i] \in Nat
      BY <1>1, FlowNumbers
    <3>2. tries[n][i] <= RetryMax
      <4>1. QueueOK(buf[n], sendCnt[n], tries[n], nextId[n]) /\ RetryMax \in Nat
        BY <1>1, ConstantsAssumption DEF QueueInv
      <4>2. tries[n] \in [1 .. MaxPkts -> 0 .. RetryMax]
        BY <4>1 DEF QueueOK
      <4>3. tries[n][i] \in 0 .. RetryMax
        BY <4>2
      <4>4. QED
        BY <4>1, <4>3
    <3>3. QED
      BY <3>1, <3>2 DEF Copies
  <2>3. QED
    BY <2>1, <2>2 DEF FlowOK
<1>2. QueueInv /\ AirInv /\ ArriveInv => ArriveInOrder
  BY <1>1 DEF ArriveInOrder
<1>3. QED
  BY <1>2, QueueInvariant, AirInvariant, ArriveInvariant, PTL

-------------------------------------------------------------------------------
(* The answers to a node: AnswerOK, for what may happen to a packet.           *)

\* An ACK is told from every other packet, and from an empty buffer.
LEMMA AckShapes ==
  ASSUME NEW n \in Nodes
  PROVE  /\ Ack(n) \in Packet /\ Ack(n).node = n /\ Ack(n).kind = "ack" /\ ~Ack(n).ack
         /\ Request(n) \in Packet /\ Request(n).node = n /\ Request(n).kind = "req"
         /\ Request(n).ack
         /\ Done(n) \in Packet /\ Done(n).node = n /\ ~Done(n).ack /\ Done(n).kind = "done"
         /\ Ack(n) # Request(n) /\ Ack(n) # None /\ Request(n) # None
         /\ Ack(n) \notin AskedBy(n) /\ Done(n) \notin AskedBy(n)
<1>1. /\ Ack(n).node = n /\ Ack(n).kind = "ack" /\ Ack(n).ack = FALSE
      /\ Request(n).node = n /\ Request(n).kind = "req" /\ Request(n).ack = TRUE
      /\ Done(n).node = n /\ Done(n).ack = FALSE /\ Done(n).kind = "done"
  BY DEF Ack, Request, Done
<1>2. Ack(n) \in Packet /\ Request(n) \in Packet /\ Done(n) \in Packet
  BY PacketShapes
<1>3. Ack(n) # Request(n)
  BY <1>1
<1>4. Ack(n) # None /\ Request(n) # None
  BY <1>2, NoneAssumption
<1>5. QED
  BY <1>1, <1>2, <1>3, <1>4 DEF AskedBy

\* The terms of Answers are numbers.
LEMMA AnswerNumbers ==
  ASSUME NEW n \in Nodes, NEW q \in Seq(Packet), NEW g \in Seq(Packet)
  PROVE  /\ Number(q, AskedBy(n)) \in Nat /\ Number(g, {Ack(n)}) \in Nat
         /\ Number(q, AskedBy(n)) = 0 <=> \A k \in 1 .. Len(q) : q[k] \notin AskedBy(n)
         /\ Number(g, {Ack(n)}) = 0 <=> \A k \in 1 .. Len(g) : g[k] # Ack(n)
<1>1. \A W : /\ Number(q, W) \in Nat
             /\ Number(q, W) = 0 <=> \A k \in 1 .. Len(q) : q[k] \notin W
  BY NumberProperties
<1>2. \A W : /\ Number(g, W) \in Nat
             /\ Number(g, W) = 0 <=> \A k \in 1 .. Len(g) : g[k] \notin W
  BY NumberProperties
<1>3. \A k : g[k] \notin {Ack(n)} <=> g[k] # Ack(n)
  OBVIOUS
<1>4. /\ Number(q, AskedBy(n)) \in Nat
      /\ Number(q, AskedBy(n)) = 0 <=> \A k \in 1 .. Len(q) : q[k] \notin AskedBy(n)
  BY <1>1, Zenon
<1>5. /\ Number(g, {Ack(n)}) \in Nat
      /\ Number(g, {Ack(n)}) = 0 <=> \A k \in 1 .. Len(g) : g[k] \notin {Ack(n)}
  BY <1>2, Zenon
<1>6. QED
  BY <1>3, <1>4, <1>5, Zenon

\* What one packet more or less changes in them.
LEMMA AnswerCounts ==
  ASSUME NEW n \in Nodes, NEW q \in Seq(Packet)
  PROVE  /\ \A p \in Packet :
              /\ Number(Append(q, p), AskedBy(n))
                   = Number(q, AskedBy(n)) + (IF p \in AskedBy(n) THEN 1 ELSE 0)
              /\ Number(Append(q, p), {Ack(n)})
                   = Number(q, {Ack(n)}) + (IF p = Ack(n) THEN 1 ELSE 0)
         /\ q # <<>> =>
              /\ Number(q, AskedBy(n))
                   = Number(Tail(q), AskedBy(n)) + (IF Head(q) \in AskedBy(n) THEN 1 ELSE 0)
              /\ Number(q, {Ack(n)})
                   = Number(Tail(q), {Ack(n)}) + (IF Head(q) = Ack(n) THEN 1 ELSE 0)
<1>1. ASSUME NEW p \in Packet
      PROVE  /\ Number(Append(q, p), AskedBy(n))
                  = Number(q, AskedBy(n)) + (IF p \in AskedBy(n) THEN 1 ELSE 0)
             /\ Number(Append(q, p), {Ack(n)})
                  = Number(q, {Ack(n)}) + (IF p = Ack(n) THEN 1 ELSE 0)
  <2>1. \A W : Number(Append(q, p), W) = Number(q, W) + (IF p \in W THEN 1 ELSE 0)
    BY NumberAppend
  <2>2. Number(Append(q, p), AskedBy(n))
          = Number(q, AskedBy(n)) + (IF p \in AskedBy(n) THEN 1 ELSE 0)
    BY <2>1, Zenon
  <2>3. Number(Append(q, p), {Ack(n)})
          = Number(q, {Ack(n)}) + (IF p \in {Ack(n)} THEN 1 ELSE 0)
    BY <2>1, Zenon
  <2>4. QED
    BY <2>2, <2>3
<1>2. ASSUME q # <<>>
      PROVE  /\ Number(q, AskedBy(n))
                  = Number(Tail(q), AskedBy(n)) + (IF Head(q) \in AskedBy(n) THEN 1 ELSE 0)
             /\ Number(q, {Ack(n)})
                  = Number(Tail(q), {Ack(n)}) + (IF Head(q) = Ack(n) THEN 1 ELSE 0)
  <2>1. \A W : Number(q, W) = Number(Tail(q), W) + (IF Head(q) \in W THEN 1 ELSE 0)
    BY <1>2, NumberTail
  <2>2. Number(q, AskedBy(n))
          = Number(Tail(q), AskedBy(n)) + (IF Head(q) \in AskedBy(n) THEN 1 ELSE 0)
    BY <2>1, Zenon
  <2>3. Number(q, {Ack(n)})
          = Number(Tail(q), {Ack(n)}) + (IF Head(q) \in {Ack(n)} THEN 1 ELSE 0)
    BY <2>1, Zenon
  <2>4. QED
    BY <2>2, <2>3
<1>3. QED
  BY <1>1, <1>2

\* Nothing is to come: whatever the node does then.
LEMMA AnswerNone ==
  ASSUME NEW n \in Nodes, NEW b, NEW c \in Nat, NEW rxn \in {None, Request(n)},
         NEW q \in Seq(Packet), NEW g \in Seq(Packet), NEW a,
         Number(q, AskedBy(n)) = 0, Number(g, {Ack(n)}) = 0,
         \A k \in 1 .. Len(g) : g[k].node = n => g[k] \in {Request(n), Ack(n)}
  PROVE  AnswerOK(n, b, c, rxn, q, g, a)
<1>1. rxn # Ack(n)
  BY AckShapes
<1>2. Answers(n, rxn, q, g) = 0
  BY <1>1 DEF Answers
<1>3. \A k \in 1 .. Len(q) : q[k] \notin AskedBy(n)
  BY AnswerNumbers
<1>4. QED
  BY <1>1, <1>2, <1>3 DEF AnswerOK

\* Nothing is to come if the first packet was not transmitted.
LEMMA NoneIsAsked ==
  ASSUME NEW n \in Nodes, NEW b, NEW c \in Nat, NEW rxn,
         NEW q \in Seq(Packet), NEW g \in Seq(Packet), NEW a,
         AnswerOK(n, b, c, rxn, q, g, a), c = 0
  PROVE  /\ Number(q, AskedBy(n)) = 0 /\ Number(g, {Ack(n)}) = 0
         /\ rxn \in {None, Request(n)}
<1>1. Number(q, AskedBy(n)) \in Nat /\ Number(g, {Ack(n)}) \in Nat
  BY AnswerNumbers
<1>2. Number(q, AskedBy(n)) + Number(g, {Ack(n)}) + (IF rxn = Ack(n) THEN 1 ELSE 0) <= 0
  BY DEF AnswerOK, Answers
<1>3. Number(q, AskedBy(n)) = 0 /\ Number(g, {Ack(n)}) = 0 /\ rxn # Ack(n)
  BY <1>1, <1>2
<1>4. QED
  BY <1>3 DEF AnswerOK

\* Nothing else is to come when the answer is there.
LEMMA TheOnlyAnswer ==
  ASSUME NEW n \in Nodes, NEW b, NEW c \in Nat,
         NEW q \in Seq(Packet), NEW g \in Seq(Packet), NEW a,
         AnswerOK(n, b, c, Ack(n), q, g, a)
  PROVE  /\ Number(q, AskedBy(n)) = 0 /\ Number(g, {Ack(n)}) = 0
         /\ c > 0 /\ Number(a, {Head(b).id}) > 0
<1>1. Number(q, AskedBy(n)) \in Nat /\ Number(g, {Ack(n)}) \in Nat
  BY AnswerNumbers
<1>2. Number(q, AskedBy(n)) + Number(g, {Ack(n)}) + 1 <= (IF c > 0 THEN 1 ELSE 0)
  BY DEF AnswerOK, Answers
<1>3. Number(q, AskedBy(n)) = 0 /\ Number(g, {Ack(n)}) = 0 /\ c > 0
  BY <1>1, <1>2
<1>4. QED
  BY <1>3 DEF AnswerOK

\* The receive buffer is emptied, or takes a request.
LEMMA AnswerRadio ==
  ASSUME NEW n \in Nodes, NEW b, NEW c \in Nat, NEW rxn, NEW new \in {None, Request(n)},
         NEW q \in Seq(Packet), NEW g \in Seq(Packet), NEW a,
         AnswerOK(n, b, c, rxn, q, g, a)
  PROVE  AnswerOK(n, b, c, new, q, g, a)
<1>1. Number(q, AskedBy(n)) \in Nat /\ Number(g, {Ack(n)}) \in Nat
  BY AnswerNumbers
<1>2. Number(q, AskedBy(n)) + Number(g, {Ack(n)}) + (IF rxn = Ack(n) THEN 1 ELSE 0)
        <= (IF c > 0 THEN 1 ELSE 0)
  BY DEF AnswerOK, Answers
<1>3. new # Ack(n)
  BY AckShapes
<1>4. Number(q, AskedBy(n)) + Number(g, {Ack(n)}) + (IF new = Ack(n) THEN 1 ELSE 0)
        <= (IF c > 0 THEN 1 ELSE 0)
  BY <1>1, <1>2, <1>3
<1>5. QED
  BY <1>3, <1>4 DEF AnswerOK, Answers

\* A datagram to the hub is added that asks for no answer to n.
LEMMA AnswerMoreToHub ==
  ASSUME NEW n \in Nodes, NEW b, NEW c \in Nat, NEW rxn,
         NEW q \in Seq(Packet), NEW g \in Seq(Packet), NEW a,
         AnswerOK(n, b, c, rxn, q, g, a), NEW p \in Packet, p \notin AskedBy(n)
  PROVE  AnswerOK(n, b, c, rxn, Append(q, p), g, a)
<1> DEFINE r == Append(q, p)
<1>1. /\ Len(q) \in Nat /\ Len(r) = Len(q) + 1 /\ r[Len(q) + 1] = p
      /\ \A k \in 1 .. Len(q) : r[k] = q[k]
  BY AppendProperties, LenProperties
<1>2. Number(r, AskedBy(n)) = Number(q, AskedBy(n))
  <2>1. Number(r, AskedBy(n)) = Number(q, AskedBy(n)) + (IF p \in AskedBy(n) THEN 1 ELSE 0)
    BY AnswerCounts
  <2>2. Number(q, AskedBy(n)) \in Nat
    BY AnswerNumbers
  <2> HIDE DEF r
  <2>3. QED
    BY <2>1, <2>2
<1> HIDE DEF r
<1>3. \A k \in 1 .. Len(r) : r[k] \in AskedBy(n) => r[k] \in DataOf(n, Head(b).id)
  <2>1. SUFFICES ASSUME NEW k \in 1 .. Len(r), r[k] \in AskedBy(n)
                 PROVE  r[k] \in DataOf(n, Head(b).id)
    OBVIOUS
  <2>2. k \in 1 .. Len(q) /\ r[k] = q[k]
    BY <1>1, <2>1
  <2>3. QED
    BY <2>1, <2>2 DEF AnswerOK
<1>4. AnswerOK(n, b, c, rxn, r, g, a)
  BY <1>2, <1>3 DEF AnswerOK, Answers
<1>5. QED
  BY <1>4 DEF r

\* A datagram to the gateway is added that is no ACK for n.
LEMMA AnswerMoreToGw ==
  ASSUME NEW n \in Nodes, NEW b, NEW c \in Nat, NEW rxn,
         NEW q \in Seq(Packet), NEW g \in Seq(Packet), NEW a,
         AnswerOK(n, b, c, rxn, q, g, a), NEW p \in Packet, p # Ack(n),
         p.node = n => p = Request(n)
  PROVE  AnswerOK(n, b, c, rxn, q, Append(g, p), a)
<1> DEFINE r == Append(g, p)
<1>1. /\ Len(g) \in Nat /\ Len(r) = Len(g) + 1 /\ r[Len(g) + 1] = p
      /\ \A k \in 1 .. Len(g) : r[k] = g[k]
  BY AppendProperties, LenProperties
<1>2. Number(r, {Ack(n)}) = Number(g, {Ack(n)})
  <2>1. Number(r, {Ack(n)}) = Number(g, {Ack(n)}) + (IF p = Ack(n) THEN 1 ELSE 0)
    BY AnswerCounts
  <2>2. Number(g, {Ack(n)}) \in Nat
    BY AnswerNumbers
  <2> HIDE DEF r
  <2>3. QED
    BY <2>1, <2>2
<1> HIDE DEF r
<1>3. \A k \in 1 .. Len(r) : r[k].node = n => r[k] \in {Request(n), Ack(n)}
  <2>1. SUFFICES ASSUME NEW k \in 1 .. Len(r), r[k].node = n
                 PROVE  r[k] \in {Request(n), Ack(n)}
    OBVIOUS
  <2>2. CASE k = Len(g) + 1
    BY <1>1, <2>1, <2>2
  <2>3. CASE k # Len(g) + 1
    <3>1. k \in 1 .. Len(g) /\ r[k] = g[k]
      BY <1>1, <2>3
    <3>2. QED
      BY <2>1, <3>1 DEF AnswerOK
  <2>4. QED
    BY <2>2, <2>3
<1>4. AnswerOK(n, b, c, rxn, q, r, a)
  BY <1>2, <1>3 DEF AnswerOK, Answers
<1>5. QED
  BY <1>4 DEF r

\* A datagram to the hub is lost, or is received and asks for no answer to n.
LEMMA AnswerLessToHub ==
  ASSUME NEW n \in Nodes, NEW b, NEW c \in Nat, NEW rxn,
         NEW q \in Seq(Packet), q # <<>>, NEW g \in Seq(Packet), NEW a,
         AnswerOK(n, b, c, rxn, q, g, a)
  PROVE  AnswerOK(n, b, c, rxn, Tail(q), g, a)
<1> DEFINE r == Tail(q)
<1>1. /\ r \in Seq(Packet)
      /\ \A k \in 1 .. Len(r) : r[k] = q[k + 1] /\ k + 1 \in 1 .. Len(q)
  BY HeadTailProperties, EmptySeq
<1>2. /\ Number(r, AskedBy(n)) \in Nat /\ Number(q, AskedBy(n)) \in Nat
      /\ Number(g, {Ack(n)}) \in Nat
  BY <1>1, AnswerNumbers
<1>3. Number(q, AskedBy(n))
        = Number(r, AskedBy(n)) + (IF Head(q) \in AskedBy(n) THEN 1 ELSE 0)
  BY AnswerCounts
<1> HIDE DEF r
<1>4. Answers(n, rxn, r, g) <= (IF c > 0 THEN 1 ELSE 0)
  <2>1. Answers(n, rxn, q, g) <= (IF c > 0 THEN 1 ELSE 0)
    BY DEF AnswerOK
  <2>2. QED
    BY <1>2, <1>3, <2>1 DEF Answers
<1>5. \A k \in 1 .. Len(r) : r[k] \in AskedBy(n) => r[k] \in DataOf(n, Head(b).id)
  BY <1>1 DEF AnswerOK
<1>6. AnswerOK(n, b, c, rxn, r, g, a)
  BY <1>4, <1>5 DEF AnswerOK
<1>7. QED
  BY <1>6 DEF r

\* A datagram to the gateway is lost, or is not passed on to n.
LEMMA AnswerLessToGw ==
  ASSUME NEW n \in Nodes, NEW b, NEW c \in Nat, NEW rxn,
         NEW q \in Seq(Packet), NEW g \in Seq(Packet), g # <<>>, NEW a,
         AnswerOK(n, b, c, rxn, q, g, a)
  PROVE  AnswerOK(n, b, c, rxn, q, Tail(g), a)
<1> DEFINE r == Tail(g)
<1>1. /\ r \in Seq(Packet)
      /\ \A k \in 1 .. Len(r) : r[k] = g[k + 1] /\ k + 1 \in 1 .. Len(g)
  BY HeadTailProperties, EmptySeq
<1>2. /\ Number(r, {Ack(n)}) \in Nat /\ Number(q, AskedBy(n)) \in Nat
      /\ Number(g, {Ack(n)}) \in Nat
  BY <1>1, AnswerNumbers
<1>3. Number(g, {Ack(n)}) = Number(r, {Ack(n)}) + (IF Head(g) = Ack(n) THEN 1 ELSE 0)
  BY AnswerCounts
<1> HIDE DEF r
<1>4. Answers(n, rxn, q, r) <= (IF c > 0 THEN 1 ELSE 0)
  <2>1. Answers(n, rxn, q, g) <= (IF c > 0 THEN 1 ELSE 0)
    BY DEF AnswerOK
  <2>2. QED
    BY <1>2, <1>3, <2>1 DEF Answers
<1>5. \A k \in 1 .. Len(r) : r[k].node = n => r[k] \in {Request(n), Ack(n)}
  BY <1>1 DEF AnswerOK
<1>6. Number(r, {Ack(n)}) > 0 => Number(g, {Ack(n)}) > 0
  BY <1>2, <1>3
<1>7. AnswerOK(n, b, c, rxn, q, r, a)
  BY <1>4, <1>5, <1>6 DEF AnswerOK
<1>8. QED
  BY <1>7 DEF r

\* The gateway passes an ACK on to the radio of n.
LEMMA AnswerDelivered ==
  ASSUME NEW n \in Nodes, NEW b, NEW c \in Nat,
         NEW q \in Seq(Packet), NEW g \in Seq(Packet), g # <<>>, Head(g) = Ack(n), NEW a,
         AnswerOK(n, b, c, None, q, g, a)
  PROVE  AnswerOK(n, b, c, Ack(n), q, Tail(g), a)
<1> DEFINE r == Tail(g)
<1>1. /\ r \in Seq(Packet)
      /\ \A k \in 1 .. Len(r) : r[k] = g[k + 1] /\ k + 1 \in 1 .. Len(g)
  BY HeadTailProperties, EmptySeq
<1>2. /\ Number(r, {Ack(n)}) \in Nat /\ Number(q, AskedBy(n)) \in Nat
      /\ Number(g, {Ack(n)}) \in Nat
  BY <1>1, AnswerNumbers
<1>3. Number(g, {Ack(n)}) = Number(r, {Ack(n)}) + 1
  <2>1. Number(g, {Ack(n)}) = Number(r, {Ack(n)}) + (IF Head(g) = Ack(n) THEN 1 ELSE 0)
    BY AnswerCounts
  <2>2. QED
    BY <2>1
<1> HIDE DEF r
<1>4. Answers(n, Ack(n), q, r) <= (IF c > 0 THEN 1 ELSE 0)
  <2>1. Answers(n, None, q, g) <= (IF c > 0 THEN 1 ELSE 0) /\ None # Ack(n)
    BY AckShapes DEF AnswerOK
  <2>2. QED
    BY <1>2, <1>3, <2>1 DEF Answers
<1>5. \A k \in 1 .. Len(r) : r[k].node = n => r[k] \in {Request(n), Ack(n)}
  BY <1>1 DEF AnswerOK
<1>6. Number(a, {Head(b).id}) > 0
  <2>1. Number(g, {Ack(n)}) > 0
    BY <1>2, <1>3
  <2>2. QED
    BY <2>1 DEF AnswerOK
<1>7. AnswerOK(n, b, c, Ack(n), q, r, a)
  BY <1>4, <1>5, <1>6 DEF AnswerOK
<1>8. QED
  BY <1>7 DEF r

\* The hub gets another packet.
LEMMA AnswerArrived ==
  ASSUME NEW n \in Nodes, NEW b, NEW c \in Nat, NEW rxn,
         NEW q \in Seq(Packet), NEW g \in Seq(Packet), NEW a \in Seq(1 .. MaxPkts),
         AnswerOK(n, b, c, rxn, q, g, a), NEW h \in 1 .. MaxPkts
  PROVE  AnswerOK(n, b, c, rxn, q, g, Append(a, h))
<1> DEFINE i == Head(b).id
<1>1. /\ Number(Append(a, h), {i}) = Number(a, {i}) + (IF h = i THEN 1 ELSE 0)
      /\ Number(a, {i}) \in Nat
  BY CopiesArrived
<1>2. Number(a, {i}) > 0 => Number(Append(a, h), {i}) > 0
  BY <1>1
<1>3. QED
  BY <1>2 DEF AnswerOK

\* The hub gets the packet that asks for the answer, and answers.
LEMMA AnswerGiven ==
  ASSUME NEW n \in Nodes, NEW b, NEW c \in Nat, NEW rxn,
         NEW q \in Seq(Packet), q # <<>>, NEW g \in Seq(Packet),
         NEW a \in Seq(1 .. MaxPkts),
         AnswerOK(n, b, c, rxn, q, g, a), Head(q) \in AskedBy(n),
         NEW h \in 1 .. MaxPkts, h = Head(q).id
  PROVE  AnswerOK(n, b, c, rxn, Tail(q), Append(g, Ack(n)), Append(a, h))
<1> DEFINE r == Tail(q)
           f == Append(g, Ack(n))
<1>1. /\ r \in Seq(Packet) /\ Head(q) = q[1] /\ 1 \in 1 .. Len(q)
      /\ \A k \in 1 .. Len(r) : r[k] = q[k + 1] /\ k + 1 \in 1 .. Len(q)
  BY HeadTailProperties, EmptySeq
<1>2. /\ f \in Seq(Packet) /\ Len(g) \in Nat /\ Len(f) = Len(g) + 1 /\ f[Len(g) + 1] = Ack(n)
      /\ \A k \in 1 .. Len(g) : f[k] = g[k]
  BY AckShapes, AppendProperties, LenProperties
<1>3. /\ Number(r, AskedBy(n)) \in Nat /\ Number(q, AskedBy(n)) \in Nat
      /\ Number(g, {Ack(n)}) \in Nat
  BY <1>1, AnswerNumbers
<1>4. Number(q, AskedBy(n)) = Number(r, AskedBy(n)) + 1
  <2>1. Number(q, AskedBy(n))
          = Number(r, AskedBy(n)) + (IF Head(q) \in AskedBy(n) THEN 1 ELSE 0)
    BY AnswerCounts
  <2>2. QED
    BY <2>1
<1>5. Number(f, {Ack(n)}) = Number(g, {Ack(n)}) + 1
  <2>1. \A p \in Packet : Number(Append(g, p), {Ack(n)})
          = Number(g, {Ack(n)}) + (IF p = Ack(n) THEN 1 ELSE 0)
    BY AnswerCounts
  <2>2. QED
    BY <2>1, AckShapes
<1> HIDE DEF r, f
<1>6. Answers(n, rxn, r, f) <= (IF c > 0 THEN 1 ELSE 0)
  <2>1. Answers(n, rxn, q, g) <= (IF c > 0 THEN 1 ELSE 0)
    BY DEF AnswerOK
  <2>2. QED
    BY <1>3, <1>4, <1>5, <2>1 DEF Answers
<1>7. \A k \in 1 .. Len(r) : r[k] \in AskedBy(n) => r[k] \in DataOf(n, Head(b).id)
  BY <1>1 DEF AnswerOK
<1>8. \A k \in 1 .. Len(f) : f[k].node = n => f[k] \in {Request(n), Ack(n)}
  <2>1. SUFFICES ASSUME NEW k \in 1 .. Len(f), f[k].node = n
                 PROVE  f[k] \in {Request(n), Ack(n)}
    OBVIOUS
  <2>2. k = Len(g) + 1 \/ k \in 1 .. Len(g)
    BY <1>2
  <2>3. QED
    BY <1>2, <2>1, <2>2 DEF AnswerOK
<1>9. Number(Append(a, h), {Head(b).id}) > 0
  <2>1. h = Head(b).id
    BY <1>1 DEF AnswerOK, DataOf
  <2>2. /\ Number(Append(a, h), {h}) = Number(a, {h}) + (IF h = h THEN 1 ELSE 0)
        /\ Number(a, {h}) \in Nat
    BY CopiesArrived
  <2>3. Number(Append(a, h), {h}) > 0
    BY <2>2
  <2>4. QED
    BY <2>1, <2>3
<1>10. AnswerOK(n, b, c, rxn, r, f, Append(a, h))
  BY <1>6, <1>7, <1>8, <1>9 DEF AnswerOK
<1>11. QED
  BY <1>10 DEF r, f

\* The first packet is transmitted and asks for an answer when none is to come.
LEMMA AnswerAsked ==
  ASSUME NEW n \in Nodes, NEW b, NEW c \in Nat \ {0}, NEW rxn \in {None, Request(n)},
         NEW q \in Seq(Packet), NEW g \in Seq(Packet), NEW a,
         NEW p \in DataOf(n, Head(b).id),
         Number(q, AskedBy(n)) = 0, Number(g, {Ack(n)}) = 0,
         \A k \in 1 .. Len(g) : g[k].node = n => g[k] \in {Request(n), Ack(n)}
  PROVE  AnswerOK(n, b, c, rxn, Append(q, p), g, a)
<1> DEFINE r == Append(q, p)
<1>1. p \in Packet
  BY DEF DataOf, DataFrom
<1>2. /\ Len(q) \in Nat /\ Len(r) = Len(q) + 1 /\ r[Len(q) + 1] = p
      /\ \A k \in 1 .. Len(q) : r[k] = q[k]
  BY <1>1, AppendProperties, LenProperties
<1>3. Number(r, AskedBy(n)) = Number(q, AskedBy(n)) + (IF p \in AskedBy(n) THEN 1 ELSE 0)
  BY <1>1, AnswerCounts
<1> HIDE DEF r
<1>4. rxn # Ack(n)
  BY AckShapes
<1>5. Answers(n, rxn, r, g) <= 1
  BY <1>3, <1>4 DEF Answers
<1>6. \A k \in 1 .. Len(r) : r[k] \in AskedBy(n) => r[k] \in DataOf(n, Head(b).id)
  <2>1. SUFFICES ASSUME NEW k \in 1 .. Len(r), r[k] \in AskedBy(n)
                 PROVE  r[k] \in DataOf(n, Head(b).id)
    OBVIOUS
  <2>2. k = Len(q) + 1 \/ (k \in 1 .. Len(q) /\ r[k] = q[k])
    BY <1>2
  <2>3. \A j \in 1 .. Len(q) : q[j] \notin AskedBy(n)
    BY AnswerNumbers
  <2>4. QED
    BY <1>2, <2>1, <2>2, <2>3
<1>7. AnswerOK(n, b, c, rxn, r, g, a)
  BY <1>4, <1>5, <1>6 DEF AnswerOK
<1>8. QED
  BY <1>7 DEF r

-------------------------------------------------------------------------------
(* The answers to a node, action by action.                                    *)

\* What the proofs need to know of the answers to node m.
LEMMA AnswerShapes ==
  ASSUME QueueInv, AirInv, NEW m \in Nodes
  PROVE  /\ toHub \in Seq(Packet) /\ toGw \in Seq(Packet)
         /\ Len(toHub) <= MaxFlight /\ Len(toGw) <= MaxFlight
         /\ arrived[m] \in Seq(1 .. MaxPkts)
         /\ sendCnt[m] \in Nat /\ QueueOK(buf[m], sendCnt[m], tries[m], nextId[m])
BY DEF QueueInv, AirInv

\* A transmission that no other node hears.
LEMMA TransmitAlone ==
  ASSUME AirInv, Hears = {}, NEW n \in Nodes, NEW p \in Packet, NEW mine,
         Transmit(n, p, mine)
  PROVE  /\ rx'[n] = mine /\ \A m \in Nodes \ {n} : rx'[m] = rx[m]
         /\ toHub' = toHub \/ toHub' = Append(toHub, p)
<1>1. InRange(n, p) = {}
  BY DEF InRange
<1>2. PICK R \in SUBSET {m \in InRange(n, p) : rx[m] = None} :
        rx' = [m \in Nodes |-> IF m = n THEN mine ELSE IF m \in R THEN p ELSE rx[m]]
  BY DEF Transmit
<1>3. rx'[n] = mine /\ \A m \in Nodes \ {n} : rx'[m] = rx[m]
  BY <1>1, <1>2
<1>4. toHub' = toHub \/ toHub' = Append(toHub, p)
  BY DEF Transmit, Post
<1>5. QED
  BY <1>3, <1>4

\* Net::poll takes an ACK: what is left then.  It is the only answer, and tells that
\* the hub has got the first packet.
LEMMA AnswerTaken ==
  ASSUME QueueInv, AirInv, AnswerInv, NEW n \in Nodes, ~HasData(n)
  PROVE  /\ AnswerOK(n, QueueLeft(n), CountLeft(n), None, toHub, toGw, arrived[n])
         /\ CountLeft(n) \in Nat
         /\ rx[n] # None => Acked(n)
         /\ Acked(n) => Copies(n, Head(buf[n]).id) > 0
<1>1. /\ AnswerOK(n, buf[n], sendCnt[n], rx[n], toHub, toGw, arrived[n])
      /\ toHub \in Seq(Packet) /\ toGw \in Seq(Packet) /\ sendCnt[n] \in Nat
      /\ QueueOK(buf[n], sendCnt[n], tries[n], nextId[n])
  BY AnswerShapes DEF AnswerInv
<1>2. rx[n] \in {None, Ack(n)}
  <2>1. rx[n] \in {None, Request(n), Ack(n)}
    BY <1>1 DEF AnswerOK
  <2>2. rx[n] # Request(n)
    BY AckShapes DEF HasData
  <2>3. QED
    BY <2>1, <2>2
<1>3. CASE rx[n] = Ack(n)
  <2>1. /\ Number(toHub, AskedBy(n)) = 0 /\ Number(toGw, {Ack(n)}) = 0
        /\ sendCnt[n] > 0 /\ Number(arrived[n], {Head(buf[n]).id}) > 0
    <3>1. AnswerOK(n, buf[n], sendCnt[n], Ack(n), toHub, toGw, arrived[n])
      BY <1>1, <1>3
    <3>2. QED
      BY <1>1, <3>1, TheOnlyAnswer
  <2>2. Acked(n)
    BY <1>1, <1>3, <2>1 DEF Acked, QueueOK
  <2>3. CountLeft(n) = 0
    BY <2>2 DEF CountLeft
  <2>4. \A k \in 1 .. Len(toGw) : toGw[k].node = n => toGw[k] \in {Request(n), Ack(n)}
    BY <1>1 DEF AnswerOK
  <2>5. AnswerOK(n, QueueLeft(n), CountLeft(n), None, toHub, toGw, arrived[n])
    BY <1>1, <2>1, <2>3, <2>4, AnswerNone
  <2>6. QED
    BY <2>1, <2>2, <2>3, <2>5 DEF Copies
<1>4. CASE rx[n] = None
  <2>1. ~Acked(n)
    BY <1>4, AckShapes DEF Acked
  <2>2. QueueLeft(n) = buf[n] /\ CountLeft(n) = sendCnt[n]
    BY <2>1 DEF QueueLeft, CountLeft
  <2>3. QED
    BY <1>1, <1>4, <2>1, <2>2
<1>5. QED
  BY <1>2, <1>3, <1>4

\* Net::doSend when no answer to the node is to come.
LEMMA DoSendAnswers ==
  ASSUME QueueInv, AirInv, AnswerInv, Hears = {},
         NEW n \in Nodes, NEW mine \in {None, Request(n)},
         NEW q, NEW c \in Nat, NEW x, QueueOK(q, c, tries[n], x), q # <<>>,
         DoSend(n, q, c, mine), UNCHANGED <<toGw, arrived, queuedAck>>,
         Number(toHub, AskedBy(n)) = 0, Number(toGw, {Ack(n)}) = 0
  PROVE  AnswerInv'
<1> DEFINE h == Head(q).id
           p == Data(n, h, AsksAck(Head(q), c))
<1>1. /\ p \in Packet /\ p \in DataOf(n, h) /\ p.node = n /\ p.ack = AsksAck(Head(q), c)
      /\ AsksAck(Head(q), c) \in BOOLEAN
  <2>1. Head(q) \in Pkt
    BY TailOK
  <2>2. h \in 1 .. MaxPkts /\ AsksAck(Head(q), c) \in BOOLEAN
    BY <2>1 DEF Pkt, AsksAck
  <2>3. p \in Packet /\ p \in DataOf(n, h)
    BY <2>2, PacketShapes
  <2>4. QED
    BY <2>2, <2>3 DEF Data
<1>2. Transmit(n, p, mine)
  BY DEF DoSend
<1> HIDE DEF p
<1>3. /\ rx'[n] = mine /\ \A m \in Nodes \ {n} : rx'[m] = rx[m]
      /\ toHub' = toHub \/ toHub' = Append(toHub, p)
  BY <1>1, <1>2, TransmitAlone
<1>4. /\ toHub \in Seq(Packet) /\ toGw \in Seq(Packet)
      /\ \A k \in 1 .. Len(toGw) : toGw[k].node = n => toGw[k] \in {Request(n), Ack(n)}
  BY AnswerShapes DEF AnswerInv, AnswerOK
<1>5. AnswerOK(n, buf'[n], sendCnt'[n], rx'[n], toHub', toGw', arrived'[n])
  <2>1. CASE AsksAck(Head(q), c)
    <3> PICK d \in Nat \ {0} : d = c + 1
      OBVIOUS
    <3>1. buf'[n] = q /\ sendCnt'[n] = d
      BY <2>1 DEF DoSend, QueueInv
    <3>2. AnswerOK(n, q, d, mine, toHub, toGw, arrived[n])
      BY <1>4, AnswerNone
    <3>3. AnswerOK(n, q, d, mine, Append(toHub, p), toGw, arrived[n])
      BY <1>1, <1>4, AnswerAsked
    <3>4. QED
      BY <1>3, <3>1, <3>2, <3>3
  <2>2. CASE ~AsksAck(Head(q), c)
    <3>1. buf'[n] = Tail(q) /\ sendCnt'[n] = 0
      BY <2>2 DEF DoSend, QueueInv
    <3>2. AnswerOK(n, Tail(q), 0, mine, toHub, toGw, arrived[n])
      BY <1>4, AnswerNone
    <3>3. p \notin AskedBy(n)
      BY <1>1, <2>2 DEF AskedBy
    <3>4. AnswerOK(n, Tail(q), 0, mine, Append(toHub, p), toGw, arrived[n])
      BY <1>1, <1>4, <3>2, <3>3, AnswerMoreToHub
    <3>5. QED
      BY <1>3, <3>1, <3>2, <3>4
  <2>3. QED
    BY <2>1, <2>2
<1>6. ASSUME NEW m \in Nodes \ {n}
      PROVE  AnswerOK(m, buf'[m], sendCnt'[m], rx'[m], toHub', toGw', arrived'[m])
  <2>1. buf'[m] = buf[m] /\ sendCnt'[m] = sendCnt[m]
    BY DEF DoSend, QueueInv
  <2>2. AnswerOK(m, buf[m], sendCnt[m], rx[m], toHub, toGw, arrived[m]) /\ sendCnt[m] \in Nat
    BY AnswerShapes DEF AnswerInv
  <2>3. p \notin AskedBy(m)
    BY <1>1 DEF AskedBy
  <2>4. AnswerOK(m, buf[m], sendCnt[m], rx[m], Append(toHub, p), toGw, arrived[m])
    BY <1>1, <1>4, <2>2, <2>3, AnswerMoreToHub
  <2>5. QED
    BY <1>3, <2>1, <2>2, <2>4
<1>7. QED
  BY <1>5, <1>6 DEF AnswerInv

\* Every step keeps the answers in order, when they are prompt and no other node is
\* in range.
LEMMA AnswerStep ==
  ASSUME QueueInv, AirInv, AnswerInv, Prompt, Hears = {}, [Next]_vars
  PROVE  AnswerInv'
<1>1. ASSUME UNCHANGED <<buf, sendCnt, queuedAck, rx, toHub, toGw, arrived>>
      PROVE  AnswerInv'
  BY <1>1 DEF AnswerInv
<1>2. ASSUME NEW n \in Nodes, Send(n)
      PROVE  AnswerInv'
  <2>1. /\ QueueOK(buf[n], sendCnt[n], tries[n], nextId[n])
        /\ nextId' = [nextId EXCEPT ![n] = nextId[n] + 1]
        /\ nextId \in [Nodes -> Nat] /\ UNCHANGED <<queuedAck, toGw, arrived>>
        /\ sendCnt[n] \in Nat
    BY <1>2 DEF Send, QueueInv, AirInv, hubVars
  <2>2. nextId'[n] = nextId[n] + 1 /\ Len(buf[n]) < NetPkt /\ nextId[n] < MaxPkts
    BY <1>2, <2>1 DEF Send
  <2>3. PICK ack \in BOOLEAN :
          LET q == Append(buf[n], [id |-> nextId[n] + 1, ack |-> ack]) IN
          \/ buf' = [buf EXCEPT ![n] = q] /\ UNCHANGED <<sendCnt, rx, toHub>>
          \/ buf[n] = <<>> /\ DoSend(n, q, sendCnt[n], rx[n])
    BY <1>2, <2>2 DEF Send
  <2> DEFINE q == Append(buf[n], [id |-> nextId[n] + 1, ack |-> ack])
  <2>4. QueueOK(q, sendCnt[n], tries[n], nextId[n] + 1) /\ q # <<>>
    BY <2>1, <2>2, AppendStep
  <2>5. buf[n] # <<>> => Head(q) = Head(buf[n])
    <3>1. /\ buf[n] \in Seq(Pkt) /\ [id |-> nextId[n] + 1, ack |-> ack] \in Pkt
      BY <2>1, <2>2, ConstantsAssumption DEF QueueOK, Pkt
    <3>2. QED
      BY <3>1
  <2>6. /\ AnswerOK(n, buf[n], sendCnt[n], rx[n], toHub, toGw, arrived[n])
        /\ toHub \in Seq(Packet) /\ toGw \in Seq(Packet)
        /\ \A k \in 1 .. Len(toGw) : toGw[k].node = n => toGw[k] \in {Request(n), Ack(n)}
    BY AnswerShapes DEF AnswerInv, AnswerOK
  <2>7. buf[n] = <<>> =>
          /\ Number(toHub, AskedBy(n)) = 0 /\ Number(toGw, {Ack(n)}) = 0
          /\ rx[n] \in {None, Request(n)}
    <3>1. buf[n] = <<>> => sendCnt[n] = 0
      BY <2>1 DEF QueueOK
    <3>2. QED
      BY <2>1, <2>6, <3>1, NoneIsAsked
  <2>8. \/ buf' = [buf EXCEPT ![n] = q] /\ UNCHANGED <<sendCnt, rx, toHub>>
        \/ buf[n] = <<>> /\ DoSend(n, q, sendCnt[n], rx[n])
    BY <2>3
  <2> HIDE DEF q
  <2>9. CASE buf' = [buf EXCEPT ![n] = q] /\ UNCHANGED <<sendCnt, rx, toHub>>
    <3>1. ASSUME NEW m \in Nodes
          PROVE  AnswerOK(m, buf'[m], sendCnt[m], rx[m], toHub, toGw, arrived[m])
      <4>1. CASE m # n
        <5>1. buf'[m] = buf[m]
          BY <2>9, <4>1 DEF QueueInv
        <5>2. QED
          BY <5>1 DEF AnswerInv
      <4>2. CASE m = n /\ buf[n] # <<>>
        <5>1. Head(buf'[n]) = Head(buf[n])
          BY <2>5, <2>9, <4>2 DEF QueueInv
        <5>2. QED
          BY <2>6, <4>2, <5>1 DEF AnswerOK
      <4>3. CASE m = n /\ buf[n] = <<>>
        <5>1. AnswerOK(n, q, sendCnt[n], rx[n], toHub, toGw, arrived[n])
          BY <2>1, <2>6, <2>7, <4>3, AnswerNone
        <5>2. buf'[n] = q
          BY <2>9 DEF QueueInv
        <5>3. QED
          BY <4>3, <5>1, <5>2
      <4>4. QED
        BY <4>1, <4>2, <4>3
    <3>2. QED
      BY <2>1, <2>9, <3>1 DEF AnswerInv
  <2>10. CASE buf[n] = <<>> /\ DoSend(n, q, sendCnt[n], rx[n])
    BY <2>1, <2>4, <2>7, <2>10, DoSendAnswers
  <2>11. QED
    BY <2>8, <2>9, <2>10
<1>3. ASSUME NEW n \in Nodes, PollData(n)
      PROVE  AnswerInv'
  <2>1. /\ AnswerOK(n, buf[n], sendCnt[n], rx[n], toHub, toGw, arrived[n])
        /\ toHub \in Seq(Packet) /\ toGw \in Seq(Packet) /\ sendCnt[n] \in Nat
    BY AnswerShapes DEF AnswerInv
  <2>2. rx[n] = Request(n)
    <3>1. rx[n] \in {None, Request(n), Ack(n)} /\ rx[n] # None /\ rx[n].kind # "ack"
      BY <1>3, <2>1 DEF AnswerOK, PollData, HasData
    <3>2. QED
      BY <3>1, AckShapes
  <2>3. queuedAck'[n] \in {n, None} /\ \A m \in Nodes \ {n} : queuedAck'[m] = queuedAck[m]
    BY <1>3, <2>2, AckShapes DEF PollData, AirInv
  <2>4. /\ rx'[n] = None /\ \A m \in Nodes \ {n} : rx'[m] = rx[m]
        /\ UNCHANGED <<buf, sendCnt, toHub, toGw, arrived>>
    BY <1>3 DEF PollData, AirInv, hubVars
  <2>5. AnswerOK(n, buf[n], sendCnt[n], None, toHub, toGw, arrived[n])
    BY <2>1, AnswerRadio
  <2>6. QED
    BY <2>3, <2>4, <2>5 DEF AnswerInv
<1>4. ASSUME NEW n \in Nodes, PollAck(n)
      PROVE  AnswerInv'
  <2>1. /\ AnswerOK(n, QueueLeft(n), CountLeft(n), None, toHub, toGw, arrived[n])
        /\ CountLeft(n) \in Nat
    BY <1>4, AnswerTaken DEF PollAck
  <2>2. queuedAck[n] = n
    BY <1>4 DEF PollAck, AnswerInv
  <2>3. Transmit(n, Done(n), None)
    BY <1>4, <2>2 DEF PollAck
  <2>4. /\ rx'[n] = None /\ \A m \in Nodes \ {n} : rx'[m] = rx[m]
        /\ toHub' = toHub \/ toHub' = Append(toHub, Done(n))
    BY <2>3, AckShapes, TransmitAlone
  <2>5. /\ buf'[n] = QueueLeft(n) /\ sendCnt'[n] = CountLeft(n) /\ queuedAck'[n] = None
        /\ \A m \in Nodes \ {n} :
             buf'[m] = buf[m] /\ sendCnt'[m] = sendCnt[m] /\ queuedAck'[m] = queuedAck[m]
        /\ UNCHANGED <<toGw, arrived>>
    BY <1>4 DEF PollAck, QueueInv, AirInv, hubVars
  <2>6. ASSUME NEW m \in Nodes
        PROVE  AnswerOK(m, buf'[m], sendCnt'[m], rx'[m], toHub', toGw, arrived[m])
    <3>1. /\ AnswerOK(m, buf'[m], sendCnt'[m], rx'[m], toHub, toGw, arrived[m])
          /\ sendCnt'[m] \in Nat
      BY <2>1, <2>4, <2>5, AnswerShapes DEF AnswerInv
    <3>2. Done(n) \notin AskedBy(m) /\ Done(n) \in Packet
      BY AckShapes DEF AskedBy
    <3>3. AnswerOK(m, buf'[m], sendCnt'[m], rx'[m], Append(toHub, Done(n)), toGw, arrived[m])
      BY <3>1, <3>2, AnswerShapes, AnswerMoreToHub
    <3>4. QED
      BY <2>4, <3>1, <3>3
  <2>7. QED
    BY <2>5, <2>6 DEF AnswerInv
<1>5. ASSUME NEW n \in Nodes, PollSend(n)
      PROVE  AnswerInv'
  <2>1. QueueOK(QueueLeft(n), CountLeft(n), tries[n], nextId[n]) /\ QueueLeft(n) # <<>>
    BY <1>5, QueueLeftOK DEF PollSend
  <2>2. /\ AnswerOK(n, QueueLeft(n), CountLeft(n), None, toHub, toGw, arrived[n])
        /\ CountLeft(n) \in Nat /\ toHub \in Seq(Packet) /\ toGw \in Seq(Packet)
    BY <1>5, AnswerTaken, AnswerShapes DEF PollSend
  <2>3. Number(toHub, AskedBy(n)) = 0 /\ Number(toGw, {Ack(n)}) = 0
    <3>1. CASE CountLeft(n) = 0
      BY <2>2, <3>1, NoneIsAsked
    <3>2. CASE CountLeft(n) > 0
      <4>1. ~Pending(n)
        BY <1>5, <3>2 DEF PollSend
      <4>2. \A k \in 1 .. Len(toHub) : toHub[k] \notin AskedBy(n)
        BY <4>1 DEF Pending, AskedBy
      <4>3. \A k \in 1 .. Len(toGw) : toGw[k] # Ack(n)
        BY <4>1 DEF Pending
      <4>4. QED
        BY <2>2, <4>2, <4>3, AnswerNumbers
    <3>3. QED
      BY <2>2, <3>1, <3>2
  <2>4. /\ DoSend(n, QueueLeft(n), CountLeft(n), None)
        /\ UNCHANGED <<toGw, arrived, queuedAck>>
    BY <1>5 DEF PollSend, hubVars
  <2>5. QED
    BY <2>1, <2>2, <2>3, <2>4, DoSendAnswers
<1>6. ASSUME NEW n \in Nodes, PollIdle(n)
      PROVE  AnswerInv'
  <2>1. AnswerOK(n, QueueLeft(n), CountLeft(n), None, toHub, toGw, arrived[n])
    BY <1>6, AnswerTaken DEF PollIdle
  <2>2. /\ buf'[n] = QueueLeft(n) /\ sendCnt'[n] = CountLeft(n) /\ rx'[n] = None
        /\ \A m \in Nodes \ {n} :
             buf'[m] = buf[m] /\ sendCnt'[m] = sendCnt[m] /\ rx'[m] = rx[m]
        /\ UNCHANGED <<queuedAck, toHub, toGw, arrived>>
    BY <1>6 DEF PollIdle, QueueInv, AirInv, hubVars
  <2>3. QED
    BY <2>1, <2>2 DEF AnswerInv
<1>7. ASSUME NEW n \in Nodes, HubRequest(n)
      PROVE  AnswerInv'
  <2>1. /\ toGw' = toGw \/ toGw' = Append(toGw, Request(n))
        /\ UNCHANGED <<buf, sendCnt, queuedAck, rx, toHub, arrived>>
    BY <1>7 DEF HubRequest, Post, nodeVars
  <2>2. ASSUME NEW m \in Nodes
        PROVE  AnswerOK(m, buf[m], sendCnt[m], rx[m], toHub, Append(toGw, Request(n)), arrived[m])
    <3>1. AnswerOK(m, buf[m], sendCnt[m], rx[m], toHub, toGw, arrived[m])
      BY DEF AnswerInv
    <3>2. Request(n) \in Packet /\ Request(n) # Ack(m) /\ (Request(n).node = m => Request(n) = Request(m))
      BY AckShapes
    <3>3. QED
      BY <3>1, <3>2, AnswerShapes, AnswerMoreToGw
  <2>3. QED
    BY <2>1, <2>2 DEF AnswerInv
<1>8. CASE GatewaySend
  <2> DEFINE p == Head(toGw)
  <2>1. /\ toGw # <<>> /\ toGw' = Tail(toGw) /\ p \in Packet /\ p = toGw[1]
        /\ 1 \in 1 .. Len(toGw) /\ p.node \in Nodes
        /\ UNCHANGED <<buf, sendCnt, queuedAck, toHub, arrived>>
    BY <1>8, TailProperties DEF GatewaySend, AirInv, nodeVars, hubVars, Packet
  <2>2. \/ rx' = rx
        \/ rx[p.node] = None /\ rx' = [rx EXCEPT ![p.node] = p]
    BY <1>8 DEF GatewaySend
  <2>3. ASSUME NEW m \in Nodes
        PROVE  AnswerOK(m, buf[m], sendCnt[m], rx'[m], toHub, Tail(toGw), arrived[m])
    <3>1. /\ AnswerOK(m, buf[m], sendCnt[m], rx[m], toHub, toGw, arrived[m])
          /\ toHub \in Seq(Packet) /\ toGw \in Seq(Packet) /\ sendCnt[m] \in Nat
      BY AnswerShapes DEF AnswerInv
    <3>2. AnswerOK(m, buf[m], sendCnt[m], rx[m], toHub, Tail(toGw), arrived[m])
      BY <2>1, <3>1, AnswerLessToGw
    <3>3. CASE rx'[m] = rx[m]
      BY <3>2, <3>3
    <3>4. CASE rx'[m] # rx[m]
      <4>1. m = p.node /\ rx[m] = None /\ rx'[m] = p
        BY <2>1, <2>2, <3>4 DEF AirInv
      <4>2. p \in {Request(m), Ack(m)}
        BY <2>1, <3>1, <4>1 DEF AnswerOK
      <4>3. CASE p = Ack(m)
        <5>1. AnswerOK(m, buf[m], sendCnt[m], None, toHub, toGw, arrived[m])
          BY <3>1, <4>1
        <5>2. AnswerOK(m, buf[m], sendCnt[m], Ack(m), toHub, Tail(toGw), arrived[m])
          BY <2>1, <3>1, <4>3, <5>1, AnswerDelivered
        <5>3. QED
          BY <4>1, <4>3, <5>2
      <4>4. CASE p = Request(m)
        <5>1. /\ toGw # <<>> => Tail(toGw) \in Seq(Packet)
          BY <3>1
        <5>2. AnswerOK(m, buf[m], sendCnt[m], Request(m), toHub, Tail(toGw), arrived[m])
          BY <2>1, <3>1, <3>2, <5>1, AnswerRadio
        <5>3. QED
          BY <4>1, <4>4, <5>2
      <4>5. QED
        BY <4>2, <4>3, <4>4
    <3>5. QED
      BY <3>3, <3>4
  <2>4. QED
    BY <2>1, <2>3 DEF AnswerInv
<1>9. CASE HubReceive
  <2> DEFINE p == Head(toHub)
  <2>1. /\ toHub # <<>> /\ toHub' = Tail(toHub) /\ p \in Packet /\ p = toHub[1]
        /\ 1 \in 1 .. Len(toHub) /\ p.node \in Nodes /\ p.id \in 0 .. MaxPkts
        /\ toHub \in Seq(Packet) /\ toGw \in Seq(Packet) /\ Tail(toHub) \in Seq(Packet)
        /\ UNCHANGED <<buf, sendCnt, queuedAck, rx>>
    BY <1>9, TailProperties DEF HubReceive, AirInv, nodeVars, Packet
  <2>2. ASSUME NEW m \in Nodes
        PROVE  /\ AnswerOK(m, buf[m], sendCnt[m], rx[m], toHub, toGw, arrived[m])
               /\ AnswerOK(m, buf[m], sendCnt[m], rx[m], Tail(toHub), toGw, arrived[m])
               /\ sendCnt[m] \in Nat /\ arrived[m] \in Seq(1 .. MaxPkts)
    <3>1. /\ AnswerOK(m, buf[m], sendCnt[m], rx[m], toHub, toGw, arrived[m])
          /\ sendCnt[m] \in Nat /\ arrived[m] \in Seq(1 .. MaxPkts)
      BY AnswerShapes DEF AnswerInv
    <3>2. QED
      BY <2>1, <3>1, AnswerLessToHub
  <2>3. CASE p.kind # "data"
    <3>1. UNCHANGED <<toGw, arrived>>
      BY <1>9, <2>3 DEF HubReceive
    <3>2. QED
      BY <2>1, <2>2, <3>1 DEF AnswerInv
  <2>4. CASE p.kind = "data"
    <3>1. PICK h \in 1 .. MaxPkts : h = p.id
      <4>1. p.id # 0
        BY <2>1, <2>4 DEF AirInv
      <4>2. QED
        BY <2>1, <4>1, ConstantsAssumption
    <3>2. /\ arrived' = [arrived EXCEPT ![p.node] = Append(arrived[p.node], h)]
          /\ p.ack => toGw' = toGw \/ toGw' = Append(toGw, Ack(p.node))
          /\ ~p.ack => toGw' = toGw
      BY <1>9, <2>4, <3>1 DEF HubReceive, Post
    <3>3. ASSUME NEW m \in Nodes, m # p.node
          PROVE  AnswerOK(m, buf[m], sendCnt[m], rx[m], Tail(toHub), toGw', arrived'[m])
      <4>1. arrived'[m] = arrived[m]
        BY <3>2, <3>3 DEF AirInv
      <4>2. Ack(p.node) \in Packet /\ Ack(p.node) # Ack(m) /\ Ack(p.node).node # m
        BY <2>1, <3>3, AckShapes
      <4>3. AnswerOK(m, buf[m], sendCnt[m], rx[m], Tail(toHub), Append(toGw, Ack(p.node)), arrived[m])
        BY <2>1, <2>2, <4>2, AnswerMoreToGw
      <4>4. QED
        BY <2>1, <2>2, <3>2, <4>1, <4>3
    <3>4. ASSUME NEW m \in Nodes, m = p.node
          PROVE  AnswerOK(m, buf[m], sendCnt[m], rx[m], Tail(toHub), toGw', arrived'[m])
      <4>1. arrived'[m] = Append(arrived[m], h)
        BY <3>2, <3>4 DEF AirInv
      <4>2. AnswerOK(m, buf[m], sendCnt[m], rx[m], Tail(toHub), toGw, Append(arrived[m], h))
        BY <2>1, <2>2, AnswerArrived
      <4>3. CASE p.ack
        <5>1. p \in AskedBy(m)
          BY <2>1, <3>4, <4>3 DEF AskedBy
        <5>2. AnswerOK(m, buf[m], sendCnt[m], rx[m], Tail(toHub), Append(toGw, Ack(m)), Append(arrived[m], h))
          BY <2>1, <2>2, <3>1, <5>1, AnswerGiven
        <5>3. QED
          BY <3>2, <3>4, <4>1, <4>2, <4>3, <5>2
      <4>4. CASE ~p.ack
        BY <3>2, <4>1, <4>2, <4>4
      <4>5. QED
        BY <4>3, <4>4
    <3>5. QED
      BY <2>1, <3>3, <3>4 DEF AnswerInv
  <2>5. QED
    BY <2>3, <2>4
<1>10. CASE Lose
  <2>1. /\ UNCHANGED <<buf, sendCnt, queuedAck, rx, arrived>>
        /\ \/ toHub # <<>> /\ toHub' = Tail(toHub) /\ UNCHANGED toGw
           \/ toGw # <<>> /\ toGw' = Tail(toGw) /\ UNCHANGED toHub
    BY <1>10 DEF Lose, nodeVars, hubVars
  <2>2. ASSUME NEW m \in Nodes
        PROVE  AnswerOK(m, buf[m], sendCnt[m], rx[m], toHub', toGw', arrived[m])
    <3>1. AnswerOK(m, buf[m], sendCnt[m], rx[m], toHub, toGw, arrived[m])
      BY DEF AnswerInv
    <3>2. CASE toHub # <<>> /\ toHub' = Tail(toHub) /\ UNCHANGED toGw
      BY <3>1, <3>2, AnswerShapes, AnswerLessToHub
    <3>3. CASE toGw # <<>> /\ toGw' = Tail(toGw) /\ UNCHANGED toHub
      BY <3>1, <3>3, AnswerShapes, AnswerLessToGw
    <3>4. QED
      BY <2>1, <3>2, <3>3
  <2>3. QED
    BY <2>1, <2>2 DEF AnswerInv
<1>11. ASSUME \/ \E n \in Nodes : Tick(n)
              \/ UNCHANGED vars
       PROVE  AnswerInv'
  <2>1. UNCHANGED <<buf, sendCnt, queuedAck, rx, toHub, toGw, arrived>>
    BY <1>11 DEF Tick, vars, nodeVars, hubVars
  <2>2. QED
    BY <1>1, <2>1
<1>12. QED
  BY <1>2, <1>3, <1>4, <1>5, <1>6, <1>7, <1>8, <1>9, <1>10, <1>11 DEF Next, Poll

\* No answer is to come at the start.
LEMMA AnswerInit == Init => AnswerInv
<1> SUFFICES ASSUME Init, NEW n \in Nodes
             PROVE  AnswerOK(n, <<>>, 0, None, <<>>, <<>>, <<>>)
  BY DEF Init, AnswerInv
<1>1. <<>> \in Seq(Packet) /\ Len(<<>>) = 0
  BY EmptySeq
<1>2. PICK q \in Seq(Packet) : q = <<>>
  BY <1>1
<1>3. \A k \in 1 .. Len(q) : FALSE
  BY <1>1, <1>2
<1>4. /\ Number(q, AskedBy(n)) = 0 <=> \A k \in 1 .. Len(q) : q[k] \notin AskedBy(n)
      /\ Number(q, {Ack(n)}) = 0 <=> \A k \in 1 .. Len(q) : q[k] # Ack(n)
  BY AnswerNumbers
<1>5. Number(q, AskedBy(n)) = 0 /\ Number(q, {Ack(n)}) = 0
  BY <1>3, <1>4, Zenon
<1>6. PICK c \in Nat : c = 0
  OBVIOUS
<1>7. PICK r \in {None, Request(n)} : r = None
  OBVIOUS
<1>8. \A k \in 1 .. Len(q) : q[k].node = n => q[k] \in {Request(n), Ack(n)}
  BY <1>3
<1>9. AnswerOK(n, q, c, r, q, q, q)
  BY <1>5, <1>8, AnswerNone
<1>10. QED
  BY <1>2, <1>6, <1>7, <1>9

\* Every reachable state has the answers in order.
LEMMA AnswerInvariant ==
  ASSUME Prompt, Hears = {}
  PROVE  Spec => []AnswerInv
<1>1. QueueInv /\ AirInv /\ AnswerInv /\ [Next]_vars => AnswerInv'
  BY AnswerStep
<1>2. QED
  BY <1>1, AnswerInit, QueueInvariant, AirInvariant, PTL DEF Spec

-------------------------------------------------------------------------------
(* What a node may conclude from an ACK.                                       *)

\* Net::send leaves the first packet where it is.
LEMMA SendKeepsFirst ==
  ASSUME QueueInv, NEW n \in Nodes, Send(n), buf[n] # <<>>
  PROVE  buf'[n] # <<>> /\ Head(buf'[n]) = Head(buf[n])
<1>1. /\ QueueOK(buf[n], sendCnt[n], tries[n], nextId[n])
      /\ nextId' = [nextId EXCEPT ![n] = nextId[n] + 1]
      /\ nextId \in [Nodes -> Nat]
  BY DEF Send, QueueInv
<1>2. nextId'[n] = nextId[n] + 1 /\ nextId[n] < MaxPkts
  BY <1>1 DEF Send
<1>3. PICK ack \in BOOLEAN :
        buf' = [buf EXCEPT ![n] = Append(buf[n], [id |-> nextId[n] + 1, ack |-> ack])]
  <2>1. \E ack \in BOOLEAN :
          buf' = [buf EXCEPT ![n] = Append(buf[n], [id |-> nextId'[n], ack |-> ack])]
    BY DEF Send
  <2>2. QED
    BY <1>2, <2>1
<1>4. /\ buf[n] \in Seq(Pkt) /\ [id |-> nextId[n] + 1, ack |-> ack] \in Pkt
  <2>1. buf[n] \in Seq(Pkt)
    BY <1>1 DEF QueueOK, Pkt
  <2>2. nextId[n] + 1 \in 1 .. MaxPkts
    BY <1>1, <1>2, ConstantsAssumption
  <2>3. [id |-> nextId[n] + 1, ack |-> ack] \in Pkt
    BY <2>2, <1>3 DEF Pkt
  <2>4. QED
    BY <2>1, <2>3
<1>5. buf'[n] = Append(buf[n], [id |-> nextId[n] + 1, ack |-> ack])
  BY <1>3 DEF QueueInv
<1>6. QED
  BY <1>4, <1>5

\* The last transmission of a packet that asks for an ACK removes it.
LEMMA LastTry ==
  ASSUME QueueInv, NEW n \in Nodes, PollSend(n), ~Acked(n)
  PROVE  ~Leaves(n)
<1> SUFFICES ASSUME Leaves(n) PROVE FALSE
  OBVIOUS
<1>1. QueueLeft(n) = buf[n] /\ CountLeft(n) = sendCnt[n]
  BY DEF QueueLeft, CountLeft
<1>2. DoSend(n, buf[n], sendCnt[n], None)
  BY <1>1 DEF PollSend
<1>3. /\ QueueOK(buf[n], sendCnt[n], tries[n], nextId[n]) /\ buf[n] # <<>>
      /\ tries \in [Nodes -> [1 .. MaxPkts -> Nat]] /\ RetryMax \in Nat
  BY ConstantsAssumption DEF QueueInv, Leaves
<1>4. PICK h \in 1 .. MaxPkts : h = Head(buf[n]).id /\ tries[n][h] = sendCnt[n]
  <2>1. /\ Head(buf[n]) \in Pkt /\ Head(buf[n]).id = nextId[n] - Len(buf[n]) + 1
    BY <1>3, TailOK
  <2>2. Head(buf[n]).id \in 1 .. MaxPkts
    BY <2>1 DEF Pkt
  <2>3. QED
    BY <1>3, <2>1, <2>2 DEF QueueOK
<1>5. tries'[n][h] = sendCnt[n] + 1
  BY <1>2, <1>3, <1>4 DEF DoSend
<1>6. AsksAck(Head(buf[n]), sendCnt[n])
  BY <1>3, <1>4, <1>5 DEF AsksAck, Leaves
<1>7. buf'[n] = buf[n]
  BY <1>2, <1>6 DEF DoSend, QueueInv
<1>8. QED
  BY <1>7 DEF Leaves

\* README.md promises delivery at least once for a packet that asks for an ACK.  When
\* the answers are prompt and no other node is in range, Net.cpp forgets such a packet
\* before its last try only if the hub has got it: whatever is lost, whatever requests
\* the hub sends and however the polls of the nodes interleave.
THEOREM AckTellsReceived ==
  ASSUME Prompt, Hears = {}
  PROVE  Spec => AckMeansReceived
<1>1. ASSUME QueueInv, AirInv, AnswerInv, [Next]_vars, NEW n \in Nodes, Leaves(n)
      PROVE  Copies(n, Head(buf[n]).id) > 0
  <2>1. ASSUME NEW m \in Nodes, Send(m)
        PROVE  FALSE
    <3>1. CASE m = n
      BY <1>1, <2>1, <3>1, SendKeepsFirst DEF Leaves
    <3>2. CASE m # n
      BY <1>1, <2>1, <3>2 DEF Leaves, Send, DoSend, QueueInv
    <3>3. QED
      BY <3>1, <3>2
  <2>2. ASSUME NEW m \in Nodes, PollAck(m) \/ PollIdle(m)
        PROVE  Copies(n, Head(buf[n]).id) > 0
    <3>1. m = n /\ Acked(n)
      BY <1>1, <2>2 DEF Leaves, PollAck, PollIdle, QueueInv, QueueLeft
    <3>2. ~HasData(n)
      BY <2>2, <3>1 DEF PollAck, PollIdle
    <3>3. QED
      BY <1>1, <3>1, <3>2, AnswerTaken
  <2>3. ASSUME NEW m \in Nodes, PollSend(m)
        PROVE  Copies(n, Head(buf[n]).id) > 0
    <3>1. m = n
      BY <1>1, <2>3 DEF Leaves, PollSend, DoSend, QueueInv
    <3>2. Acked(n) /\ ~HasData(n)
      BY <1>1, <2>3, <3>1, LastTry DEF PollSend
    <3>3. QED
      BY <1>1, <3>2, AnswerTaken
  <2>4. ASSUME \/ \E m \in Nodes : Tick(m) \/ PollData(m) \/ HubRequest(m)
               \/ GatewaySend \/ HubReceive \/ Lose \/ UNCHANGED vars
        PROVE  FALSE
    <3>1. UNCHANGED buf
      BY <2>4 DEF Tick, PollData, HubRequest, GatewaySend, HubReceive, Lose, vars, nodeVars
    <3>2. QED
      BY <1>1, <3>1 DEF Leaves
  <2>5. QED
    BY <1>1, <2>1, <2>2, <2>3, <2>4 DEF Next, Poll
<1>2. QueueInv /\ AirInv /\ AnswerInv /\ [Next]_vars =>
        [\A n \in Nodes : Leaves(n) => Copies(n, Head(buf[n]).id) > 0]_vars
  BY <1>1
<1>3. Spec => []AnswerInv
  BY AnswerInvariant
<1>4. QED
  BY <1>2, <1>3, QueueInvariant, AirInvariant, PTL DEF Spec, AckMeansReceived

-------------------------------------------------------------------------------
(* The transport implements the service, action by action.                     *)

\* Net::doSend tries the first packet of the queue, and drops it at its last try.
LEMMA DoSendTries ==
  ASSUME QueueInv, NEW n \in Nodes, NEW q, NEW c, NEW x, QueueOK(q, c, tries[n], x),
         q # <<>>, NEW mine, DoSend(n, q, c, mine)
  PROVE  Service!TryFirst(n, q)
<1>1. /\ Head(q) \in Pkt /\ Head(q) = q[1] /\ Head(q).id = x - Len(q) + 1
      /\ RetryMax \in Nat \ {0} /\ c \in 0 .. RetryMax - 1
      /\ tries \in [Nodes -> [1 .. MaxPkts -> Nat]]
  <2>1. q \in Seq(Pkt) /\ c \in 0 .. RetryMax - 1
    BY DEF QueueOK, Pkt
  <2>2. Head(q) = q[1]
    BY <2>1
  <2>3. Head(q) \in Pkt /\ Head(q).id = x - Len(q) + 1
    BY TailOK
  <2>4. tries \in [Nodes -> [1 .. MaxPkts -> Nat]]
    BY DEF QueueInv
  <2>5. QED
    BY <2>1, <2>2, <2>3, <2>4, ConstantsAssumption
<1>2. PICK h \in 1 .. MaxPkts : h = Head(q).id
  BY <1>1 DEF Pkt
<1>3. tries[n][h] = c
  BY <1>1, <1>2 DEF QueueOK
<1>4. c > 0 => Head(q).ack
  BY <1>1 DEF QueueOK
<1>5. Head(q).ack \in BOOLEAN
  BY <1>1 DEF Pkt
<1>6. c < Service!Limit(Head(q))
  BY <1>1, <1>4, <1>5 DEF Service!Limit
<1>7. tries' = [tries EXCEPT ![n][h] = @ + 1]
  BY <1>2 DEF DoSend
<1>8. tries'[n][h] = c + 1
  BY <1>1, <1>3, <1>7
<1>9. AsksAck(Head(q), c) <=> c + 1 # Service!Limit(Head(q))
  BY <1>1, <1>4, <1>5 DEF Service!Limit, AsksAck
<1>10. buf' = [buf EXCEPT ![n] = IF tries'[n][h] = Service!Limit(Head(q)) THEN Tail(q) ELSE q]
  <2>1. CASE AsksAck(Head(q), c)
    BY <1>8, <1>9, <2>1 DEF DoSend
  <2>2. CASE ~AsksAck(Head(q), c)
    BY <1>8, <1>9, <2>2 DEF DoSend
  <2>3. QED
    BY <2>1, <2>2
<1>11. QED
  BY <1>2, <1>3, <1>6, <1>7, <1>10 DEF Service!TryFirst

\* Net::send accepts a packet.
LEMMA SendAccepts ==
  ASSUME QueueInv, NEW n \in Nodes, Send(n)
  PROVE  Service!Accept(n)
<1>1. /\ QueueOK(buf[n], sendCnt[n], tries[n], nextId[n])
      /\ nextId' = [nextId EXCEPT ![n] = nextId[n] + 1]
      /\ nextId \in [Nodes -> Nat] /\ UNCHANGED arrived
      /\ Len(buf[n]) < NetPkt /\ nextId[n] < MaxPkts
  BY DEF Send, QueueInv, hubVars
<1>2. nextId'[n] = nextId[n] + 1
  BY <1>1
<1>3. PICK ack \in BOOLEAN :
        LET q == Append(buf[n], [id |-> nextId'[n], ack |-> ack]) IN
        \/ /\ buf' = [buf EXCEPT ![n] = q]
           /\ UNCHANGED <<sendCnt, sendTime, rx, toHub, tries>>
        \/ buf[n] = <<>> /\ DoSend(n, q, sendCnt[n], rx[n])
  BY DEF Send
<1> DEFINE q == Append(buf[n], [id |-> nextId'[n], ack |-> ack])
<1>4. QueueOK(q, sendCnt[n], tries[n], nextId[n] + 1) /\ q # <<>>
  <2>1. /\ QueueOK(Append(buf[n], [id |-> nextId[n] + 1, ack |-> ack]), sendCnt[n], tries[n],
                   nextId[n] + 1)
        /\ Append(buf[n], [id |-> nextId[n] + 1, ack |-> ack]) # <<>>
    BY <1>1, AppendStep
  <2>2. QED
    BY <1>2, <2>1
<1>5. \/ buf' = [buf EXCEPT ![n] = q] /\ UNCHANGED tries
      \/ buf[n] = <<>> /\ DoSend(n, q, sendCnt[n], rx[n])
  BY <1>3
<1>6. \/ buf' = [buf EXCEPT ![n] = q] /\ UNCHANGED tries
      \/ buf[n] = <<>> /\ Service!TryFirst(n, q)
  BY <1>4, <1>5, DoSendTries
<1>7. QED
  BY <1>1, <1>6 DEF Service!Accept

\* The service counts the copies of a packet as the transport does.
LEMMA GotIsCopies ==
  ASSUME NEW n, NEW i
  PROVE  Service!Got(n, i) = Copies(n, i)
<1>1. {k \in 1 .. Len(arrived[n]) : arrived[n][k] = i}
        = {k \in 1 .. Len(arrived[n]) : arrived[n][k] \in {i}}
  OBVIOUS
<1>2. QED
  BY <1>1 DEF Service!Got, Copies, Number, Service!Cardinality, Cardinality

\* The hub takes a packet of a node: a try of it arrives.
LEMMA ReceiveArrives ==
  ASSUME QueueInv, AirInv, ArriveInv, HubReceive
  PROVE  \/ UNCHANGED <<buf, nextId, tries, arrived>>
         \/ \E n \in Nodes : \E i \in 1 .. MaxPkts : Service!Arrive(n, i)
<1> DEFINE p == Head(toHub)
<1>1. /\ p \in Packet /\ p = toHub[1] /\ 1 \in 1 .. Len(toHub) /\ toHub \in Seq(Packet)
      /\ p.node \in Nodes /\ p.id \in 0 .. MaxPkts
      /\ UNCHANGED <<buf, nextId, tries>>
  BY TailProperties DEF HubReceive, AirInv, Packet, nodeVars, history
<1>2. CASE p.kind # "data"
  BY <1>1, <1>2 DEF HubReceive
<1>3. CASE p.kind = "data"
  <2>1. PICK i \in 1 .. MaxPkts : i = p.id
    <3>1. p.id # 0
      BY <1>1, <1>3 DEF AirInv
    <3>2. QED
      BY <1>1, <3>1, ConstantsAssumption
  <2>2. PICK n \in Nodes : n = p.node
    BY <1>1
  <2>3. p \in DataOf(n, i)
    BY <1>1, <1>3, <2>1, <2>2 DEF DataOf, DataFrom
  <2>4. Number(toHub, DataOf(n, i)) # 0
    <3>1. Number(toHub, DataOf(n, i)) = 0
            <=> \A k \in 1 .. Len(toHub) : toHub[k] \notin DataOf(n, i)
      BY <1>1, NumberProperties
    <3>2. QED
      BY <1>1, <2>3, <3>1
  <2>5. Copies(n, i) < tries[n][i]
    <3>1. /\ Number(arrived[n], {i}) + Number(toHub, DataOf(n, i)) <= tries[n][i]
          /\ Number(arrived[n], {i}) \in Nat /\ Number(toHub, DataOf(n, i)) \in Nat
          /\ tries[n][i] \in Nat
      BY FlowNumbers
    <3>2. QED
      BY <2>4, <3>1 DEF Copies
  <2>6. Service!Got(n, i) < tries[n][i]
    BY <2>5, GotIsCopies
  <2>7. arrived' = [arrived EXCEPT ![n] = Append(@, i)]
    BY <1>3, <2>1, <2>2 DEF HubReceive
  <2>8. Service!Arrive(n, i)
    BY <1>1, <2>6, <2>7 DEF Service!Arrive
  <2>9. QED
    BY <2>8
<1>4. QED
  BY <1>2, <1>3

\* Net::poll: the first packet is confirmed, or tried again, or left alone.
LEMMA PollServes ==
  ASSUME QueueInv, AirInv, AnswerInv, NEW n \in Nodes,
         PollAck(n) \/ PollSend(n) \/ PollIdle(n)
  PROVE  UNCHANGED <<buf, nextId, tries, arrived>> \/ Service!Try(n) \/ Service!Confirm(n)
<1>1. ~HasData(n) /\ UNCHANGED <<nextId, arrived>>
  BY DEF PollAck, PollSend, PollIdle, hubVars, history
<1>2. Acked(n) => Service!Got(n, Head(buf[n]).id) > 0 /\ buf[n] # <<>>
  <2>1. Acked(n) => Copies(n, Head(buf[n]).id) > 0 /\ buf[n] # <<>>
    BY <1>1, AnswerTaken DEF Acked
  <2>2. QED
    BY <2>1, GotIsCopies
<1>3. CASE PollAck(n) \/ PollIdle(n)
  <2>1. buf' = [buf EXCEPT ![n] = QueueLeft(n)] /\ UNCHANGED tries
    BY <1>3 DEF PollAck, PollIdle, history
  <2>2. CASE Acked(n)
    <3>1. buf' = [buf EXCEPT ![n] = Tail(@)]
      BY <2>1, <2>2 DEF QueueLeft
    <3>2. QED
      BY <1>1, <1>2, <2>1, <2>2, <3>1 DEF Service!Confirm
  <2>3. CASE ~Acked(n)
    <3>1. buf' = buf
      BY <2>1, <2>3 DEF QueueLeft, QueueInv
    <3>2. QED
      BY <1>1, <2>1, <3>1
  <2>4. QED
    BY <2>2, <2>3
<1>4. CASE PollSend(n)
  <2>1. QueueOK(QueueLeft(n), CountLeft(n), tries[n], nextId[n]) /\ QueueLeft(n) # <<>>
    BY <1>4, QueueLeftOK DEF PollSend
  <2>2. DoSend(n, QueueLeft(n), CountLeft(n), None)
    BY <1>4 DEF PollSend
  <2>3. Service!TryFirst(n, QueueLeft(n))
    BY <2>1, <2>2, DoSendTries
  <2>4. CASE Acked(n)
    <3>1. QueueLeft(n) = Tail(buf[n])
      BY <2>4 DEF QueueLeft
    <3>2. QED
      BY <1>1, <1>2, <2>1, <2>3, <2>4, <3>1 DEF Service!Confirm
  <2>5. CASE ~Acked(n)
    <3>1. QueueLeft(n) = buf[n]
      BY <2>5 DEF QueueLeft
    <3>2. QED
      BY <1>1, <2>1, <2>3, <3>1 DEF Service!Try
  <2>6. QED
    BY <2>4, <2>5
<1>5. QED
  BY <1>3, <1>4

\* Every step of the transport is a step of the service, or changes nothing of it.
LEMMA ServiceStep ==
  ASSUME QueueInv, AirInv, ArriveInv, AnswerInv, [Next]_vars
  PROVE  Service!Next \/ UNCHANGED <<buf, nextId, tries, arrived>>
<1>1. ASSUME NEW n \in Nodes, Send(n)
      PROVE  Service!Next
  BY <1>1, SendAccepts DEF Service!Next
<1>2. ASSUME NEW n \in Nodes, PollAck(n) \/ PollSend(n) \/ PollIdle(n)
      PROVE  Service!Next \/ UNCHANGED <<buf, nextId, tries, arrived>>
  BY <1>2, PollServes DEF Service!Next
<1>3. CASE HubReceive
  BY <1>3, ReceiveArrives DEF Service!Next
<1>4. ASSUME \/ \E n \in Nodes : Tick(n) \/ PollData(n) \/ HubRequest(n)
             \/ GatewaySend \/ Lose \/ UNCHANGED vars
      PROVE  UNCHANGED <<buf, nextId, tries, arrived>>
  BY <1>4
     DEF Tick, PollData, HubRequest, GatewaySend, Lose, vars, nodeVars, hubVars, history
<1>5. QED
  BY <1>1, <1>2, <1>3, <1>4 DEF Next, Poll

\* Net.cpp implements the service it offers: with prompt answers and no other node in
\* range, what a node sends is tried at most NET_RETRY_MAX times, leaves the queue in
\* order when its tries are used up or when the hub has got it, and arrives at most as
\* often as it was tried.
THEOREM TransportImplementsService ==
  ASSUME Prompt, Hears = {}
  PROVE  Spec => ImplementsService
<1>1. Init => Service!Init
  BY DEF Init, Service!Init
<1>2. QueueInv /\ AirInv /\ ArriveInv /\ AnswerInv /\ [Next]_vars
        => [Service!Next]_(Service!vars)
  BY ServiceStep DEF Service!vars
<1>3. Spec => []AnswerInv
  BY AnswerInvariant
<1>4. QED
  BY <1>1, <1>2, <1>3, QueueInvariant, AirInvariant, ArriveInvariant, PTL
     DEF Spec, ImplementsService, Service!Spec
================================================================================
