--------------------------- MODULE NetTransportProps ---------------------------
(* What must hold, or is said to hold, of the transport of the nodes.          *)
EXTENDS NetTransport, FiniteSets

Packet ==
  [kind : {"data", "req", "ack", "done"}, node : Nodes, id : 0 .. MaxPkts, ack : BOOLEAN]

\* An empty receive buffer is not taken for a packet.
ASSUME NoneAssumption == None \notin Packet

\* Every variable has the values the code gives it; the queue never holds more
\* than NET_PKT packets.
TypeOK ==
  /\ buf \in [Nodes -> Seq([id : 1 .. MaxPkts, ack : BOOLEAN])]
  /\ \A n \in Nodes : Len(buf[n]) <= NetPkt
  /\ sendCnt \in [Nodes -> 0 .. RetryMax]
  /\ sendTime \in [Nodes -> 0 .. ClockMod - 1] /\ now \in [Nodes -> 0 .. ClockMod - 1]
  /\ queuedAck \in [Nodes -> Nodes \cup {None}]
  /\ rx \in [Nodes -> Packet \cup {None}]
  /\ toHub \in Seq(Packet) /\ Len(toHub) <= MaxFlight
  /\ toGw \in Seq(Packet) /\ Len(toGw) <= MaxFlight
  /\ arrived \in [Nodes -> Seq(1 .. MaxPkts)]
  /\ reqs \in 0 .. MaxReqs
  /\ nextId \in [Nodes -> 0 .. MaxPkts]
  /\ tries \in [Nodes -> [1 .. MaxPkts -> 0 .. RetryMax]]

\* Net::doSend and poll keep sendCnt at the number of transmissions of the
\* first packet of the queue, and everything behind it is untouched: no packet
\* starts with the count of another, whatever ACKs come in.
CountsTheFirst ==
  \A n \in Nodes :
    /\ buf[n] = <<>> => sendCnt[n] = 0
    /\ \A k \in 1 .. Len(buf[n]) :
         tries[n][buf[n][k].id] = IF k = 1 THEN sendCnt[n] ELSE 0

\* The queue holds the last packets sent, each once and in their order: none is
\* overtaken or lost in the copying of the buffers.
QueueInOrder ==
  \A n \in Nodes : \A k \in 1 .. Len(buf[n]) :
    buf[n][k].id = nextId[n] - Len(buf[n]) + k

\* A packet leaves the queue only after it was on the air: an ACK that comes while
\* the first packet still waits for a free radio does not remove it.
NoneLeavesUnsent ==
  \A n \in Nodes : \A i \in 1 .. nextId[n] - Len(buf[n]) : tries[n][i] > 0

\* How many elements of the sequence q are in W.
Number(q, W) == Cardinality({k \in 1 .. Len(q) : q[k] \in W})

Copies(n, i) == Number(arrived[n], {i})

\* The hub gets the packets of a node in the order they were sent, each at most
\* NET_RETRY_MAX times.
ArriveInOrder ==
  \A n \in Nodes :
    /\ \A j, k \in 1 .. Len(arrived[n]) : j < k => arrived[n][j] <= arrived[n][k]
    /\ \A i \in 1 .. MaxPkts : Copies(n, i) <= tries[n][i] /\ tries[n][i] <= RetryMax

\* Node n forgets its first packet, which asks for an ACK, before its last try.
Leaves(n) ==
  /\ buf[n] # <<>> /\ buf'[n] # buf[n] /\ Head(buf[n]).ack
  /\ buf'[n] = <<>> \/ Head(buf'[n]) # Head(buf[n])
  /\ tries'[n][Head(buf[n]).id] < RetryMax

\* README.md: a packet that asks for an ACK is sent with QoS=1, at least once:
\* the node forgets it before its last try only if the hub has got it.
AckMeansReceived ==
  [][\A n \in Nodes : Leaves(n) => Copies(n, Head(buf[n]).id) > 0]_vars

\* The transport implements the service it offers.
Service == INSTANCE NetService
ImplementsService == Service!Spec

\* Every packet leaves the queue, however many packets and ACKs are lost.
QueueDrains ==
  \A n \in Nodes : \A i \in 1 .. MaxPkts :
    (i <= nextId[n] /\ i > nextId[n] - Len(buf[n])) ~> (i <= nextId[n] - Len(buf[n]))
================================================================================
