----------------------------- MODULE NetTransport -----------------------------
(***************************************************************************)
(* The network transport of the nodes (nodes/Net/Net.cpp): a queue of      *)
(* packets with retransmissions and ACKs, with the radio, the gateway and  *)
(* the part of the hub that answers.                                       *)
(*                                                                         *)
(* A node sends its packets as broadcasts that carry its own id; they      *)
(* reach the gateway and the nodes in range, or not.  The gateway passes   *)
(* them to the hub by UDP, the hub stores them and answers with an ACK if  *)
(* one is asked for.  An ACK names a node, not a packet.                   *)
(***************************************************************************)
EXTENDS Integers, Sequences, SequencesExt

CONSTANTS
  Nodes,      \* the nodes of one RF group
  Hears,      \* the pairs <<m, n>> where m receives what n broadcasts
  NetPkt,     \* NET_PKT, the number of packet buffers
  RetryMax,   \* NET_RETRY_MAX
  RetryMs,    \* NET_RETRY_MS
  ClockMod,   \* millis() wraps here (2^32); 1 makes a retry due at any poll
  Gaps,       \* how much time may pass between two polls
  Prompt,     \* whether the answer to a transmission comes, or is lost, before
              \* the node repeats the transmission
  MaxPkts,    \* bound on the packets a node sends
  MaxReqs,    \* bound on the requests the hub sends
  MaxFlight,  \* bound on the datagrams on their way in one direction
  None        \* an empty receive buffer, no queued ACK

ASSUME ConstantsAssumption ==
  /\ Hears \subseteq Nodes \X Nodes
  /\ NetPkt \in Nat \ {0} /\ RetryMax \in Nat \ {0}
  /\ ClockMod \in Nat \ {0} /\ RetryMs \in Nat /\ Gaps \subseteq Nat
  /\ Prompt \in BOOLEAN
  /\ MaxPkts \in Nat /\ MaxReqs \in Nat /\ MaxFlight \in Nat
  /\ None \notin Nodes

VARIABLES
  buf,        \* the packets queued in each node
  sendCnt,    \* the number of transmissions of the first of them
  sendTime,   \* when it was transmitted last
  queuedAck,  \* the node each node owes an ACK (itself: a request of the hub)
  now,        \* millis() in each node
  rx,         \* what the radio of each node received and poll has not taken
  toHub,      \* the datagrams from the gateway to the hub
  toGw,       \* the datagrams from the hub to the gateway
  arrived,    \* what the hub received from each node
  reqs,       \* the number of requests sent by the hub
  nextId,     \* history: the number of packets each node accepted
  tries       \* history: how often each packet was transmitted

nodeVars == <<buf, sendCnt, sendTime, queuedAck, now>>
hubVars == <<arrived, reqs>>
history == <<nextId, tries>>
vars == <<nodeVars, rx, toHub, toGw, hubVars, history>>

Init ==
  /\ buf = [n \in Nodes |-> <<>>]
  /\ sendCnt = [n \in Nodes |-> 0]
  /\ sendTime = [n \in Nodes |-> 0]
  /\ queuedAck = [n \in Nodes |-> None]
  /\ now = [n \in Nodes |-> 0]
  /\ rx = [n \in Nodes |-> None]
  /\ toHub = <<>> /\ toGw = <<>>
  /\ arrived = [n \in Nodes |-> <<>>]
  /\ reqs = 0
  /\ nextId = [n \in Nodes |-> 0]
  /\ tries = [n \in Nodes |-> [i \in 1 .. MaxPkts |-> 0]]

-----------------------------------------------------------------------------
(* Packets on the air.  "data": a broadcast of a node (CTL=0, DST=0);      *)
(* "req": a request to a node (CTL=0, DST=1, ACK=1); "ack": an ACK to a    *)
(* node (CTL=1, DST=1); "done": an ACK to the hub (CTL=1, DST=0).          *)

Data(n, i, ack) == [kind |-> "data", node |-> n, id |-> i, ack |-> ack]
Request(n) == [kind |-> "req", node |-> n, id |-> 0, ack |-> TRUE]
Ack(n) == [kind |-> "ack", node |-> n, id |-> 0, ack |-> FALSE]
Done(n) == [kind |-> "done", node |-> n, id |-> 0, ack |-> FALSE]

\* UDP: what does not fit is lost.
Post(q, p) == IF Len(q) < MaxFlight THEN Append(q, p) ELSE q

\* What node n transmits may reach the nodes in range, an ACK only the one it is
\* for, and the gateway, which passes everything on.  A radio keeps one packet
\* until it is polled.  mine is what n's own receive buffer holds afterwards.
InRange(n, p) ==
  {m \in Nodes \ {n} : <<m, n>> \in Hears /\ (p.kind = "ack" => m = p.node)}

Transmit(n, p, mine) ==
  /\ \E R \in SUBSET {m \in InRange(n, p) : rx[m] = None} :
       rx' = [m \in Nodes |-> IF m = n THEN mine ELSE IF m \in R THEN p ELSE rx[m]]
  /\ toHub' \in {toHub, Post(toHub, p)}

\* The answer to a transmission of n is still on its way.
Pending(n) ==
  \/ \E i \in 1 .. Len(toHub) : toHub[i].node = n /\ toHub[i].ack
  \/ \E i \in 1 .. Len(toGw) : toGw[i] = Ack(n)
  \/ rx[n] = Ack(n)
  \/ \E m \in Nodes \ {n} :
       queuedAck[m] = n \/ (rx[m] # None /\ rx[m].node = n /\ rx[m].ack)

-----------------------------------------------------------------------------
(* A node.  The radio may be busy at any time, so that canSend is false.   *)

Tick(n) ==
  \E d \in Gaps :
    /\ now' = [now EXCEPT ![n] = (@ + d) % ClockMod]
    /\ UNCHANGED <<buf, sendCnt, sendTime, queuedAck, rx, toHub, toGw, hubVars, history>>

\* The time for the next retry of the first packet.
Due(n) == now[n] >= (sendTime[n] + RetryMs) % ClockMod

\* The c+1st transmission of p asks for an ACK.
BugAsksAck(p, c) == p.ack
AsksAck(p, c) == p.ack /\ c + 1 < RetryMax

\* doSend with the queue q, whose first packet was transmitted c times.
DoSend(n, q, c, mine) ==
  LET first == Head(q) IN
  /\ Transmit(n, Data(n, first.id, AsksAck(first, c)), mine)
  /\ tries' = [tries EXCEPT ![n][first.id] = @ + 1]
  /\ IF AsksAck(first, c)
     THEN /\ buf' = [buf EXCEPT ![n] = q]
          /\ sendCnt' = [sendCnt EXCEPT ![n] = c + 1]
          /\ sendTime' = [sendTime EXCEPT ![n] = now[n]]
     ELSE /\ buf' = [buf EXCEPT ![n] = Tail(q)]
          /\ sendCnt' = [sendCnt EXCEPT ![n] = 0]
          /\ UNCHANGED sendTime

\* alloc and send: a new packet goes out at once if it is alone.
Send(n) ==
  /\ Len(buf[n]) < NetPkt
  /\ nextId[n] < MaxPkts
  /\ nextId' = [nextId EXCEPT ![n] = @ + 1]
  /\ \E ack \in BOOLEAN :
       LET q == Append(buf[n], [id |-> nextId'[n], ack |-> ack]) IN
       \/ /\ buf' = [buf EXCEPT ![n] = q]
          /\ UNCHANGED <<sendCnt, sendTime, rx, toHub, tries>>
       \/ buf[n] = <<>> /\ DoSend(n, q, sendCnt[n], rx[n])
  /\ UNCHANGED <<queuedAck, now, toGw, hubVars>>

\* poll has data to return.
HasData(n) == rx[n] # None /\ rx[n].kind \in {"data", "req"}

\* poll receives a packet with data: it queues an ACK, over one that may be
\* queued already, and returns to the sketch.
PollData(n) ==
  /\ HasData(n)
  /\ queuedAck' = [queuedAck EXCEPT ![n] = IF rx[n].ack THEN rx[n].node ELSE @]
  /\ rx' = [rx EXCEPT ![n] = None]
  /\ UNCHANGED <<buf, sendCnt, sendTime, now, toHub, toGw, hubVars, history>>

\* poll receives an ACK that the node waits for.
BugAcked(n) == rx[n] = Ack(n) /\ buf[n] # <<>>
Acked(n) == rx[n] = Ack(n) /\ buf[n] # <<>> /\ sendCnt[n] > 0

\* The queue and the count after the first half of poll.
BugQueueLeft(n) == IF Acked(n) THEN Front(buf[n]) ELSE buf[n]
BugCountLeft(n) == sendCnt[n]
QueueLeft(n) == IF Acked(n) THEN Tail(buf[n]) ELSE buf[n]
CountLeft(n) == IF Acked(n) THEN 0 ELSE sendCnt[n]

\* reXmit sends the queued ACK.
PollAck(n) ==
  /\ ~HasData(n)
  /\ queuedAck[n] # None
  /\ Transmit(n, IF queuedAck[n] = n THEN Done(n) ELSE Ack(queuedAck[n]), None)
  /\ queuedAck' = [queuedAck EXCEPT ![n] = None]
  /\ buf' = [buf EXCEPT ![n] = QueueLeft(n)]
  /\ sendCnt' = [sendCnt EXCEPT ![n] = CountLeft(n)]
  /\ UNCHANGED <<sendTime, now, toGw, hubVars, history>>

\* A fresh packet is transmitted as soon as possible, another one when it is due.
BugItIsTime(n) == CountLeft(n) > 0 /\ Due(n)
ItIsTime(n) == CountLeft(n) > 0 => Due(n)

\* reXmit transmits the first packet, for the first time or again.
PollSend(n) ==
  /\ ~HasData(n)
  /\ QueueLeft(n) # <<>>
  /\ ItIsTime(n)
  /\ Prompt /\ CountLeft(n) > 0 => ~Pending(n)
  /\ DoSend(n, QueueLeft(n), CountLeft(n), None)
  /\ UNCHANGED <<queuedAck, now, toGw, hubVars, nextId>>

\* reXmit finds nothing to send or the radio busy.
PollIdle(n) ==
  /\ ~HasData(n)
  /\ buf' = [buf EXCEPT ![n] = QueueLeft(n)]
  /\ sendCnt' = [sendCnt EXCEPT ![n] = CountLeft(n)]
  /\ rx' = [rx EXCEPT ![n] = None]
  /\ UNCHANGED <<sendTime, queuedAck, now, toHub, toGw, hubVars, history>>

-----------------------------------------------------------------------------
(* The gateway and the hub.                                                *)

\* A datagram is lost.
Lose ==
  /\ \/ toHub # <<>> /\ toHub' = Tail(toHub) /\ UNCHANGED toGw
     \/ toGw # <<>> /\ toGw' = Tail(toGw) /\ UNCHANGED toHub
  /\ UNCHANGED <<nodeVars, rx, hubVars, history>>

\* The gateway transmits what the hub sent, to the node it is for.
GatewaySend ==
  /\ toGw # <<>>
  /\ LET p == Head(toGw) IN
       IF rx[p.node] = None THEN rx' \in {rx, [rx EXCEPT ![p.node] = p]} ELSE UNCHANGED rx
  /\ toGw' = Tail(toGw)
  /\ UNCHANGED <<nodeVars, toHub, hubVars, history>>

\* The hub receives a packet: it answers first, then takes the data.  ACKs
\* are not looked at.
BugHubReceive ==
  /\ toHub # <<>>
  /\ toHub' = Tail(toHub)
  /\ LET p == Head(toHub) IN
       IF p.kind = "data"
       THEN /\ toGw' = IF p.ack THEN Post(toGw, Ack(p.node)) ELSE toGw
            /\ arrived' \in {arrived, [arrived EXCEPT ![p.node] = Append(@, p.id)]}
       ELSE UNCHANGED <<toGw, arrived>>
  /\ UNCHANGED <<nodeVars, rx, reqs, history>>
HubReceive ==
  /\ toHub # <<>>
  /\ toHub' = Tail(toHub)
  /\ LET p == Head(toHub) IN
       IF p.kind = "data"
       THEN /\ toGw' = IF p.ack THEN Post(toGw, Ack(p.node)) ELSE toGw
            /\ arrived' = [arrived EXCEPT ![p.node] = Append(@, p.id)]
       ELSE UNCHANGED <<toGw, arrived>>
  /\ UNCHANGED <<nodeVars, rx, reqs, history>>

\* The hub's Transmitter sends a request to a node.
HubRequest(n) ==
  /\ reqs < MaxReqs
  /\ reqs' = reqs + 1
  /\ toGw' = Post(toGw, Request(n))
  /\ UNCHANGED <<nodeVars, rx, toHub, arrived, history>>

-----------------------------------------------------------------------------
Poll(n) == PollData(n) \/ PollAck(n) \/ PollSend(n) \/ PollIdle(n)

Next ==
  \/ \E n \in Nodes : Tick(n) \/ Send(n) \/ Poll(n) \/ HubRequest(n)
  \/ GatewaySend \/ HubReceive \/ Lose

Spec == Init /\ [][Next]_vars

\* A sketch calls poll forever, the radio is not always busy when it does, and
\* time goes on.  So do the gateway and the hub.
Fairness ==
  /\ \A n \in Nodes : /\ WF_vars(Poll(n)) /\ WF_vars(Tick(n))
                       /\ SF_vars(PollSend(n)) /\ SF_vars(PollAck(n))
  /\ WF_vars(GatewaySend) /\ WF_vars(HubReceive)

FairSpec == Spec /\ Fairness
===============================================================================
