------------------------------ MODULE NetService ------------------------------
(***************************************************************************)
(* What the transport of the nodes offers, without radio, ACK packets or   *)
(* timers: every node has a short queue.  Its first packet is tried up to  *)
(* RetryMax times (once if it wants no ACK), each try reaches the hub at   *)
(* most once and possibly late.  A packet leaves the queue when all its    *)
(* tries are used up, or earlier because the hub has got it.               *)
(***************************************************************************)
EXTENDS Integers, Sequences, SequencesExt, FiniteSets

CONSTANTS
  Nodes,     \* the nodes of one RF group
  NetPkt,    \* the length of a node's queue
  RetryMax,  \* the number of tries of a packet
  MaxPkts    \* bound on the packets a node sends

VARIABLES
  buf,       \* the queue of each node: packets with a number and whether to ACK
  nextId,    \* how many packets each node has accepted
  tries,     \* how often each packet was tried
  arrived    \* the packets of each node in the order the hub got them

vars == <<buf, nextId, tries, arrived>>

Init ==
  /\ buf = [n \in Nodes |-> <<>>]
  /\ nextId = [n \in Nodes |-> 0]
  /\ tries = [n \in Nodes |-> [i \in 1 .. MaxPkts |-> 0]]
  /\ arrived = [n \in Nodes |-> <<>>]

Got(n, i) == Cardinality({k \in 1 .. Len(arrived[n]) : arrived[n][k] = i})

Limit(p) == IF p.ack THEN RetryMax ELSE 1

\* A try of packet p at the head of the queue q; the last one removes it.
TryFirst(n, q) ==
  LET p == Head(q) IN
  /\ tries[n][p.id] < Limit(p)
  /\ tries' = [tries EXCEPT ![n][p.id] = @ + 1]
  /\ buf' = [buf EXCEPT ![n] = IF tries'[n][p.id] = Limit(p) THEN Tail(q) ELSE q]

\* A new packet; if it is alone it may be tried at once.
Accept(n) ==
  /\ Len(buf[n]) < NetPkt
  /\ nextId[n] < MaxPkts
  /\ nextId' = [nextId EXCEPT ![n] = @ + 1]
  /\ \E ack \in BOOLEAN :
       LET q == Append(buf[n], [id |-> nextId'[n], ack |-> ack]) IN
       \/ buf' = [buf EXCEPT ![n] = q] /\ UNCHANGED tries
       \/ buf[n] = <<>> /\ TryFirst(n, q)
  /\ UNCHANGED arrived

Try(n) ==
  /\ buf[n] # <<>>
  /\ TryFirst(n, buf[n])
  /\ UNCHANGED <<nextId, arrived>>

\* The hub has got the first packet: it leaves, and the next may be tried.
Confirm(n) ==
  /\ buf[n] # <<>>
  /\ Got(n, Head(buf[n]).id) > 0
  /\ \/ buf' = [buf EXCEPT ![n] = Tail(@)] /\ UNCHANGED tries
     \/ Tail(buf[n]) # <<>> /\ TryFirst(n, Tail(buf[n]))
  /\ UNCHANGED <<nextId, arrived>>

\* A try that was not lost reaches the hub.
Arrive(n, i) ==
  /\ Got(n, i) < tries[n][i]
  /\ arrived' = [arrived EXCEPT ![n] = Append(@, i)]
  /\ UNCHANGED <<buf, nextId, tries>>

Next ==
  \E n \in Nodes :
    Accept(n) \/ Try(n) \/ Confirm(n) \/ \E i \in 1 .. MaxPkts : Arrive(n, i)

Spec == Init /\ [][Next]_vars
===============================================================================
