------------------------------- MODULE HubPipeline -------------------------------
(***************************************************************************)
(* The way of the messages through the hub (hub/main.go, hub/udpgw.go):    *)
(* the Receiver turns datagrams into messages and puts them into a channel;*)
(* the mux hands each to the channels of all processors, one after the     *)
(* other, blocking on a full one; every processor is a goroutine.  In the  *)
(* other direction anyone puts messages into the xmit channel, and the     *)
(* Transmitter sends them to the gateway their RF group was last heard     *)
(* from.  Messages are numbered in the order the Receiver accepts them.    *)
(***************************************************************************)
EXTENDS Integers, Sequences, SequencesExt

CONSTANTS
  Groups, Addrs,   \* the RF groups, the UDP addresses of gateways
  RecvCap,         \* capacity of recv (10)
  ProcCap,         \* capacity of a processor's channel (10)
  XmitCap,         \* capacity of xmitChan (100)
  MaxWork,         \* bound on the datagrams and calls together
  MaxFaults,       \* bound on the faults of the log file
  None             \* no address, no file

ASSUME PipelineAssumption ==
  /\ RecvCap \in Nat \ {0} /\ ProcCap \in Nat \ {0} /\ XmitCap \in Nat \ {0}
  /\ MaxWork \in Nat /\ MaxFaults \in Nat
  /\ None \notin Addrs /\ None \notin Nat

VARIABLES
  groupMap,  \* the address each group was last heard from
  hand,      \* the message the Receiver is about to put into recv, or 0
  recv,      \* the channel of received messages
  mux,       \* the message the mux is handing out (0: none) and to whom next
  chan,      \* the channel of each processor
  busy,      \* the message each processor is handling, or 0
  handled,   \* history: what each processor has handled
  log,       \* the log file
  day,       \* the date
  xmit,      \* xmitChan
  sent,      \* history: what the Transmitter took, and where it sent it
  accepted,  \* history: the number of messages accepted
  heard,     \* history: where the last datagram of each group came from
  work       \* the datagrams and calls so far

inVars == <<hand, recv, mux, chan, busy, handled, log, day>>
outVars == <<xmit, sent>>
counts == <<accepted, heard, work>>
pipeVars == <<groupMap, inVars, outVars, counts>>

\* The processors in the order main registers them.
Order == <<"log", "db">>
Procs == {Order[i] : i \in DOMAIN Order}

PipeInit ==
  /\ groupMap = [g \in Groups |-> None]
  /\ hand = 0 /\ recv = <<>>
  /\ mux = [msg |-> 0, next |-> 1]
  /\ chan = [p \in Procs |-> <<>>]
  /\ busy = [p \in Procs |-> 0]
  /\ handled = [p \in Procs |-> <<>>]
  /\ log = [fd |-> None, good |-> TRUE, name |-> None, open |-> 0, lost |-> 0, faults |-> 0]
  /\ day = 1
  /\ xmit = <<>> /\ sent = <<>>
  /\ accepted = 0 /\ work = 0
  /\ heard = [g \in Groups |-> None]

-----------------------------------------------------------------------------
(* The Receiver.                                                           *)

\* The gateway of a group is where its last datagram came from.
BugSaved(g, a) == IF groupMap[g] = None THEN [groupMap EXCEPT ![g] = a] ELSE groupMap
Saved(g, a) == [groupMap EXCEPT ![g] = a]

\* A data packet or a log line of the gateway.  If it asks for an ACK, that
\* is sent here, before the message is safe in recv.
ReceiveMessage(g, a) ==
  /\ hand = 0 /\ work < MaxWork
  /\ groupMap' = Saved(g, a)
  /\ accepted' = accepted + 1
  /\ hand' = accepted + 1
  /\ work' = work + 1
  /\ heard' = [heard EXCEPT ![g] = a]
  /\ UNCHANGED <<recv, mux, chan, busy, handled, log, day, outVars>>

\* A boot request, or a packet with unknown flags: the boot server's answer
\* goes straight back, and no message comes of it.
ReceiveOther(g, a) ==
  /\ hand = 0
  /\ groupMap' = Saved(g, a)
  /\ heard' = [heard EXCEPT ![g] = a]
  /\ UNCHANGED <<inVars, outVars, accepted, work>>

PushRecv ==
  /\ hand # 0 /\ Len(recv) < RecvCap
  /\ recv' = Append(recv, hand)
  /\ hand' = 0
  /\ UNCHANGED <<groupMap, mux, chan, busy, handled, log, day, outVars, counts>>

-----------------------------------------------------------------------------
(* The mux and the processors.                                             *)

MuxTake ==
  /\ mux.msg = 0 /\ recv # <<>>
  /\ mux' = [msg |-> Head(recv), next |-> 1]
  /\ recv' = Tail(recv)
  /\ UNCHANGED <<groupMap, hand, chan, busy, handled, log, day, outVars, counts>>

\* The loop over the processors: a full channel stops it.
BugMuxPush ==
  /\ mux.msg # 0
  /\ LET p == Order[mux.next] IN
       chan' = IF Len(chan[p]) < ProcCap THEN [chan EXCEPT ![p] = Append(@, mux.msg)] ELSE chan
  /\ mux' = IF mux.next = Len(Order) THEN [msg |-> 0, next |-> 1]
            ELSE [mux EXCEPT !.next = @ + 1]
  /\ UNCHANGED <<groupMap, hand, recv, busy, handled, log, day, outVars, counts>>
MuxPush ==
  /\ mux.msg # 0
  /\ LET p == Order[mux.next] IN
       /\ Len(chan[p]) < ProcCap
       /\ chan' = [chan EXCEPT ![p] = Append(@, mux.msg)]
  /\ mux' = IF mux.next = Len(Order) THEN [msg |-> 0, next |-> 1]
            ELSE [mux EXCEPT !.next = @ + 1]
  /\ UNCHANGED <<groupMap, hand, recv, busy, handled, log, day, outVars, counts>>

Take(p) ==
  /\ busy[p] = 0 /\ chan[p] # <<>>
  /\ busy' = [busy EXCEPT ![p] = Head(chan[p])]
  /\ chan' = [chan EXCEPT ![p] = Tail(@)]
  /\ UNCHANGED <<groupMap, hand, recv, mux, handled, log, day, outVars, counts>>

Finish(p) ==
  /\ busy[p] # 0
  /\ handled' = [handled EXCEPT ![p] = Append(@, busy[p])]
  /\ busy' = [busy EXCEPT ![p] = 0]
  /\ UNCHANGED <<groupMap, hand, recv, mux, chan, day, outVars, counts>>

\* PutRFMessage stores and publishes the message, or fails and logs it.
DbFinish == Finish("db") /\ UNCHANGED log

\* The log file is opened when the date or an error asks for it ...
Open(l, ok) ==
  IF l.name = day THEN l
  ELSE [l EXCEPT !.open = @ - (IF l.fd = None THEN 0 ELSE 1) + (IF ok THEN 1 ELSE 0),
                 !.fd = IF ok THEN day ELSE None,
                 !.name = IF ok THEN day ELSE None,
                 !.good = TRUE,
                 !.faults = IF ok THEN @ ELSE @ + 1]

\* ... and a line that cannot be written makes the next one open it again.
BugWrite(l) ==
  IF l.fd # None /\ l.good THEN l ELSE [l EXCEPT !.lost = @ + 1]
Write(l) ==
  IF l.fd # None /\ l.good THEN l ELSE [l EXCEPT !.name = None, !.lost = @ + 1]

LogFinish ==
  /\ Finish("log")
  /\ \E ok \in BOOLEAN :
       /\ ok \/ (log.name # day /\ log.faults < MaxFaults)
       /\ log' = Write(Open(log, ok))

\* Writing to the open file fails from now on.
LogFault ==
  /\ log.fd # None /\ log.good /\ log.faults < MaxFaults
  /\ log' = [log EXCEPT !.good = FALSE, !.faults = @ + 1]
  /\ UNCHANGED <<groupMap, hand, recv, mux, chan, busy, handled, day, outVars, counts>>

\* The date changes (before the first line it would make no difference).
Midnight ==
  /\ day = 1 /\ log.fd # None
  /\ day' = 2
  /\ UNCHANGED <<groupMap, hand, recv, mux, chan, busy, handled, log, outVars, counts>>

-----------------------------------------------------------------------------
(* The Transmitter: a message for a group that was never heard from is     *)
(* dropped with a warning.                                                 *)

BugTransmit ==
  /\ xmit # <<>>
  /\ IF groupMap[Head(xmit).group] # None
     THEN /\ sent' = Append(sent, [id |-> Head(xmit).id, group |-> Head(xmit).group,
                                   to |-> groupMap[Head(xmit).group]])
          /\ xmit' = Tail(xmit)
     ELSE UNCHANGED <<xmit, sent>>
  /\ UNCHANGED <<groupMap, inVars, counts>>
Transmit ==
  /\ xmit # <<>>
  /\ sent' = Append(sent, [id |-> Head(xmit).id, group |-> Head(xmit).group,
                           to |-> groupMap[Head(xmit).group]])
  /\ xmit' = Tail(xmit)
  /\ UNCHANGED <<groupMap, inVars, counts>>

-----------------------------------------------------------------------------
Mux == MuxTake \/ MuxPush
LogProcessor == Take("log") \/ LogFinish
DbProcessor == Take("db") \/ DbFinish

PipeNext ==
  \/ \E g \in Groups, a \in Addrs : ReceiveMessage(g, a) \/ ReceiveOther(g, a)
  \/ PushRecv \/ Mux \/ LogProcessor \/ DbProcessor \/ Transmit
  \/ LogFault \/ Midnight

\* Every goroutine runs when it can.
PipeFairness ==
  /\ WF_pipeVars(PushRecv) /\ WF_pipeVars(Mux)
  /\ WF_pipeVars(LogProcessor) /\ WF_pipeVars(DbProcessor) /\ WF_pipeVars(Transmit)
=================================================================================
