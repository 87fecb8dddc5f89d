-------------------------------- MODULE HubProps --------------------------------
(* What must hold of the hub's pipeline, command server and client library.      *)
EXTENDS HubCommands

Messages == 0 .. MaxWork
CallRecord == [conn : Conns, op : Ops, group : Groups, after : SUBSET (1 .. MaxCalls),
               result : {None, "ok", "error"}]

\* Every variable has the values the code gives it; no channel holds more than
\* its capacity, and the goroutine of a connection has the request it works on.
TypeOK ==
  /\ groupMap \in [Groups -> Addrs \cup {None}]
  /\ hand \in Messages /\ recv \in Seq(Messages) /\ Len(recv) <= RecvCap
  /\ mux \in [msg : Messages, next : DOMAIN Order]
  /\ \A p \in Procs : chan[p] \in Seq(Messages) /\ Len(chan[p]) <= ProcCap
  /\ busy \in [Procs -> Messages]
  /\ Len(xmit) <= XmitCap /\ Len(sent) <= Len(calls)
  /\ calls \in Seq(CallRecord)
  /\ Len(flow) = Len(calls) /\ Len(buf) = Len(calls)
  /\ \A i \in DOMAIN buf : buf[i] \in 0 .. PushCap
  /\ \A c \in Conns :
       /\ main[c] \in Seq(0 .. Len(calls))
       /\ server[c].pc = "none" <=> conn[c] = "none"
       /\ conn[c] = "open" => ping[c] \notin {"none", "ended"}
       /\ \A k \in DOMAIN main[c] : main[c][k] # 0 => calls[main[c][k]].conn = c

\* The log processor loses one line for each fault of the file at most, because
\* an error makes it open the file again; it never has two files open, and never
\* writes to another file than that of the day it checked.
LogLosesLittle ==
  /\ log.lost <= log.faults
  /\ log.open = IF log.fd = None THEN 0 ELSE 1
  /\ log.name \in {None, log.fd}

\* The calls whose message the Transmitter has taken or will take, in its order.
Executed == sent \o xmit

\* RFSend: a message is passed to the Transmitter at most once, and before the
\* call returns without an error; after those of the calls that had returned.
\* (A call that returns an error may be executed too.)
SendsExecuted ==
  LET at(i) == {k \in DOMAIN Executed : Executed[k].id = i} IN
  \A i \in DOMAIN calls :
    /\ Cardinality(at(i)) <= 1
    /\ calls[i].op = "send" /\ calls[i].result = "ok" => at(i) # {}
    /\ \A j \in calls[i].after :
         calls[j].result = "ok" => \A k \in at(i), l \in at(j) : l < k

\* A message goes to the address its group was last heard from, even if the
\* gateway came back with another one while the message was in xmitChan.
FollowsGateway ==
  [][sent' # sent => Last(sent').to = heard[Last(sent').group]]_vars

\* The channels and goroutines between the Receiver and the processors implement
\* HubBroadcast: what a crash can lose is in the Receiver's hands, in recv, in
\* the mux's hands, in a processor's channel, or being handled.
Broadcast == INSTANCE HubBroadcast WITH Window <- RecvCap + ProcCap + 3
ImplementsBroadcast == Broadcast!Spec

\* Every call returns, whatever becomes of the connection, and a message whose
\* RFSend returned without an error leaves xmitChan.
CallersReturn ==
  \A i \in 1 .. MaxCalls :
    i \in DOMAIN calls ~>
      /\ i \in DOMAIN calls /\ calls[i].result # None
      /\ calls[i].result = "ok" /\ calls[i].op = "send" =>
           \E k \in DOMAIN sent : sent[k].id = i

\* A link that is down is noticed on both sides: the hub's goroutine ends, the
\* pinger closes the connection, the channels of subscriptions are closed, and a
\* push does not go on sending.
DeadLinksEnd ==
  \A c \in Conns :
    (link[c] = "down" /\ conn[c] # "none") ~>
      /\ server[c].pc = "gone" /\ conn[c] = "closed" /\ ping[c] = "ended"
      /\ \A i \in DOMAIN calls :
           calls[i].conn = c =>
             /\ calls[i].op = "subscribe" => flow[i] \in {None, "end"}
             /\ calls[i].op = "push" /\ flow[i] # "end" => buf[i] = 0
=================================================================================
