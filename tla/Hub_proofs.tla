------------------------------- MODULE Hub_proofs -------------------------------
(* Proofs about the hub: first its pipeline, for any number of groups and gateways *)
(* and any capacity of the channels, then the command server and the client        *)
(* library on top of it, for any number of connections and calls and any failure   *)
(* of a link.                                                                      *)
EXTENDS HubProps, SequenceTheorems, FiniteSetTheorems, TLAPS

-----------------------------------------------------------------------------
(* The inductive invariants of the proofs.                                   *)

\* How many messages are in the hands of the processor p, of the mux for p, and
\* of the Receiver: none or one each.
InWork(p) == IF busy[p] = 0 THEN 0 ELSE 1
InMux(p) == IF mux.msg # 0 /\ (\E i \in mux.next .. Len(Order) : Order[i] = p) THEN 1 ELSE 0
InHand == IF hand = 0 THEN 0 ELSE 1

\* What processor p took, what the mux gave to it, and what the mux took.
Took(p) == Len(handled[p]) + InWork(p)
Given(p) == Took(p) + Len(chan[p])
Muxed(p) == Given(p) + InMux(p)

\* Between the Receiver and processor p, every message is in the place that its
\* number says: what p has handled, works on, has in its channel, what the mux is
\* going to give to it, what is in recv and in the Receiver's hands follow on one
\* another without a gap, and the last one is the last accepted.
InPlace(p) ==
  /\ \A i \in 1 .. Len(handled[p]) : handled[p][i] = i
  /\ busy[p] # 0 => busy[p] = Took(p)
  /\ Len(chan[p]) <= ProcCap
  /\ \A i \in 1 .. Len(chan[p]) : chan[p][i] = Took(p) + i
  /\ mux.msg # 0 => mux.msg = Muxed(p)
  /\ \A i \in 1 .. Len(recv) : recv[i] = Muxed(p) + i
  /\ hand # 0 => hand = Muxed(p) + Len(recv) + 1
  /\ accepted = Muxed(p) + Len(recv) + InHand

PlaceInv ==
  /\ hand \in Nat /\ accepted \in Nat
  /\ recv \in Seq(Nat) /\ Len(recv) <= RecvCap
  /\ mux \in [msg : Nat, next : DOMAIN Order]
  /\ chan \in [Procs -> Seq(Nat)] /\ busy \in [Procs -> Nat]
  /\ handled \in [Procs -> Seq(Nat)]
  /\ \A p \in Procs : InPlace(p)

\* The log file: what was lost was lost to a fault, except that an open file that
\* fails counts as a fault of its own already.
LogInv ==
  /\ log \in [fd : {None} \cup Nat, good : BOOLEAN, name : {None} \cup Nat, open : Nat,
              lost : Nat, faults : Nat]
  /\ day \in Nat
  /\ LogLosesLittle
  /\ log.fd # None /\ ~log.good /\ log.name # None => log.lost < log.faults

AnyCall == [conn : Conns, op : Ops, group : Groups, after : SUBSET Nat,
            result : {None, "ok", "error"}]

\* The types of the command server and the client library.
CommandInv ==
  /\ conn \in [Conns -> {"none", "dial", "open", "closing", "closed"}]
  /\ link \in [Conns -> {"up", "eof", "down"}]
  /\ main \in [Conns -> Seq(Nat)]
  /\ server \in [Conns -> [pc : {"none", "recv", "handle", "reply", "gone"}, req : Nat]]
  /\ ping \in [Conns -> {"none", "wait", "idle", "ended"}]
  /\ calls \in Seq(AnyCall)
  /\ flow \in Seq({None, "on", "hold", "closing", "end"}) /\ Len(flow) = Len(calls)
  /\ buf \in Seq(0 .. PushCap) /\ Len(buf) = Len(calls)
  /\ \A c \in Conns :
       /\ server[c].pc = "none" <=> conn[c] = "none"
       /\ conn[c] = "open" => ping[c] \notin {"none", "ended"}

\* The bound on the work is one on the messages and the calls.
WorkInv ==
  /\ work \in 0 .. MaxWork /\ accepted + Len(calls) <= work
  /\ (\E c \in Conns : conn[c] # "none") => DialCost + Len(calls) <= work
  /\ calls # <<>> => DialCost + Len(calls) <= work

\* The message of call i was passed to the Transmitter.
Passed(i) == \E k \in DOMAIN Executed : Executed[k].id = i

\* Call i was made on connection c, and has no result as long as the link is up.
Unanswered(c, i) ==
  /\ i \in DOMAIN calls /\ calls[i].conn = c
  /\ link[c] # "down" => calls[i].result = None

\* A request is in one place only: on its way, being handled, or being answered;
\* and HandleRFSendRequest is what passes its message on.
RequestOK(c, i) ==
  /\ (\E k \in DOMAIN main[c] : main[c][k] = i) =>
       /\ Unanswered(c, i) /\ ~Passed(i) /\ server[c].req # i
       /\ \A k, l \in DOMAIN main[c] : main[c][k] = i /\ main[c][l] = i => k = l
  /\ server[c].req = i =>
       /\ server[c].pc \in {"handle", "reply"} /\ Unanswered(c, i)
       /\ server[c].pc = "handle" => ~Passed(i)
       /\ server[c].pc = "reply" /\ calls[i].op = "send" => Passed(i)

RequestsOf(c) ==
  /\ \A k \in DOMAIN main[c] : main[c][k] \in DOMAIN calls \cup {0}
  /\ server[c].req \in DOMAIN calls \cup {0}
  /\ server[c].pc \in {"none", "recv", "gone"} => server[c].req = 0
  /\ \A i \in DOMAIN calls : RequestOK(c, i)

RequestInv == \A c \in Conns : RequestsOf(c)

\* What was passed to the Transmitter are the messages of calls of RFSend, each
\* once, those that returned among them, and those of a call after all that had
\* returned before it.
PassedInv ==
  /\ xmit \in Seq([id : Nat, group : Groups]) /\ Len(xmit) <= XmitCap
  /\ sent \in Seq([id : Nat, group : Groups, to : Addrs \cup {None}])
  /\ \A k \in DOMAIN Executed :
       /\ Executed[k].id \in DOMAIN calls /\ calls[Executed[k].id].op = "send"
       /\ \A l \in DOMAIN Executed : Executed[l].id = Executed[k].id => l = k
  /\ \A i \in DOMAIN calls :
       /\ calls[i].op = "send" /\ calls[i].result = "ok" => Passed(i)
       /\ \A j \in calls[i].after :
            /\ j \in DOMAIN calls /\ calls[j].result # None
            /\ calls[j].result = "ok" =>
                 \A k, l \in DOMAIN Executed :
                   Executed[k].id = i /\ Executed[l].id = j => l < k

GatewayInv ==
  /\ groupMap \in [Groups -> Addrs \cup {None}]
  /\ heard = groupMap

HubInv ==
  PlaceInv /\ LogInv /\ CommandInv /\ WorkInv /\ RequestInv /\ PassedInv /\ GatewayInv

-----------------------------------------------------------------------------
(* The pipeline.                                                           *)

\* The two processors main registers, in their order.
LEMMA TheProcs ==
  /\ DOMAIN Order = 1 .. 2 /\ Len(Order) = 2
  /\ Order[1] = "log" /\ Order[2] = "db" /\ Procs = {"log", "db"}
<1>1. DOMAIN Order = 1 .. 2 /\ Len(Order) = 2 /\ Order[1] = "log" /\ Order[2] = "db"
  BY DEF Order
<1>2. Procs = {"log", "db"}
  <2>1. 1 \in DOMAIN Order /\ 2 \in DOMAIN Order
    BY <1>1
  <2>2. \A i \in DOMAIN Order : i = 1 \/ i = 2
    BY <1>1
  <2>3. QED
    BY <1>1, <2>1, <2>2 DEF Procs
<1>3. QED
  BY <1>1, <1>2

\* The command server and the client library put messages into xmitChan and take
\* from the work of the model, and leave the rest of the pipeline alone.
LEMMA CommandsLeavePipeline ==
  CmdNext => UNCHANGED <<groupMap, inVars, sent, accepted, heard>>
<1>1. ASSUME NEW c \in Conns, Dial(c) \/ Close(c) \/ CloseConn(c) \/ Break(c) \/ Pinger(c)
      PROVE  UNCHANGED <<groupMap, inVars, sent, accepted, heard>>
  BY <1>1 DEF Dial, Close, CloseConn, Break, Pinger, PingSend, PingFail, pipeVars, outVars, counts
<1>2. ASSUME NEW c \in Conns, Server(c)
      PROVE  UNCHANGED <<groupMap, inVars, sent, accepted, heard>>
  BY <1>2 DEF Server, ServerReceive, ServerEnd, HandleSend, HandleOther, SendReply, LoseReply,
              pipeVars, outVars, counts
<1>3. ASSUME NEW c \in Conns, NEW op \in Ops, NEW g \in Groups, Call(c, op, g)
      PROVE  UNCHANGED <<groupMap, inVars, sent, accepted, heard>>
  BY <1>3 DEF Call, pipeVars, outVars, counts
<1>4. ASSUME NEW i \in DOMAIN calls, Fail(i) \/ Flow(i) \/ PushPut(i) \/ PushClose(i)
      PROVE  UNCHANGED <<groupMap, inVars, sent, accepted, heard>>
  BY <1>4 DEF Fail, Flow, StreamRecv, StreamTake, PushSend, PushPut, PushClose,
              pipeVars, outVars, counts
<1>5. QED
  BY <1>1, <1>2, <1>3, <1>4 DEF CmdNext

-----------------------------------------------------------------------------
(* The log file.                                                             *)

LogRecord == [fd : {None} \cup Nat, good : BOOLEAN, name : {None} \cup Nat, open : Nat,
              lost : Nat, faults : Nat]

\* The fields of the log file.
LEMMA LogFields ==
  ASSUME NEW l \in LogRecord
  PROVE  /\ l.fd \in {None} \cup Nat /\ l.good \in BOOLEAN /\ l.name \in {None} \cup Nat
         /\ l.open \in Nat /\ l.lost \in Nat /\ l.faults \in Nat
         /\ l = [fd |-> l.fd, good |-> l.good, name |-> l.name, open |-> l.open,
                 lost |-> l.lost, faults |-> l.faults]
  BY DEF LogRecord

\* Opening the file: an old one is closed; if there is a file it can be written.
LEMMA OpenProperties ==
  ASSUME LogInv, NEW ok \in BOOLEAN
  PROVE  LET l == Open(log, ok) IN
         /\ l \in LogRecord
         /\ l.lost <= l.faults
         /\ l.open = IF l.fd = None THEN 0 ELSE 1
         /\ l.name \in {None, l.fd}
         /\ l.fd = None \/ ~l.good => l.lost < l.faults
<1> DEFINE fd == IF ok THEN day ELSE None
<1>1. /\ log \in LogRecord
      /\ day \in Nat /\ log.lost <= log.faults
      /\ log.open = IF log.fd = None THEN 0 ELSE 1
      /\ log.name \in {None, log.fd}
      /\ log.fd # None /\ ~log.good /\ log.name # None => log.lost < log.faults
      /\ None \notin Nat
  BY PipelineAssumption DEF LogInv, LogLosesLittle, LogRecord
<1>1a. log.lost \in Nat /\ log.faults \in Nat /\ log.open \in Nat
  BY <1>1, LogFields
<1>2. CASE log.name = day
  <2>1. Open(log, ok) = log /\ log.fd = day /\ log.fd # None /\ log.name # None
    BY <1>1, <1>2 DEF Open
  <2>2. QED
    BY <1>1, <2>1
<1>3. CASE log.name # day
  <2> DEFINE l == Open(log, ok)
  <2>0. l = [log EXCEPT !.open = @ - (IF log.fd = None THEN 0 ELSE 1) + (IF ok THEN 1 ELSE 0),
                        !.fd = fd, !.name = fd, !.good = TRUE,
                        !.faults = IF ok THEN @ ELSE @ + 1]
    BY <1>3 DEF Open
  <2>1. l = [fd |-> fd, good |-> TRUE, name |-> fd,
             open |-> log.open - (IF log.fd = None THEN 0 ELSE 1) + (IF ok THEN 1 ELSE 0),
             lost |-> log.lost, faults |-> IF ok THEN log.faults ELSE log.faults + 1]
    <3> HIDE DEF fd, l
    <3>1. QED
      BY <1>1, <2>0 DEF LogRecord
  <2>2. log.open - (IF log.fd = None THEN 0 ELSE 1) = 0
    BY <1>1
  <2>3. l.open = IF ok THEN 1 ELSE 0
    BY <2>1, <2>2
  <2>4. fd \in {None} \cup Nat /\ (fd = None <=> ~ok)
    BY <1>1
  <2>5. l.lost \in Nat /\ l.faults \in Nat /\ l.open \in Nat /\ l.good \in BOOLEAN
    BY <1>1a, <2>1, <2>3
  <2>6. l \in LogRecord
    BY ONLY <2>1, <2>4, <2>5 DEF LogRecord
  <2>7. /\ l.lost <= l.faults /\ l.name \in {None, l.fd}
        /\ l.fd = None \/ ~l.good => l.lost < l.faults
        /\ l.open = IF l.fd = None THEN 0 ELSE 1
    BY <1>1, <1>1a, <2>1, <2>3, <2>4
  <2>8. QED
    BY <2>6, <2>7
<1>4. QED
  BY <1>2, <1>3

\* A line is written, or lost to the fault that is counted already.
LEMMA LogFinishStep ==
  ASSUME LogInv, LogFinish
  PROVE  LogInv'
<1>1. PICK ok \in BOOLEAN : log' = Write(Open(log, ok))
  BY DEF LogFinish
<1> DEFINE l == Open(log, ok)
<1>2. /\ l \in LogRecord
      /\ l.lost <= l.faults
      /\ l.open = IF l.fd = None THEN 0 ELSE 1
      /\ l.name \in {None, l.fd}
      /\ l.fd = None \/ ~l.good => l.lost < l.faults
  BY OpenProperties
<1>3. day' = day /\ day \in Nat /\ log' = Write(l)
  BY <1>1 DEF LogFinish, Finish, LogInv
<1> HIDE DEF l
<1>4. CASE l.fd # None /\ l.good
  <2>1. log' = l
    BY <1>3, <1>4 DEF Write
  <2>2. QED
    BY <1>2, <1>3, <1>4, <2>1 DEF LogInv, LogLosesLittle, LogRecord
<1>5. CASE ~(l.fd # None /\ l.good)
  <2>1. log' = [l EXCEPT !.name = None, !.lost = @ + 1]
    BY <1>3, <1>5 DEF Write
  <2>2. /\ log'.fd = l.fd /\ log'.good = l.good /\ log'.name = None /\ log'.open = l.open
        /\ log'.lost = l.lost + 1 /\ log'.faults = l.faults
        /\ log' \in LogRecord
    <3>1. l.lost \in Nat /\ l.faults \in Nat
      BY <1>2, LogFields
    <3>2. log' = [fd |-> l.fd, good |-> l.good, name |-> None, open |-> l.open,
                  lost |-> l.lost + 1, faults |-> l.faults]
      BY <1>2, <2>1 DEF LogRecord
    <3>3. QED
      BY <1>2, <3>1, <3>2, LogFields DEF LogRecord
  <2>3. log'.lost <= log'.faults
    <3>1. l.lost \in Nat /\ l.faults \in Nat /\ l.lost < l.faults
      BY <1>2, <1>5, LogFields
    <3>2. QED
      BY <2>2, <3>1
  <2>4. QED
    BY <1>2, <1>3, <2>2, <2>3 DEF LogInv, LogLosesLittle, LogRecord
<1>6. QED
  BY <1>4, <1>5

\* Everything else but a fault leaves the file alone.
LEMMA LogStep ==
  ASSUME LogInv, [Next]_vars
  PROVE  LogInv'
<1>1. CASE LogFinish
  BY <1>1, LogFinishStep
<1>2. CASE LogFault
  <2>1. /\ log.fd # None /\ log' = [log EXCEPT !.good = FALSE, !.faults = @ + 1] /\ day' = day
    BY <1>2 DEF LogFault
  <2>2. log \in LogRecord
    BY DEF LogInv, LogRecord
  <2>3. /\ log'.fd = log.fd /\ log'.name = log.name /\ log'.open = log.open
        /\ log'.lost = log.lost /\ log'.faults = log.faults + 1
        /\ log' \in LogRecord
    <3>1. log.lost \in Nat /\ log.faults \in Nat
      BY <2>2, LogFields
    <3>2. log' = [fd |-> log.fd, good |-> FALSE, name |-> log.name, open |-> log.open,
                  lost |-> log.lost, faults |-> log.faults + 1]
      BY <2>1, <2>2 DEF LogRecord
    <3>3. QED
      BY <2>2, <3>1, <3>2, LogFields DEF LogRecord
  <2>4. QED
    BY <2>1, <2>2, <2>3 DEF LogInv, LogLosesLittle, LogRecord
<1>3. CASE Midnight
  BY <1>3 DEF Midnight, LogInv, LogLosesLittle
<1>4. CASE UNCHANGED <<log, day>>
  BY <1>4 DEF LogInv, LogLosesLittle, LogRecord
<1>5. ASSUME NEW g \in Groups, NEW a \in Addrs, ReceiveMessage(g, a) \/ ReceiveOther(g, a)
      PROVE  UNCHANGED <<log, day>>
  BY <1>5 DEF ReceiveMessage, ReceiveOther, inVars
<1>6. ASSUME PushRecv \/ Mux \/ DbProcessor \/ Take("log") \/ Transmit
      PROVE  UNCHANGED <<log, day>>
  BY <1>6 DEF PushRecv, Mux, MuxTake, MuxPush, DbProcessor, Take, DbFinish, Finish, Transmit, inVars
<1>7. ASSUME CmdNext PROVE UNCHANGED <<log, day>>
  BY <1>7, CommandsLeavePipeline DEF inVars
<1>8. ASSUME UNCHANGED vars PROVE UNCHANGED <<log, day>>
  BY <1>8 DEF vars, pipeVars, inVars
<1>9. QED
  BY <1>1, <1>2, <1>3, <1>4, <1>5, <1>6, <1>7, <1>8 DEF Next, PipeNext, LogProcessor

\* The log processor loses at most one line for each fault of the file, and has
\* one file open at most, for any sequence of faults and dates.
THEOREM LogIsSafe == Spec => []LogLosesLittle
<1>1. Init => LogInv
  BY PipelineAssumption DEF Init, PipeInit, LogInv, LogLosesLittle
<1>2. LogInv => LogLosesLittle
  BY DEF LogInv
<1>3. QED
  BY <1>1, <1>2, LogStep, PTL DEF Spec

-----------------------------------------------------------------------------
(* Every message is in its place.                                            *)

placeVars == <<hand, recv, mux, chan, busy, handled, accepted>>

LEMMA PlaceUnchanged ==
  ASSUME PlaceInv, UNCHANGED placeVars
  PROVE  PlaceInv'
<1>1. ASSUME NEW p \in Procs PROVE InPlace(p)'
  <2>1. InPlace(p)
    BY DEF PlaceInv
  <2>2. /\ InWork(p)' = InWork(p) /\ InMux(p)' = InMux(p) /\ InHand' = InHand
        /\ Took(p)' = Took(p) /\ Given(p)' = Given(p) /\ Muxed(p)' = Muxed(p)
    BY DEF InWork, InMux, InHand, Took, Given, Muxed, placeVars
  <2>3. QED
    BY <2>1, <2>2 DEF InPlace, placeVars
<1>2. QED
  BY <1>1 DEF PlaceInv, placeVars

\* The counts between the Receiver and a processor.
LEMMA Counts ==
  ASSUME PlaceInv, NEW p \in Procs
  PROVE  /\ InWork(p) \in 0 .. 1 /\ InMux(p) \in 0 .. 1 /\ InHand \in 0 .. 1
         /\ Len(handled[p]) \in Nat /\ Len(chan[p]) \in Nat /\ Len(recv) \in Nat
         /\ Took(p) \in Nat /\ Given(p) \in Nat /\ Muxed(p) \in Nat
         /\ handled[p] \in Seq(Nat) /\ chan[p] \in Seq(Nat) /\ recv \in Seq(Nat)
         /\ hand \in Nat /\ accepted \in Nat
<1>1. handled[p] \in Seq(Nat) /\ chan[p] \in Seq(Nat) /\ recv \in Seq(Nat)
  BY DEF PlaceInv
<1>2. Len(handled[p]) \in Nat /\ Len(chan[p]) \in Nat /\ Len(recv) \in Nat
  BY <1>1
<1>3. InWork(p) \in 0 .. 1 /\ InMux(p) \in 0 .. 1 /\ InHand \in 0 .. 1
  BY DEF InWork, InMux, InHand
<1>4. QED
  BY <1>1, <1>2, <1>3 DEF Took, Given, Muxed, PlaceInv

\* For whom the mux has its message still: for all, or for the second processor.
LEMMA MuxCounts ==
  ASSUME NEW m \in [msg : Nat, next : DOMAIN Order], NEW p \in Procs
  PROVE  (\E i \in m.next .. Len(Order) : Order[i] = p) <=> (p = "db" \/ m.next = 1)
<1>1. m.next \in {1, 2}
  BY TheProcs
<1>2. CASE p = "db"
  BY <1>1, <1>2, TheProcs
<1>3. CASE p = "log"
  <2>1. \A i \in m.next .. 2 : i = 1 => m.next = 1
    BY <1>1
  <2>2. \A i \in m.next .. 2 : i = 1 \/ i = 2
    BY <1>1
  <2>3. m.next = 1 => 1 \in m.next .. 2
    BY <1>1
  <2>4. QED
    BY <1>3, <2>1, <2>2, <2>3, TheProcs
<1>4. QED
  BY <1>2, <1>3, TheProcs

\* The Receiver accepts a message.
LEMMA PlaceReceive ==
  ASSUME PlaceInv, hand = 0, hand' = accepted + 1, accepted' = accepted + 1,
         UNCHANGED <<recv, mux, chan, busy, handled>>
  PROVE  PlaceInv'
<1>1. hand' \in Nat /\ accepted' \in Nat /\ hand' # 0
  BY DEF PlaceInv
<1>2. ASSUME NEW p \in Procs PROVE InPlace(p)'
  <2>1. /\ InWork(p)' = InWork(p) /\ InMux(p)' = InMux(p) /\ InHand' = 1 /\ InHand = 0
        /\ Took(p)' = Took(p) /\ Given(p)' = Given(p) /\ Muxed(p)' = Muxed(p)
    BY <1>1 DEF InWork, InMux, InHand, Took, Given, Muxed
  <2>2. InPlace(p)
    BY DEF PlaceInv
  <2>3. accepted = Muxed(p) + Len(recv) /\ Muxed(p) \in Nat /\ Len(recv) \in Nat
    BY <2>1, <2>2, Counts DEF InPlace
  <2>4. QED
    BY <2>1, <2>2, <2>3 DEF InPlace
<1>3. QED
  BY <1>1, <1>2 DEF PlaceInv

\* It puts the message into recv, behind those that are there.
LEMMA PlacePush ==
  ASSUME PlaceInv, PushRecv
  PROVE  PlaceInv'
<1>1. /\ hand # 0 /\ hand' = 0 /\ recv' = Append(recv, hand) /\ Len(recv) < RecvCap
      /\ UNCHANGED <<mux, chan, busy, handled, accepted>>
  BY DEF PushRecv, counts
<1>2. /\ recv' \in Seq(Nat) /\ Len(recv') = Len(recv) + 1 /\ recv'[Len(recv) + 1] = hand
      /\ \A i \in 1 .. Len(recv) : recv'[i] = recv[i]
      /\ recv \in Seq(Nat) /\ Len(recv) \in Nat
  BY <1>1 DEF PlaceInv
<1>3. Len(recv') <= RecvCap
  BY <1>1, <1>2, PipelineAssumption
<1>4. ASSUME NEW p \in Procs PROVE InPlace(p)'
  <2>1. /\ InWork(p)' = InWork(p) /\ InMux(p)' = InMux(p) /\ InHand' = 0 /\ InHand = 1
        /\ Took(p)' = Took(p) /\ Given(p)' = Given(p) /\ Muxed(p)' = Muxed(p)
    BY <1>1 DEF InWork, InMux, InHand, Took, Given, Muxed
  <2>2. InPlace(p) /\ Muxed(p) \in Nat
    BY Counts DEF PlaceInv
  <2>3. \A i \in 1 .. Len(recv') : recv'[i] = Muxed(p) + i
    <3>1. TAKE i \in 1 .. Len(recv')
    <3>2. CASE i = Len(recv) + 1
      BY <1>1, <1>2, <2>2, <3>2 DEF InPlace
    <3>3. CASE i \in 1 .. Len(recv)
      BY <1>2, <2>2, <3>3 DEF InPlace
    <3>4. QED
      BY <1>2, <3>2, <3>3
  <2>4. accepted' = Muxed(p)' + Len(recv') + InHand'
    BY <1>1, <1>2, <2>1, <2>2 DEF InPlace
  <2>5. QED
    BY <1>1, <2>1, <2>2, <2>3, <2>4 DEF InPlace
<1>5. hand' \in Nat
  BY <1>1
<1>6. QED
  BY <1>1, <1>2, <1>3, <1>4, <1>5 DEF PlaceInv

\* The mux takes the first message of recv, for all processors.
LEMMA PlaceMuxTake ==
  ASSUME PlaceInv, MuxTake
  PROVE  PlaceInv'
<1>1. /\ mux.msg = 0 /\ recv # <<>> /\ mux' = [msg |-> Head(recv), next |-> 1]
      /\ recv' = Tail(recv) /\ UNCHANGED <<hand, chan, busy, handled, accepted>>
  BY DEF MuxTake, counts
<1>2. /\ recv \in Seq(Nat) /\ recv' \in Seq(Nat) /\ Len(recv) \in Nat \ {0}
      /\ Len(recv') = Len(recv) - 1 /\ Head(recv) = recv[1] /\ recv[1] \in Nat
      /\ \A i \in 1 .. Len(recv) - 1 : recv'[i] = recv[i + 1]
  <2>1. recv \in Seq(Nat) /\ recv # <<>>
    BY <1>1 DEF PlaceInv
  <2>2. QED
    BY <1>1, <2>1, HeadTailProperties
<1>3. Len(recv') <= RecvCap
  BY <1>2, PipelineAssumption DEF PlaceInv
<1>4. mux' \in [msg : Nat, next : DOMAIN Order] /\ mux'.msg = recv[1] /\ mux'.next = 1
  BY <1>1, <1>2, TheProcs
<1>5. ASSUME NEW p \in Procs PROVE InPlace(p)'
  <2>1. InPlace(p) /\ Muxed(p) \in Nat /\ Given(p) \in Nat
    BY Counts DEF PlaceInv
  <2>2. recv[1] = Muxed(p) + 1 /\ recv[1] # 0
    <3>1. 1 \in 1 .. Len(recv)
      BY <1>2
    <3>2. \A i \in 1 .. Len(recv) : recv[i] = Muxed(p) + i
      BY <2>1 DEF InPlace
    <3>3. recv[1] = Muxed(p) + 1
      BY <3>1, <3>2
    <3>4. QED
      BY <2>1, <3>3
  <2>3. InMux(p) = 0 /\ InMux(p)' = 1
    <3>1. InMux(p)' = IF mux'.msg # 0 /\ (p = "db" \/ mux'.next = 1) THEN 1 ELSE 0
      BY <1>4, MuxCounts DEF InMux
    <3>2. InMux(p) = 0
      BY <1>1 DEF InMux
    <3>3. QED
      BY <1>4, <2>2, <3>1, <3>2
  <2>4. /\ InWork(p)' = InWork(p) /\ InHand' = InHand
        /\ Took(p)' = Took(p) /\ Given(p)' = Given(p) /\ Muxed(p)' = Muxed(p) + 1
    BY <1>1, <2>1, <2>3 DEF InWork, InHand, Took, Given, Muxed
  <2>5. \A i \in 1 .. Len(recv') : recv'[i] = Muxed(p)' + i
    <3>1. TAKE i \in 1 .. Len(recv')
    <3>2. i \in 1 .. Len(recv) - 1 /\ i + 1 \in 1 .. Len(recv)
      BY <1>2
    <3>3. recv[i + 1] = Muxed(p) + (i + 1)
      BY <2>1, <3>2 DEF InPlace
    <3>4. QED
      BY <1>2, <2>1, <2>4, <3>2, <3>3
  <2>6. accepted' = Muxed(p)' + Len(recv') + InHand'
    BY <1>1, <1>2, <2>1, <2>4, Counts DEF InPlace
  <2>7. hand' # 0 => hand' = Muxed(p)' + Len(recv') + 1
    BY <1>1, <1>2, <2>1, <2>4 DEF InPlace
  <2>8. QED
    BY <1>1, <1>4, <2>1, <2>2, <2>4, <2>5, <2>6, <2>7 DEF InPlace
<1>6. QED
  BY <1>1, <1>2, <1>3, <1>4, <1>5 DEF PlaceInv
\* The mux gives its message to a processor, behind those in its channel.
LEMMA PlaceMuxPush ==
  ASSUME PlaceInv, MuxPush
  PROVE  PlaceInv'
<1> DEFINE q == Order[mux.next]
<1>1. /\ mux.msg # 0 /\ Len(chan[q]) < ProcCap
      /\ chan' = [chan EXCEPT ![q] = Append(@, mux.msg)]
      /\ mux' = IF mux.next = 2 THEN [msg |-> 0, next |-> 1] ELSE [mux EXCEPT !.next = @ + 1]
      /\ UNCHANGED <<hand, recv, busy, handled, accepted>>
  BY TheProcs DEF MuxPush, counts
<1>2. mux \in [msg : Nat, next : DOMAIN Order] /\ mux.next \in {1, 2} /\ mux.msg \in Nat
  BY TheProcs DEF PlaceInv
<1>3. q \in Procs /\ (mux.next = 1 => q = "log") /\ (mux.next = 2 => q = "db")
  BY <1>2, TheProcs
<1>4. /\ mux' \in [msg : Nat, next : DOMAIN Order]
      /\ mux.next = 2 => mux'.msg = 0
      /\ mux.next = 1 => mux'.msg = mux.msg /\ mux'.next = 2
  <2>1. CASE mux.next = 1
    <3>1. mux' = [mux EXCEPT !.next = 2]
      BY <1>1, <1>2, <2>1
    <3>2. QED
      BY <1>2, <2>1, <3>1, TheProcs
  <2>2. CASE mux.next = 2
    BY <1>1, <2>2, TheProcs
  <2>3. QED
    BY <1>2, <2>1, <2>2
<1> HIDE DEF q
<1>5. chan[q] \in Seq(Nat) /\ Len(chan[q]) \in Nat
  BY <1>3, Counts
<1>6. /\ chan'[q] = Append(chan[q], mux.msg) /\ chan'[q] \in Seq(Nat)
      /\ Len(chan'[q]) = Len(chan[q]) + 1 /\ chan'[q][Len(chan[q]) + 1] = mux.msg
      /\ \A i \in 1 .. Len(chan[q]) : chan'[q][i] = chan[q][i]
      /\ \A p \in Procs : p # q => chan'[p] = chan[p]
  <2>1. chan \in [Procs -> Seq(Nat)]
    BY DEF PlaceInv
  <2>2. chan'[q] = Append(chan[q], mux.msg) /\ \A p \in Procs : p # q => chan'[p] = chan[p]
    BY <1>1, <1>3, <2>1
  <2>3. QED
    BY <1>2, <1>5, <2>2
<1>7. chan' \in [Procs -> Seq(Nat)]
  BY <1>1, <1>3, <1>6 DEF PlaceInv
<1>8. ASSUME NEW p \in Procs PROVE InPlace(p)'
  <2>1. InPlace(p) /\ Muxed(p) \in Nat /\ Given(p) \in Nat /\ Took(p) \in Nat
    BY Counts DEF PlaceInv
  <2>2. InWork(p)' = InWork(p) /\ InHand' = InHand /\ Took(p)' = Took(p)
    BY <1>1 DEF InWork, InHand, Took
  <2>3. /\ InMux(p) = IF mux.msg # 0 /\ (p = "db" \/ mux.next = 1) THEN 1 ELSE 0
        /\ InMux(p)' = IF mux'.msg # 0 /\ (p = "db" \/ mux'.next = 1) THEN 1 ELSE 0
    BY <1>2, <1>4, MuxCounts DEF InMux
  <2>4. CASE p = q
    <3>1. InMux(p) = 1 /\ InMux(p)' = 0
      BY <1>1, <1>2, <1>3, <1>4, <2>3, <2>4
    <3>2. Given(p)' = Given(p) + 1 /\ Muxed(p)' = Muxed(p)
      BY <1>5, <1>6, <2>1, <2>2, <2>4, <3>1 DEF Given, Muxed
    <3>3. mux.msg = Took(p) + Len(chan[p]) + 1
      BY <1>1, <2>1, <3>1 DEF InPlace, Muxed, Given
    <3>4. \A i \in 1 .. Len(chan'[p]) : chan'[p][i] = Took(p) + i
      <4>1. TAKE i \in 1 .. Len(chan'[p])
      <4>2. CASE i = Len(chan[p]) + 1
        BY <1>5, <1>6, <2>1, <2>4, <3>3, <4>2
      <4>3. CASE i \in 1 .. Len(chan[p])
        BY <1>6, <2>1, <2>4, <4>3 DEF InPlace
      <4>4. QED
        BY <1>5, <1>6, <2>4, <4>2, <4>3
    <3>5. Len(chan'[p]) <= ProcCap
      BY <1>1, <1>5, <1>6, <2>4, PipelineAssumption
    <3>6. mux'.msg # 0 => mux'.msg = Muxed(p)'
      BY <1>1, <1>2, <1>4, <2>1, <3>2 DEF InPlace
    <3>7. QED
      BY <1>1, <2>1, <2>2, <3>2, <3>4, <3>5, <3>6 DEF InPlace
  <2>5. CASE p # q
    <3>1. InMux(p)' = InMux(p)
      BY <1>1, <1>2, <1>3, <1>4, <2>3, <2>5, TheProcs
    <3>2. chan'[p] = chan[p] /\ Given(p)' = Given(p) /\ Muxed(p)' = Muxed(p)
      BY <1>6, <2>2, <2>5, <3>1 DEF Given, Muxed
    <3>3. mux'.msg # 0 => mux'.msg = Muxed(p)'
      BY <1>1, <1>2, <1>4, <2>1, <3>2 DEF InPlace
    <3>4. QED
      BY <1>1, <2>1, <2>2, <3>2, <3>3 DEF InPlace
  <2>6. QED
    BY <2>4, <2>5
<1>9. QED
  BY <1>1, <1>4, <1>7, <1>8 DEF PlaceInv

\* A processor takes the first message of its channel.
LEMMA PlaceTake ==
  ASSUME PlaceInv, NEW q \in Procs, Take(q)
  PROVE  PlaceInv'
<1>1. /\ busy[q] = 0 /\ chan[q] # <<>>
      /\ busy' = [busy EXCEPT ![q] = Head(chan[q])] /\ chan' = [chan EXCEPT ![q] = Tail(@)]
      /\ UNCHANGED <<hand, recv, mux, handled, accepted>>
  BY DEF Take, counts
<1>2. chan \in [Procs -> Seq(Nat)] /\ busy \in [Procs -> Nat] /\ chan[q] \in Seq(Nat)
  BY DEF PlaceInv
<1>3. /\ chan'[q] = Tail(chan[q]) /\ chan'[q] \in Seq(Nat) /\ Len(chan[q]) \in Nat \ {0}
      /\ Len(chan'[q]) = Len(chan[q]) - 1 /\ Head(chan[q]) = chan[q][1] /\ chan[q][1] \in Nat
      /\ \A i \in 1 .. Len(chan[q]) - 1 : chan'[q][i] = chan[q][i + 1]
  <2>1. chan'[q] = Tail(chan[q])
    BY <1>1, <1>2
  <2>2. QED
    BY <1>1, <1>2, <2>1, HeadTailProperties
<1>4. /\ busy'[q] = chan[q][1]
      /\ \A p \in Procs : p # q => chan'[p] = chan[p] /\ busy'[p] = busy[p]
      /\ chan' \in [Procs -> Seq(Nat)] /\ busy' \in [Procs -> Nat]
  BY <1>1, <1>2, <1>3
<1>5. ASSUME NEW p \in Procs PROVE InPlace(p)'
  <2>1. InPlace(p) /\ Muxed(p) \in Nat /\ Given(p) \in Nat /\ Took(p) \in Nat
    BY Counts DEF PlaceInv
  <2>2. InHand' = InHand /\ InMux(p)' = InMux(p)
    BY <1>1 DEF InHand, InMux
  <2>3. CASE p = q
    <3>0. /\ Len(chan[p]) \in Nat \ {0} /\ Len(chan'[p]) = Len(chan[p]) - 1
          /\ \A i \in 1 .. Len(chan[p]) - 1 : chan'[p][i] = chan[p][i + 1]
      BY <1>3, <2>3
    <3>1. chan[p][1] = Took(p) + 1
      <4>1. 1 \in 1 .. Len(chan[p])
        BY <3>0
      <4>2. QED
        BY <2>1, <4>1 DEF InPlace
    <3>2. InWork(p) = 0 /\ InWork(p)' = 1 /\ Len(handled[p]) \in Nat
      BY <1>1, <1>4, <2>1, <2>3, <3>1, Counts DEF InWork
    <3>3. Took(p)' = Took(p) + 1 /\ busy'[p] = Took(p)'
      <4>1. handled'[p] = handled[p]
        BY <1>1
      <4>2. Took(p)' = Took(p) + 1
        BY <3>2, <4>1 DEF Took
      <4>3. QED
        BY <1>4, <2>3, <3>1, <4>2
    <3>4. Given(p)' = Given(p) /\ Muxed(p)' = Muxed(p)
      <4>1. Given(p)' = Given(p)
        BY <2>1, <3>0, <3>3 DEF Given
      <4>2. QED
        BY <2>2, <4>1 DEF Muxed
    <3>5. \A i \in 1 .. Len(chan'[p]) : chan'[p][i] = Took(p)' + i
      <4>1. TAKE i \in 1 .. Len(chan'[p])
      <4>2. i \in 1 .. Len(chan[p]) - 1 /\ i + 1 \in 1 .. Len(chan[p])
        BY <3>0
      <4>3. chan[p][i + 1] = Took(p) + (i + 1)
        BY <2>1, <4>2 DEF InPlace
      <4>4. QED
        BY <2>1, <3>0, <3>3, <4>2, <4>3
    <3>6. Len(chan'[p]) <= ProcCap
      BY <2>1, <3>0, PipelineAssumption DEF InPlace
    <3>7. QED
      BY <1>1, <2>1, <2>2, <3>3, <3>4, <3>5, <3>6 DEF InPlace
  <2>4. CASE p # q
    <3>1. /\ InWork(p)' = InWork(p) /\ Took(p)' = Took(p) /\ chan'[p] = chan[p]
          /\ Given(p)' = Given(p) /\ Muxed(p)' = Muxed(p) /\ busy'[p] = busy[p]
      BY <1>1, <1>4, <2>2, <2>4 DEF InWork, Took, Given, Muxed
    <3>2. QED
      BY <1>1, <2>1, <2>2, <3>1 DEF InPlace
  <2>5. QED
    BY <2>3, <2>4
<1>6. QED
  BY <1>1, <1>4, <1>5 DEF PlaceInv

\* A processor is done with the message whose number is the next one: what
\* HubBroadcast calls Handle.
LEMMA FinishIsHandle ==
  ASSUME PlaceInv, NEW q \in Procs, Finish(q)
  PROVE  /\ handled' = [handled EXCEPT ![q] = Append(@, Len(@) + 1)]
         /\ Len(handled[q]) < accepted
         /\ UNCHANGED <<hand, recv, mux, chan, accepted>>
         /\ busy' = [busy EXCEPT ![q] = 0]
<1>1. /\ busy[q] # 0 /\ handled' = [handled EXCEPT ![q] = Append(@, busy[q])]
      /\ busy' = [busy EXCEPT ![q] = 0] /\ UNCHANGED <<hand, recv, mux, chan, accepted>>
  BY DEF Finish, counts
<1>2. InPlace(q)
  BY DEF PlaceInv
<1>3. InWork(q) = 1 /\ busy[q] = Len(handled[q]) + 1
  BY <1>1, <1>2, Counts DEF InWork, Took, InPlace
<1>4. Len(handled[q]) < accepted
  <2>1. /\ Len(handled[q]) \in Nat /\ Len(chan[q]) \in Nat /\ InMux(q) \in Nat
        /\ Len(recv) \in Nat /\ InHand \in Nat
    BY Counts
  <2>2. accepted = Len(handled[q]) + 1 + Len(chan[q]) + InMux(q) + Len(recv) + InHand
    BY <1>2, <1>3 DEF InPlace, Muxed, Given, Took
  <2>3. \A a, b, c, d, e \in Nat : a < a + 1 + b + c + d + e
    OBVIOUS
  <2>4. QED
    BY ONLY <2>1, <2>2, <2>3
<1>5. QED
  BY <1>1, <1>3, <1>4

LEMMA PlaceFinish ==
  ASSUME PlaceInv, NEW q \in Procs, Finish(q)
  PROVE  PlaceInv'
<1>1. /\ handled' = [handled EXCEPT ![q] = Append(@, Len(@) + 1)]
      /\ UNCHANGED <<hand, recv, mux, chan, accepted>>
      /\ busy' = [busy EXCEPT ![q] = 0] /\ busy[q] # 0
  BY FinishIsHandle DEF Finish
<1>2. /\ handled \in [Procs -> Seq(Nat)] /\ busy \in [Procs -> Nat]
      /\ handled[q] \in Seq(Nat) /\ Len(handled[q]) \in Nat
  BY DEF PlaceInv
<1>3. /\ handled'[q] = Append(handled[q], Len(handled[q]) + 1) /\ handled'[q] \in Seq(Nat)
      /\ Len(handled'[q]) = Len(handled[q]) + 1
      /\ handled'[q][Len(handled[q]) + 1] = Len(handled[q]) + 1
      /\ \A i \in 1 .. Len(handled[q]) : handled'[q][i] = handled[q][i]
  <2>1. handled'[q] = Append(handled[q], Len(handled[q]) + 1)
    BY <1>1, <1>2
  <2>2. QED
    BY <1>2, <2>1
<1>4. /\ busy'[q] = 0 /\ busy' \in [Procs -> Nat] /\ handled' \in [Procs -> Seq(Nat)]
      /\ \A p \in Procs : p # q => handled'[p] = handled[p] /\ busy'[p] = busy[p]
  BY <1>1, <1>2, <1>3
<1>5. ASSUME NEW p \in Procs PROVE InPlace(p)'
  <2>1. InPlace(p) /\ Muxed(p) \in Nat /\ Given(p) \in Nat /\ Took(p) \in Nat
    BY Counts DEF PlaceInv
  <2>2. InHand' = InHand /\ InMux(p)' = InMux(p)
    BY <1>1 DEF InHand, InMux
  <2>3. CASE p = q
    <3>1. InWork(p) = 1 /\ InWork(p)' = 0
      BY <1>1, <1>4, <2>3 DEF InWork
    <3>2. Took(p)' = Took(p) /\ Given(p)' = Given(p) /\ Muxed(p)' = Muxed(p)
      BY <1>1, <1>2, <1>3, <2>2, <2>3, <3>1 DEF Took, Given, Muxed
    <3>3. \A i \in 1 .. Len(handled'[p]) : handled'[p][i] = i
      <4>1. TAKE i \in 1 .. Len(handled'[p])
      <4>2. CASE i = Len(handled[p]) + 1
        BY <1>3, <2>3, <4>2
      <4>3. CASE i \in 1 .. Len(handled[p])
        BY <1>3, <2>1, <2>3, <4>3 DEF InPlace
      <4>4. QED
        BY <1>2, <1>3, <2>3, <4>2, <4>3
    <3>4. QED
      BY <1>1, <1>4, <2>1, <2>2, <2>3, <3>2, <3>3 DEF InPlace
  <2>4. CASE p # q
    <3>1. /\ InWork(p)' = InWork(p) /\ Took(p)' = Took(p) /\ handled'[p] = handled[p]
          /\ Given(p)' = Given(p) /\ Muxed(p)' = Muxed(p) /\ busy'[p] = busy[p]
      BY <1>1, <1>4, <2>2, <2>4 DEF InWork, Took, Given, Muxed
    <3>2. QED
      BY <1>1, <2>1, <2>2, <3>1 DEF InPlace
  <2>5. QED
    BY <2>3, <2>4
<1>6. QED
  BY <1>1, <1>4, <1>5 DEF PlaceInv

\* What every step of the hub does to the messages between the Receiver and the
\* processors.
LEMMA PipelineSteps ==
  ASSUME [Next]_vars
  PROVE  \/ /\ hand = 0 /\ hand' = accepted + 1 /\ accepted' = accepted + 1
            /\ UNCHANGED <<recv, mux, chan, busy, handled>>
         \/ PushRecv
         \/ MuxTake
         \/ MuxPush
         \/ \E p \in Procs : Take(p) \/ Finish(p)
         \/ UNCHANGED placeVars
<1>1. ASSUME NEW g \in Groups, NEW a \in Addrs, ReceiveMessage(g, a)
      PROVE  /\ hand = 0 /\ hand' = accepted + 1 /\ accepted' = accepted + 1
             /\ UNCHANGED <<recv, mux, chan, busy, handled>>
  BY <1>1 DEF ReceiveMessage
<1>2. ASSUME NEW g \in Groups, NEW a \in Addrs, ReceiveOther(g, a)
      PROVE  UNCHANGED placeVars
  BY <1>2 DEF ReceiveOther, inVars, placeVars
<1>3. ASSUME Transmit \/ LogFault \/ Midnight
      PROVE  UNCHANGED placeVars
  BY <1>3 DEF Transmit, LogFault, Midnight, inVars, counts, placeVars
<1>4. ASSUME LogProcessor \/ DbProcessor
      PROVE  \E p \in Procs : Take(p) \/ Finish(p)
  BY <1>4, TheProcs DEF LogProcessor, DbProcessor, LogFinish, DbFinish
<1>5. ASSUME CmdNext PROVE UNCHANGED placeVars
  BY <1>5, CommandsLeavePipeline DEF inVars, placeVars
<1>6. ASSUME UNCHANGED vars PROVE UNCHANGED placeVars
  BY <1>6 DEF vars, pipeVars, inVars, counts, placeVars
<1>7. QED
  BY <1>1, <1>2, <1>3, <1>4, <1>5, <1>6 DEF Next, PipeNext, Mux

LEMMA PlaceStep ==
  ASSUME PlaceInv, [Next]_vars
  PROVE  PlaceInv'
  BY PipelineSteps, PlaceUnchanged, PlaceReceive, PlacePush, PlaceMuxTake, PlaceMuxPush,
     PlaceTake, PlaceFinish

LEMMA PlaceInit == Init => PlaceInv
<1>1. SUFFICES ASSUME Init PROVE PlaceInv
  OBVIOUS
<1>2. /\ hand = 0 /\ accepted = 0 /\ recv = <<>> /\ mux = [msg |-> 0, next |-> 1]
      /\ chan = [p \in Procs |-> <<>>] /\ busy = [p \in Procs |-> 0]
      /\ handled = [p \in Procs |-> <<>>]
  BY <1>1 DEF Init, PipeInit
<1>3. mux \in [msg : Nat, next : DOMAIN Order] /\ RecvCap \in Nat /\ ProcCap \in Nat
  BY <1>2, TheProcs, PipelineAssumption
<1>4. <<>> \in Seq(Nat) /\ Len(<<>>) = 0
  OBVIOUS
<1>5. ASSUME NEW p \in Procs PROVE InPlace(p)
  <2>1. handled[p] = <<>> /\ chan[p] = <<>> /\ busy[p] = 0
    BY <1>2
  <2>2. InWork(p) = 0 /\ InMux(p) = 0 /\ InHand = 0
    BY <1>2, <2>1 DEF InWork, InMux, InHand
  <2>3. Took(p) = 0 /\ Given(p) = 0 /\ Muxed(p) = 0
    BY <1>4, <2>1, <2>2 DEF Took, Given, Muxed
  <2>4. QED
    BY <1>2, <1>3, <1>4, <2>1, <2>2, <2>3 DEF InPlace
<1>6. QED
  BY <1>2, <1>3, <1>4, <1>5 DEF PlaceInv

\* Every message the hub has accepted is where it should be, once for each
\* processor, in every reachable state.
THEOREM MessagesInPlace == Spec => []PlaceInv
  BY PlaceInit, PlaceStep, PTL DEF Spec

-----------------------------------------------------------------------------
(* The pipeline implements the safety part of HubBroadcast.                  *)

\* Between the Receiver, which has nothing in its hands when it accepts a message,
\* and a processor there is at most what the channels and the goroutines hold.
LEMMA WindowBound ==
  ASSUME PlaceInv, hand = 0, NEW p \in Procs
  PROVE  accepted - Len(handled[p]) < RecvCap + ProcCap + 3
<1>1. InPlace(p) /\ InHand = 0 /\ Len(recv) <= RecvCap /\ RecvCap \in Nat /\ ProcCap \in Nat
  BY PipelineAssumption DEF PlaceInv, InHand
<1>2. /\ Len(handled[p]) \in Nat /\ Len(chan[p]) \in Nat /\ InMux(p) \in 0 .. 1
      /\ InWork(p) \in 0 .. 1 /\ Len(recv) \in Nat
  BY Counts
<1>3. accepted = Len(handled[p]) + InWork(p) + Len(chan[p]) + InMux(p) + Len(recv) + 0
  BY <1>1 DEF InPlace, Muxed, Given, Took
<1>4. Len(chan[p]) <= ProcCap
  BY <1>1 DEF InPlace
<1>5. \A a, c, r, C, R \in Nat : \A b, d \in 0 .. 1 :
        c <= C /\ r <= R => (a + b + c + d + r + 0) - a < R + C + 3
  OBVIOUS
<1>6. QED
  BY ONLY <1>1, <1>2, <1>3, <1>4, <1>5

\* A step of the hub is a step of HubBroadcast, or changes nothing it knows of.
LEMMA BroadcastStep ==
  ASSUME PlaceInv, [Next]_vars
  PROVE  [Broadcast!Next]_Broadcast!vars
<1>1. ASSUME hand = 0, accepted' = accepted + 1, UNCHANGED handled
      PROVE  Broadcast!Accept
  BY <1>1, WindowBound DEF Broadcast!Accept
<1>2. ASSUME NEW p \in Procs, Finish(p)
      PROVE  Broadcast!Handle(p)
  BY <1>2, FinishIsHandle DEF Broadcast!Handle
<1>3. ASSUME NEW p \in Procs, Take(p) \/ PushRecv \/ MuxTake \/ MuxPush \/ UNCHANGED placeVars
      PROVE  UNCHANGED Broadcast!vars
  BY <1>3 DEF Take, PushRecv, MuxTake, MuxPush, placeVars, counts, Broadcast!vars
<1>4. "log" \in Procs
  BY TheProcs
<1>5. QED
  BY <1>1, <1>2, <1>3, <1>4, PipelineSteps DEF Broadcast!Next

\* Every processor handles all accepted messages in their order, and never is more
\* than RecvCap + ProcCap + 3 of them behind: no more than that can a crash lose,
\* whatever the capacities and however slow a processor is.
THEOREM PipelineImplementsBroadcast == Spec => Broadcast!Safety
<1>1. Init => Broadcast!Init
  BY DEF Init, PipeInit, Broadcast!Init
<1>2. QED
  BY <1>1, BroadcastStep, MessagesInPlace, PTL DEF Spec, Broadcast!Safety

-----------------------------------------------------------------------------
(* The command server and the client library.                              *)

\* A call gets its result, and nothing else of the calls changes.
LEMMA SetResult ==
  ASSUME CommandInv, NEW i \in DOMAIN calls, NEW res \in {"ok", "error"},
         calls' = [calls EXCEPT ![i].result = res]
  PROVE  /\ calls' \in Seq(AnyCall) /\ Len(calls') = Len(calls) /\ DOMAIN calls' = DOMAIN calls
         /\ \A j \in DOMAIN calls :
              /\ calls'[j].conn = calls[j].conn /\ calls'[j].op = calls[j].op
              /\ calls'[j].group = calls[j].group /\ calls'[j].after = calls[j].after
              /\ calls'[j].result = IF j = i THEN res ELSE calls[j].result
<1>1. calls \in Seq(AnyCall) /\ i \in 1 .. Len(calls) /\ calls[i] \in AnyCall
  BY DEF CommandInv
<1> DEFINE e == [calls[i] EXCEPT !.result = res]
<1>2. /\ e \in AnyCall /\ e.conn = calls[i].conn /\ e.op = calls[i].op
      /\ e.group = calls[i].group /\ e.after = calls[i].after /\ e.result = res
  BY <1>1 DEF AnyCall
<1>3. calls' = [calls EXCEPT ![i] = e]
  OBVIOUS
<1> HIDE DEF e
<1>4. calls' \in Seq(AnyCall) /\ Len(calls') = Len(calls)
  BY <1>1, <1>2, <1>3, ExceptSeq
<1>5. DOMAIN calls' = DOMAIN calls /\ \A j \in DOMAIN calls : calls'[j] = IF j = i THEN e ELSE calls[j]
  BY <1>1, <1>3, <1>4
<1>6. QED
  BY <1>2, <1>4, <1>5

\* A new call is behind the others.
LEMMA AddCall ==
  ASSUME CommandInv, NEW e \in AnyCall, calls' = Append(calls, e)
  PROVE  /\ calls' \in Seq(AnyCall) /\ Len(calls) \in Nat /\ Len(calls') = Len(calls) + 1
         /\ DOMAIN calls = 1 .. Len(calls) /\ DOMAIN calls' = 1 .. Len(calls) + 1
         /\ calls'[Len(calls) + 1] = e
         /\ \A j \in DOMAIN calls : j \in DOMAIN calls' /\ calls'[j] = calls[j]
  BY DEF CommandInv

\* The connections, their goroutine in the hub and the pinger.
LEMMA CommandStepConn ==
  ASSUME CommandInv, NEW c \in Conns,
         Dial(c) \/ Close(c) \/ CloseConn(c) \/ Break(c) \/ Pinger(c)
  PROVE  CommandInv'
<1>1. ASSUME Dial(c) PROVE CommandInv'
  <2>1. <<0>> \in Seq(Nat)
    OBVIOUS
  <2>2. /\ conn' \in [Conns -> {"none", "dial", "open", "closing", "closed"}]
        /\ link' \in [Conns -> {"up", "eof", "down"}]
        /\ ping' \in [Conns -> {"none", "wait", "idle", "ended"}]
        /\ server' \in [Conns -> [pc : {"none", "recv", "handle", "reply", "gone"}, req : Nat]]
    BY <1>1 DEF Dial, CommandInv
  <2>3. main' \in [Conns -> Seq(Nat)]
    BY <1>1, <2>1 DEF Dial, CommandInv
  <2>4. ASSUME NEW d \in Conns
        PROVE  /\ server'[d].pc = "none" <=> conn'[d] = "none"
               /\ conn'[d] = "open" => ping'[d] \notin {"none", "ended"}
    BY <1>1 DEF Dial, CommandInv
  <2>5. UNCHANGED <<calls, flow, buf>>
    BY <1>1 DEF Dial
  <2>6. QED
    BY <2>2, <2>3, <2>4, <2>5 DEF CommandInv
<1>2. ASSUME Close(c) \/ CloseConn(c) \/ Break(c) PROVE CommandInv'
  <2>1. ASSUME Close(c) PROVE CommandInv'
    BY <2>1 DEF Close, Closing, CommandInv
  <2>2. ASSUME CloseConn(c) PROVE CommandInv'
    BY <2>2 DEF CloseConn, CommandInv
  <2>3. ASSUME Break(c) PROVE CommandInv'
    BY <2>3 DEF Break, CommandInv
  <2>4. QED
    BY <1>2, <2>1, <2>2, <2>3
<1>3. ASSUME PingSend(c) PROVE CommandInv'
  <2>1. main' \in [Conns -> Seq(Nat)] /\ ping' \in [Conns -> {"none", "wait", "idle", "ended"}]
    BY <1>3 DEF PingSend, CommandInv
  <2>2. \A d \in Conns : ping[d] \notin {"none", "ended"} => ping'[d] \notin {"none", "ended"}
    BY <1>3 DEF PingSend, CommandInv
  <2>3. UNCHANGED <<conn, link, server, calls, flow, buf>>
    BY <1>3 DEF PingSend
  <2>4. QED
    BY <2>1, <2>2, <2>3 DEF CommandInv
<1>4. ASSUME PingFail(c) PROVE CommandInv'
  <2>1. /\ ping' = [ping EXCEPT ![c] = "ended"] /\ ping' \in [Conns -> {"none", "wait", "idle", "ended"}]
        /\ UNCHANGED <<main, server, calls, flow, buf>>
    BY <1>4 DEF PingFail, CommandInv
  <2>2. /\ conn' \in [Conns -> {"none", "dial", "open", "closing", "closed"}]
        /\ link' \in [Conns -> {"up", "eof", "down"}]
    <3>1. CASE conn[c] = "open"
      BY <1>4, <3>1 DEF PingFail, Closing, CommandInv
    <3>2. CASE conn[c] # "open"
      BY <1>4, <3>2 DEF PingFail, CommandInv
    <3>3. QED
      BY <3>1, <3>2
  <2>3. /\ \A d \in Conns : conn'[d] = "none" <=> conn[d] = "none"
        /\ \A d \in Conns : conn'[d] = "open" => conn[d] = "open" /\ d # c
    <3>1. CASE conn[c] = "open"
      BY <1>4, <3>1 DEF PingFail, Closing, CommandInv
    <3>2. CASE conn[c] # "open"
      BY <1>4, <3>2 DEF PingFail, CommandInv
    <3>3. QED
      BY <3>1, <3>2
  <2>4. \A d \in Conns : d # c => ping'[d] = ping[d]
    BY <2>1 DEF CommandInv
  <2>5. QED
    BY <2>1, <2>2, <2>3, <2>4 DEF CommandInv
<1>5. QED
  BY <1>1, <1>2, <1>3, <1>4 DEF Pinger

\* A user makes a call.
LEMMA CommandStepCall ==
  ASSUME CommandInv, NEW c \in Conns, NEW op \in Ops, NEW g \in Groups, Call(c, op, g)
  PROVE  CommandInv'
<1> DEFINE e == [conn |-> c, op |-> op, group |-> g, after |-> Returned, result |-> None]
<1>1. Returned \subseteq DOMAIN calls /\ DOMAIN calls \subseteq Nat
  BY DEF Returned, CommandInv
<1>2. e \in AnyCall /\ calls' = Append(calls, e)
  BY <1>1 DEF AnyCall, Call
<1>3. calls' \in Seq(AnyCall) /\ Len(calls') = Len(calls) + 1 /\ Len(calls) \in Nat
  BY <1>2, AddCall
<1>4. /\ flow' \in Seq({None, "on", "hold", "closing", "end"}) /\ Len(flow') = Len(calls')
      /\ buf' \in Seq(0 .. PushCap) /\ Len(buf') = Len(calls')
  <2>1. /\ flow' = Append(flow, None) /\ buf' = Append(buf, 0)
        /\ flow \in Seq({None, "on", "hold", "closing", "end"}) /\ Len(flow) = Len(calls)
        /\ buf \in Seq(0 .. PushCap) /\ Len(buf) = Len(calls)
    BY DEF Call, CommandInv
  <2>2. 0 \in 0 .. PushCap
    BY CommandsAssumption
  <2>3. QED
    BY <1>3, <2>1, <2>2
<1>5. main' \in [Conns -> Seq(Nat)]
  BY <1>3 DEF Call, CommandInv
<1>6. UNCHANGED <<conn, link, server, ping>>
  BY DEF Call
<1>7. QED
  BY <1>3, <1>4, <1>5, <1>6 DEF CommandInv

\* What becomes of a call, a subscription or a push.
LEMMA CommandStepFlow ==
  ASSUME CommandInv, NEW i \in DOMAIN calls, Fail(i) \/ Flow(i) \/ PushPut(i) \/ PushClose(i)
  PROVE  CommandInv'
<1>1. /\ flow \in Seq({None, "on", "hold", "closing", "end"}) /\ Len(flow) = Len(calls)
      /\ buf \in Seq(0 .. PushCap) /\ Len(buf) = Len(calls)
      /\ i \in 1 .. Len(flow) /\ i \in 1 .. Len(buf) /\ buf[i] \in 0 .. PushCap /\ PushCap \in Nat
  BY CommandsAssumption DEF CommandInv
<1>2. ASSUME NEW v \in {None, "on", "hold", "closing", "end"}, flow' = [flow EXCEPT ![i] = v]
      PROVE  /\ flow' \in Seq({None, "on", "hold", "closing", "end"})
             /\ Len(flow') = Len(calls)
  BY <1>1, <1>2, ExceptSeq
<1>3. ASSUME NEW v \in 0 .. PushCap, buf' = [buf EXCEPT ![i] = v]
      PROVE  buf' \in Seq(0 .. PushCap) /\ Len(buf') = Len(calls)
  BY <1>1, <1>3, ExceptSeq
<1>4. ASSUME Fail(i) PROVE CommandInv'
  <2>1. calls' = [calls EXCEPT ![i].result = "error"]
    BY <1>4 DEF Fail
  <2>2. calls' \in Seq(AnyCall) /\ Len(calls') = Len(calls)
    BY <2>1, SetResult
  <2>3. QED
    BY <1>4, <2>2 DEF Fail, CommandInv
<1>5. ASSUME StreamRecv(i) \/ StreamTake(i) \/ PushClose(i) PROVE CommandInv'
  <2>1. /\ flow' \in Seq({None, "on", "hold", "closing", "end"}) /\ Len(flow') = Len(calls)
    BY <1>2, <1>5 DEF StreamRecv, StreamTake, PushClose
  <2>2. QED
    BY <1>5, <2>1 DEF StreamRecv, StreamTake, PushClose, CommandInv
<1>6. ASSUME PushPut(i) PROVE CommandInv'
  <2>1. buf[i] + 1 \in 0 .. PushCap /\ buf' = [buf EXCEPT ![i] = buf[i] + 1]
    BY <1>1, <1>6 DEF PushPut
  <2>2. buf' \in Seq(0 .. PushCap) /\ Len(buf') = Len(calls)
    BY <1>3, <2>1
  <2>3. QED
    BY <1>6, <2>2 DEF PushPut, CommandInv
<1>7. ASSUME PushSend(i) PROVE CommandInv'
  <2>1. CASE buf[i] > 0 /\ link[calls[i].conn] # "down"
    <3>1. buf[i] - 1 \in 0 .. PushCap /\ buf' = [buf EXCEPT ![i] = buf[i] - 1] /\ flow' = flow
      BY <1>1, <1>7, <2>1 DEF PushSend
    <3>2. buf' \in Seq(0 .. PushCap) /\ Len(buf') = Len(calls)
      BY <1>3, <3>1
    <3>3. QED
      BY <1>7, <3>1, <3>2 DEF PushSend, CommandInv
  <2>2. CASE ~(buf[i] > 0 /\ link[calls[i].conn] # "down")
    <3>1. 0 \in 0 .. PushCap /\ buf' = [buf EXCEPT ![i] = 0] /\ flow' = [flow EXCEPT ![i] = "end"]
      BY <1>1, <1>7, <2>2 DEF PushSend
    <3>2. /\ flow' \in Seq({None, "on", "hold", "closing", "end"}) /\ Len(flow') = Len(calls)
          /\ buf' \in Seq(0 .. PushCap) /\ Len(buf') = Len(calls)
      BY <1>2, <1>3, <3>1
    <3>3. QED
      BY <1>7, <3>2 DEF PushSend, CommandInv
  <2>3. QED
    BY <2>1, <2>2
<1>8. QED
  BY <1>4, <1>5, <1>6, <1>7 DEF Flow

\* The goroutine of a connection in the hub.
LEMMA CommandStepServer ==
  ASSUME CommandInv, RequestInv, NEW c \in Conns, Server(c)
  PROVE  CommandInv'
<1>0. /\ main[c] \in Seq(Nat) /\ <<>> \in Seq(Nat)
      /\ server[c] \in [pc : {"none", "recv", "handle", "reply", "gone"}, req : Nat]
  BY DEF CommandInv
<1>1. ASSUME ServerReceive(c) PROVE CommandInv'
  <2>1. Head(main[c]) \in Nat /\ Tail(main[c]) \in Seq(Nat)
    BY <1>0, <1>1 DEF ServerReceive
  <2>2. QED
    BY <1>1, <2>1 DEF ServerReceive, Serve, CommandInv
<1>2. ASSUME ServerEnd(c) PROVE CommandInv'
  <2>1. /\ link' \in [Conns -> {"up", "eof", "down"}] /\ main' \in [Conns -> Seq(Nat)]
        /\ server' \in [Conns -> [pc : {"none", "recv", "handle", "reply", "gone"}, req : Nat]]
    BY <1>0, <1>2 DEF ServerEnd, Serve, CommandInv
  <2>2. \A d \in Conns : server'[d].pc = "none" <=> server[d].pc = "none"
    BY <1>0, <1>2 DEF ServerEnd, Serve, CommandInv
  <2>3. UNCHANGED <<conn, ping, calls, flow, buf>>
    BY <1>2 DEF ServerEnd
  <2>4. QED
    BY <2>1, <2>2, <2>3 DEF CommandInv
<1>3. ASSUME HandleSend(c) \/ HandleOther(c) PROVE CommandInv'
  <2>1. /\ server[c].pc = "handle" /\ server' = [server EXCEPT ![c].pc = "reply"]
        /\ UNCHANGED <<conn, link, main, ping, calls, flow, buf>>
    BY <1>3 DEF HandleSend, HandleOther
  <2>2. server' \in [Conns -> [pc : {"none", "recv", "handle", "reply", "gone"}, req : Nat]]
    BY <2>1 DEF CommandInv
  <2>3. \A d \in Conns : server'[d].pc = "none" <=> server[d].pc = "none"
    BY <2>1 DEF CommandInv
  <2>4. QED
    BY <2>1, <2>2, <2>3 DEF CommandInv
<1>4. ASSUME LoseReply(c) PROVE CommandInv'
  BY <1>0, <1>4 DEF LoseReply, Serve, CommandInv
<1>5. ASSUME SendReply(c) PROVE CommandInv'
  <2> DEFINE r == server[c].req
  <2>1. /\ server' = [server EXCEPT ![c] = [pc |-> "recv", req |-> 0]] /\ server[c].pc = "reply"
        /\ UNCHANGED <<link, main, buf>>
    BY <1>5 DEF SendReply, Serve
  <2>2. server' \in [Conns -> [pc : {"none", "recv", "handle", "reply", "gone"}, req : Nat]]
    BY <2>1 DEF CommandInv
  <2>3. CASE r = 0
    <3>1. /\ ping' = [ping EXCEPT ![c] = "idle"] /\ UNCHANGED <<calls, flow>>
          /\ conn' = [conn EXCEPT ![c] = IF @ = "dial" THEN "open" ELSE @]
      BY <1>5, <2>3 DEF SendReply
    <3>2. QED
      BY <2>1, <2>2, <3>1 DEF CommandInv
  <2>4. CASE r # 0
    <3>1. /\ calls' = [calls EXCEPT ![r].result = Answer(r)]
          /\ flow' = [flow EXCEPT ![r] = IF calls[r].op \in {"subscribe", "push"} THEN "on" ELSE @]
          /\ UNCHANGED <<ping, conn>>
      BY <1>5, <2>4 DEF SendReply
    <3>2. r \in DOMAIN calls /\ Answer(r) \in {"ok", "error"}
      BY <2>4 DEF RequestInv, RequestsOf, RequestOK, Unanswered, Answer
    <3>3. calls' \in Seq(AnyCall) /\ Len(calls') = Len(calls)
      BY <3>1, <3>2, SetResult
    <3>4. /\ flow' \in Seq({None, "on", "hold", "closing", "end"}) /\ Len(flow') = Len(calls)
      <4>1. /\ flow \in Seq({None, "on", "hold", "closing", "end"}) /\ Len(flow) = Len(calls)
            /\ r \in 1 .. Len(flow) /\ flow[r] \in {None, "on", "hold", "closing", "end"}
        BY <3>2 DEF CommandInv
      <4>2. QED
        BY <3>1, <4>1, ExceptSeq
    <3>5. QED
      BY <2>1, <2>2, <3>1, <3>3, <3>4 DEF CommandInv
  <2>5. QED
    BY <2>3, <2>4
<1>6. QED
  BY <1>1, <1>2, <1>3, <1>4, <1>5 DEF Server

LEMMA CommandStep ==
  ASSUME CommandInv, RequestInv, [Next]_vars
  PROVE  CommandInv'
<1>1. ASSUME UNCHANGED cmdVars PROVE CommandInv'
  BY <1>1 DEF cmdVars, CommandInv
<1>2. ASSUME UNCHANGED vars PROVE CommandInv'
  BY <1>1, <1>2 DEF vars
<1>3. QED
  BY <1>1, <1>2, CommandStepConn, CommandStepCall, CommandStepFlow, CommandStepServer
     DEF Next, CmdNext

-----------------------------------------------------------------------------
(* What was passed to the Transmitter.                                       *)

\* Only HandleRFSendRequest puts something into xmitChan, and only the
\* Transmitter takes it out.
LEMMA PassedSteps ==
  ASSUME [Next]_vars
  PROVE  \/ \E c \in Conns : HandleSend(c)
         \/ Transmit
         \/ UNCHANGED outVars
<1>1. ASSUME NEW c \in Conns, Dial(c) \/ Close(c) \/ CloseConn(c) \/ Break(c) \/ Pinger(c)
      PROVE  UNCHANGED outVars
  BY <1>1 DEF Dial, Close, CloseConn, Break, Pinger, PingSend, PingFail, pipeVars, outVars
<1>2. ASSUME NEW c \in Conns, Server(c), ~HandleSend(c)
      PROVE  UNCHANGED outVars
  BY <1>2 DEF Server, ServerReceive, ServerEnd, HandleOther, SendReply, LoseReply,
              pipeVars, outVars
<1>3. ASSUME NEW c \in Conns, NEW op \in Ops, NEW g \in Groups, Call(c, op, g)
      PROVE  UNCHANGED outVars
  BY <1>3 DEF Call, pipeVars, outVars
<1>4. ASSUME NEW i \in DOMAIN calls, Fail(i) \/ Flow(i) \/ PushPut(i) \/ PushClose(i)
      PROVE  UNCHANGED outVars
  BY <1>4 DEF Fail, Flow, StreamRecv, StreamTake, PushSend, PushPut, PushClose,
              pipeVars, outVars
<1>5. ASSUME PipeNext, ~Transmit PROVE UNCHANGED outVars
  BY <1>5 DEF PipeNext, ReceiveMessage, ReceiveOther, PushRecv, Mux, MuxTake, MuxPush,
              LogProcessor, DbProcessor, Take, LogFinish, DbFinish, Finish, LogFault, Midnight,
              outVars
<1>6. ASSUME UNCHANGED vars PROVE UNCHANGED outVars
  BY <1>6 DEF vars, pipeVars
<1>7. QED
  BY <1>1, <1>2, <1>3, <1>4, <1>5, <1>6 DEF Next, CmdNext

XmitRecord == [id : Nat, group : Groups]
SentRecord == [id : Nat, group : Groups, to : Addrs \cup {None}]

\* The messages passed on are those sent and those in xmitChan.
LEMMA ExecutedIs ==
  ASSUME PassedInv
  PROVE  /\ xmit \in Seq(XmitRecord) /\ sent \in Seq(SentRecord)
         /\ Len(xmit) \in Nat /\ Len(sent) \in Nat
         /\ Executed \in Seq(XmitRecord \cup SentRecord)
         /\ Len(Executed) = Len(sent) + Len(xmit)
         /\ DOMAIN Executed = 1 .. Len(sent) + Len(xmit)
         /\ \A k \in DOMAIN Executed :
              Executed[k] = IF k <= Len(sent) THEN sent[k] ELSE xmit[k - Len(sent)]
<1>1. xmit \in Seq(XmitRecord) /\ sent \in Seq(SentRecord)
  BY DEF PassedInv, XmitRecord, SentRecord
<1>2. xmit \in Seq(XmitRecord \cup SentRecord) /\ sent \in Seq(XmitRecord \cup SentRecord)
  BY <1>1
<1>3. QED
  BY <1>1, <1>2 DEF Executed

\* The Transmitter takes a message, which stays where it is among those passed on.
LEMMA TransmitStep ==
  ASSUME PassedInv, GatewayInv, Transmit
  PROVE  /\ xmit' \in Seq(XmitRecord) /\ Len(xmit') = Len(xmit) - 1
         /\ sent' \in Seq(SentRecord) /\ Len(sent') = Len(sent) + 1
         /\ sent'[Len(sent')].to = heard[sent'[Len(sent')].group]
         /\ DOMAIN Executed' = DOMAIN Executed
         /\ \A k \in DOMAIN Executed : Executed'[k].id = Executed[k].id
<1>1. /\ xmit \in Seq(XmitRecord) /\ sent \in Seq(SentRecord) /\ xmit # <<>>
      /\ Len(xmit) \in Nat /\ Len(sent) \in Nat
      /\ groupMap \in [Groups -> Addrs \cup {None}] /\ heard = groupMap
  BY ExecutedIs DEF GatewayInv, Transmit
<1> DEFINE h == Head(xmit)
           e == [id |-> h.id, group |-> h.group, to |-> groupMap[h.group]]
<1>2. /\ h \in XmitRecord /\ h = xmit[1] /\ Len(xmit) > 0
      /\ Tail(xmit) \in Seq(XmitRecord) /\ Len(Tail(xmit)) = Len(xmit) - 1
      /\ \A i \in 1 .. Len(xmit) - 1 : Tail(xmit)[i] = xmit[i + 1]
  BY <1>1, HeadTailProperties
<1>3. e \in SentRecord /\ e.id = h.id /\ e.to = heard[e.group]
  BY <1>1, <1>2 DEF XmitRecord, SentRecord
<1>4. xmit' = Tail(xmit) /\ sent' = Append(sent, e)
  BY DEF Transmit
<1> HIDE DEF h, e
<1>5. /\ xmit' \in Seq(XmitRecord) /\ Len(xmit') = Len(xmit) - 1
      /\ sent' \in Seq(SentRecord) /\ Len(sent') = Len(sent) + 1 /\ sent'[Len(sent) + 1] = e
      /\ \A i \in 1 .. Len(sent) : sent'[i] = sent[i]
  BY <1>1, <1>2, <1>3, <1>4
<1>6. /\ DOMAIN Executed' = 1 .. Len(sent') + Len(xmit')
      /\ \A k \in DOMAIN Executed' :
           Executed'[k] = IF k <= Len(sent') THEN sent'[k] ELSE xmit'[k - Len(sent')]
  <2>1. xmit' \in Seq(XmitRecord \cup SentRecord) /\ sent' \in Seq(XmitRecord \cup SentRecord)
    BY <1>5
  <2>2. QED
    BY <2>1 DEF Executed
<1>7. DOMAIN Executed' = DOMAIN Executed /\ DOMAIN Executed = 1 .. Len(sent) + Len(xmit)
  <2>1. DOMAIN Executed = 1 .. Len(sent) + Len(xmit)
    BY ExecutedIs
  <2>2. Len(sent') + Len(xmit') = Len(sent) + Len(xmit)
    BY <1>1, <1>5
  <2>3. QED
    BY <1>6, <2>1, <2>2
<1>8. ASSUME NEW k \in DOMAIN Executed PROVE Executed'[k].id = Executed[k].id
  <2>1. /\ Executed[k] = IF k <= Len(sent) THEN sent[k] ELSE xmit[k - Len(sent)]
        /\ Executed'[k] = IF k <= Len(sent') THEN sent'[k] ELSE xmit'[k - Len(sent')]
    BY <1>6, <1>7, ExecutedIs
  <2>2. CASE k \in 1 .. Len(sent)
    BY <1>1, <1>5, <2>1, <2>2
  <2>3. CASE k = Len(sent) + 1
    <3>1. Executed'[k] = e /\ Executed[k] = xmit[1]
      BY <1>1, <1>5, <2>1, <2>3
    <3>2. QED
      BY <1>2, <1>3, <3>1
  <2>4. CASE k \in Len(sent) + 2 .. Len(sent) + Len(xmit)
    <3>1. Executed'[k] = xmit'[k - (Len(sent) + 1)] /\ Executed[k] = xmit[k - Len(sent)]
      BY <1>1, <1>5, <2>1, <2>4
    <3>2. k - (Len(sent) + 1) \in 1 .. Len(xmit) - 1
      BY <1>1, <2>4
    <3>3. xmit'[k - (Len(sent) + 1)] = xmit[(k - (Len(sent) + 1)) + 1]
      BY <1>2, <1>4, <3>2
    <3>4. (k - (Len(sent) + 1)) + 1 = k - Len(sent)
      BY <1>1, <2>4
    <3>5. QED
      BY <3>1, <3>3, <3>4
  <2>5. QED
    BY <1>1, <1>7, <2>2, <2>3, <2>4
<1>9. QED
  BY <1>1, <1>3, <1>5, <1>7, <1>8

\* HandleRFSendRequest passes a message on, behind all others.
LEMMA HandleSendStep ==
  ASSUME PassedInv, CommandInv, RequestInv, NEW c \in Conns, HandleSend(c)
  PROVE  /\ xmit' \in Seq(XmitRecord) /\ Len(xmit') = Len(xmit) + 1 /\ sent' = sent
         /\ Len(Executed) \in Nat /\ DOMAIN Executed = 1 .. Len(Executed)
         /\ DOMAIN Executed' = 1 .. Len(Executed) + 1
         /\ \A k \in DOMAIN Executed : Executed'[k] = Executed[k]
         /\ Executed'[Len(Executed) + 1].id = server[c].req
         /\ server[c].req # 0 /\ server[c].pc = "handle"
         /\ server[c].req \in DOMAIN calls /\ calls[server[c].req].op = "send"
         /\ calls[server[c].req].conn = c
         /\ ~Passed(server[c].req)
<1> DEFINE r == server[c].req
           e == [id |-> r, group |-> calls[r].group]
<1>1. /\ r # 0 /\ server[c].pc = "handle" /\ calls[r].op = "send"
      /\ xmit' = Append(xmit, e) /\ sent' = sent
  BY DEF HandleSend, IsSend
<1>2. r \in DOMAIN calls /\ calls[r].conn = c /\ ~Passed(r)
  BY <1>1 DEF RequestInv, RequestsOf, RequestOK, Unanswered
<1>3. e \in XmitRecord /\ e.id = r
  <2>1. calls[r] \in AnyCall /\ r \in Nat
    BY <1>2 DEF CommandInv
  <2>2. QED
    BY <2>1 DEF AnyCall, XmitRecord
<1>4. /\ xmit \in Seq(XmitRecord) /\ sent \in Seq(SentRecord)
      /\ Len(xmit) \in Nat /\ Len(sent) \in Nat
      /\ Executed \in Seq(XmitRecord \cup SentRecord)
      /\ Len(Executed) = Len(sent) + Len(xmit)
      /\ \A k \in DOMAIN Executed :
           Executed[k] = IF k <= Len(sent) THEN sent[k] ELSE xmit[k - Len(sent)]
  BY ExecutedIs
<1> HIDE DEF e, r
<1>5. /\ xmit' \in Seq(XmitRecord) /\ Len(xmit') = Len(xmit) + 1 /\ xmit'[Len(xmit) + 1] = e
      /\ \A i \in 1 .. Len(xmit) : xmit'[i] = xmit[i]
  BY <1>1, <1>3, <1>4
<1>6. /\ DOMAIN Executed' = 1 .. Len(sent) + Len(xmit')
      /\ \A k \in DOMAIN Executed' :
           Executed'[k] = IF k <= Len(sent) THEN sent[k] ELSE xmit'[k - Len(sent)]
  <2>1. xmit' \in Seq(XmitRecord \cup SentRecord) /\ sent \in Seq(XmitRecord \cup SentRecord)
    BY <1>4, <1>5
  <2>2. QED
    BY <1>1, <2>1 DEF Executed
<1>7. /\ Len(Executed) \in Nat /\ DOMAIN Executed = 1 .. Len(Executed)
      /\ DOMAIN Executed' = 1 .. Len(Executed) + 1
  BY <1>4, <1>5, <1>6
<1>8. ASSUME NEW k \in DOMAIN Executed PROVE Executed'[k] = Executed[k]
  <2>1. k \in DOMAIN Executed'
    BY <1>7
  <2>2. CASE k <= Len(sent)
    BY <1>4, <1>6, <2>1, <2>2
  <2>3. CASE ~(k <= Len(sent))
    <3>1. k - Len(sent) \in 1 .. Len(xmit)
      BY <1>4, <1>7, <2>3
    <3>2. QED
      BY <1>4, <1>5, <1>6, <2>1, <2>3, <3>1
  <2>4. QED
    BY <2>2, <2>3
<1>9. Executed'[Len(Executed) + 1] = e
  <2>1. Len(Executed) + 1 \in DOMAIN Executed' /\ ~(Len(Executed) + 1 <= Len(sent))
        /\ (Len(Executed) + 1) - Len(sent) = Len(xmit) + 1
    BY <1>4, <1>7
  <2>2. QED
    BY <1>5, <1>6, <2>1
<1>10. QED
  BY <1>1, <1>2, <1>3, <1>5, <1>7, <1>8, <1>9 DEF r

\* Which messages are passed on: those that were, and the one just handled.
LEMMA PassedChange ==
  ASSUME PassedInv, CommandInv, RequestInv, GatewayInv, [Next]_vars, NEW i
  PROVE  /\ Passed(i) => Passed(i)'
         /\ (\A c \in Conns : ~(HandleSend(c) /\ server[c].req = i)) => (Passed(i)' <=> Passed(i))
<1>1. ASSUME NEW c \in Conns, HandleSend(c)
      PROVE  Passed(i)' <=> Passed(i) \/ i = server[c].req
  <2>1. /\ Len(Executed) \in Nat /\ DOMAIN Executed = 1 .. Len(Executed)
        /\ DOMAIN Executed' = 1 .. Len(Executed) + 1
        /\ \A k \in DOMAIN Executed : Executed'[k] = Executed[k]
        /\ Executed'[Len(Executed) + 1].id = server[c].req
    BY <1>1, HandleSendStep
  <2>2. \A k : k \in DOMAIN Executed' <=> k \in DOMAIN Executed \/ k = Len(Executed) + 1
    BY <2>1
  <2>3. QED
    BY <2>1, <2>2 DEF Passed
<1>2. ASSUME Transmit PROVE Passed(i)' <=> Passed(i)
  <2>1. DOMAIN Executed' = DOMAIN Executed /\ \A k \in DOMAIN Executed : Executed'[k].id = Executed[k].id
    BY <1>2, TransmitStep
  <2>2. QED
    BY <2>1 DEF Passed
<1>3. ASSUME UNCHANGED outVars PROVE Passed(i)' <=> Passed(i)
  BY <1>3 DEF outVars, Passed, Executed
<1>4. QED
  BY <1>1, <1>2, <1>3, PassedSteps

\* The gateway of a group is the one its last datagram came from.
LEMMA GatewayStep ==
  ASSUME GatewayInv, [Next]_vars
  PROVE  GatewayInv'
<1>1. ASSUME NEW g \in Groups, NEW a \in Addrs, ReceiveMessage(g, a) \/ ReceiveOther(g, a)
      PROVE  GatewayInv'
  <2>1. groupMap' = [groupMap EXCEPT ![g] = a] /\ heard' = [heard EXCEPT ![g] = a]
    BY <1>1 DEF ReceiveMessage, ReceiveOther, Saved
  <2>2. QED
    BY <2>1 DEF GatewayInv
<1>2. ASSUME UNCHANGED <<groupMap, heard>> PROVE GatewayInv'
  BY <1>2 DEF GatewayInv
<1>3. ASSUME PushRecv \/ Mux \/ LogProcessor \/ DbProcessor \/ Transmit \/ LogFault \/ Midnight
      PROVE  UNCHANGED <<groupMap, heard>>
  BY <1>3 DEF PushRecv, Mux, MuxTake, MuxPush, LogProcessor, DbProcessor, Take, LogFinish,
              DbFinish, Finish, Transmit, LogFault, Midnight, counts
<1>4. ASSUME CmdNext PROVE UNCHANGED <<groupMap, heard>>
  BY <1>4, CommandsLeavePipeline
<1>5. ASSUME UNCHANGED vars PROVE UNCHANGED <<groupMap, heard>>
  BY <1>5 DEF vars, pipeVars, counts
<1>6. QED
  BY <1>1, <1>2, <1>3, <1>4, <1>5 DEF Next, PipeNext

-----------------------------------------------------------------------------
(* Requests: each is in one place.                                           *)

\* Nothing happens to connection c and its calls, but that its link may go down.
LEMMA RequestFrame ==
  ASSUME NEW c \in Conns, NEW i \in DOMAIN calls, RequestOK(c, i),
         main'[c] = main[c], server'[c] = server[c],
         calls[i].conn = c =>
           /\ i \in DOMAIN calls' /\ calls'[i].conn = c /\ calls'[i].op = calls[i].op
           /\ link'[c] # "down" => link[c] # "down" /\ calls'[i].result = calls[i].result
           /\ Passed(i)' <=> Passed(i)
  PROVE  RequestOK(c, i)'
<1>1. Unanswered(c, i) => Unanswered(c, i)' /\ (Passed(i)' <=> Passed(i)) /\ calls'[i].op = calls[i].op
  BY DEF Unanswered
<1>2. QED
  BY <1>1 DEF RequestOK

Safe == PassedInv /\ CommandInv /\ RequestInv /\ GatewayInv

\* A connection that a step leaves alone, but for its link that may go down.
LEMMA RequestsElsewhere ==
  ASSUME Safe, [Next]_vars, NEW d \in Conns, ~HandleSend(d),
         main'[d] = main[d], server'[d] = server[d],
         link'[d] # "down" => link[d] # "down",
         DOMAIN calls' = DOMAIN calls,
         \A i \in DOMAIN calls : calls[i].conn = d =>
           /\ calls'[i].conn = d /\ calls'[i].op = calls[i].op
           /\ link'[d] # "down" => calls'[i].result = calls[i].result
  PROVE  RequestsOf(d)'
<1>1. RequestsOf(d)
  BY DEF Safe, RequestInv
<1>2. ASSUME NEW i \in DOMAIN calls PROVE RequestOK(d, i)'
  <2>1. ASSUME calls[i].conn = d PROVE Passed(i)' <=> Passed(i)
    <3>1. ASSUME NEW c \in Conns, HandleSend(c) PROVE server[c].req # i
      BY <2>1, <3>1, HandleSendStep DEF Safe
    <3>2. QED
      BY <3>1, PassedChange DEF Safe
  <2>2. RequestOK(d, i)
    BY <1>1 DEF RequestsOf
  <2>3. QED
    BY <2>1, <2>2, RequestFrame
<1>3. QED
  BY <1>1, <1>2 DEF RequestsOf

\* The steps that concern neither a request nor a reply.
LEMMA RequestStepQuiet ==
  ASSUME Safe, [Next]_vars, UNCHANGED <<main, server, calls>>,
         \A c \in Conns : link'[c] # "down" => link[c] # "down"
  PROVE  RequestInv'
<1>1. ASSUME NEW d \in Conns PROVE RequestsOf(d)'
  <2>1. ~HandleSend(d)
    <3>1. SUFFICES ASSUME HandleSend(d) PROVE FALSE
      OBVIOUS
    <3>2. server[d].pc = "handle" /\ server' = [server EXCEPT ![d].pc = "reply"]
      BY <3>1 DEF HandleSend
    <3>3. server'[d].pc = "reply"
      BY <3>2 DEF Safe, CommandInv
    <3>4. QED
      BY <3>2, <3>3
  <2>2. QED
    BY <2>1, RequestsElsewhere
<1>2. QED
  BY <1>1 DEF RequestInv

\* Dial, Close, a broken link, the pinger.
LEMMA RequestStepConn ==
  ASSUME Safe, [Next]_vars, NEW c \in Conns,
         Dial(c) \/ Close(c) \/ CloseConn(c) \/ Break(c) \/ Pinger(c)
  PROVE  RequestInv'
<1>0. /\ CommandInv /\ RequestsOf(c)
      /\ link \in [Conns -> {"up", "eof", "down"}] /\ main \in [Conns -> Seq(Nat)]
      /\ main[c] \in Seq(Nat)
      /\ server \in [Conns -> [pc : {"none", "recv", "handle", "reply", "gone"}, req : Nat]]
  BY DEF Safe, CommandInv, RequestInv
<1>1. ASSUME Close(c) \/ CloseConn(c) \/ Break(c) \/ PingFail(c) PROVE RequestInv'
  <2>1. UNCHANGED <<main, server, calls>>
    BY <1>1 DEF Close, CloseConn, Break, PingFail
  <2>2. \A d \in Conns : link'[d] # "down" => link[d] # "down"
    BY <1>0, <1>1 DEF Close, Closing, CloseConn, Break, PingFail
  <2>3. QED
    BY <2>1, <2>2, RequestStepQuiet
<1>2. ASSUME Dial(c) PROVE RequestInv'
  <2>1. /\ main' = [main EXCEPT ![c] = <<0>>] /\ server' = [server EXCEPT ![c].pc = "recv"]
        /\ link' = [link EXCEPT ![c] = "up"] /\ calls' = calls /\ conn[c] = "none"
    BY <1>2 DEF Dial
  <2>2. server[c].pc = "none"
    BY <1>0, <2>1 DEF CommandInv
  <2>3. server[c].req = 0 /\ server'[c].req = 0 /\ 0 \notin DOMAIN calls
    BY <1>0, <2>1, <2>2 DEF RequestsOf, CommandInv
  <2>4. main'[c] = <<0>> /\ \A k \in DOMAIN main'[c] : main'[c][k] = 0
    BY <1>0, <2>1
  <2>5. RequestsOf(c)'
    BY <2>1, <2>3, <2>4 DEF RequestsOf, RequestOK
  <2>6. ASSUME NEW d \in Conns, d # c PROVE RequestsOf(d)'
    <3>1. ~HandleSend(d)
      <4>1. server'[d] = server[d]
        BY <1>0, <2>1, <2>6
      <4>2. HandleSend(d) => server'[d].pc = "reply" /\ server[d].pc = "handle"
        BY <1>0 DEF HandleSend
      <4>3. QED
        BY <4>1, <4>2
    <3>2. QED
      BY <1>0, <2>1, <2>6, <3>1, RequestsElsewhere
  <2>7. QED
    BY <2>5, <2>6 DEF RequestInv
<1>3. ASSUME PingSend(c) PROVE RequestInv'
  <2>1. main' = [main EXCEPT ![c] = Append(@, 0)] /\ UNCHANGED <<server, calls, link, pipeVars>>
    BY <1>3 DEF PingSend
  <2>2. /\ main'[c] = Append(main[c], 0) /\ Len(main[c]) \in Nat
        /\ DOMAIN main[c] = 1 .. Len(main[c]) /\ DOMAIN main'[c] = 1 .. Len(main[c]) + 1
        /\ \A k \in DOMAIN main[c] : main'[c][k] = main[c][k]
        /\ main'[c][Len(main[c]) + 1] = 0
    BY <1>0, <2>1
  <2>3. 0 \notin DOMAIN calls
    BY <1>0 DEF CommandInv
  <2>4. ASSUME NEW i \in DOMAIN calls PROVE RequestOK(c, i)'
    <3>1. RequestOK(c, i) /\ i # 0
      BY <1>0, <2>3, <2>4 DEF RequestsOf
    <3>2. \A k \in DOMAIN main'[c] : main'[c][k] = i => k \in DOMAIN main[c] /\ main[c][k] = i
      BY <2>2, <3>1
    <3>3. (Passed(i)' <=> Passed(i)) /\ (Unanswered(c, i)' <=> Unanswered(c, i))
      BY <2>1 DEF pipeVars, outVars, Passed, Executed, Unanswered
    <3>4. QED
      BY <2>1, <3>1, <3>2, <3>3 DEF RequestOK
  <2>5. \A k \in DOMAIN main'[c] : main'[c][k] \in DOMAIN calls \cup {0}
    BY <1>0, <2>2 DEF RequestsOf
  <2>6. RequestsOf(c)'
    BY <1>0, <2>1, <2>4, <2>5 DEF RequestsOf
  <2>7. ASSUME NEW d \in Conns, d # c PROVE RequestsOf(d)'
    <3>1. ~HandleSend(d)
      <4>1. HandleSend(d) => server'[d].pc = "reply" /\ server[d].pc = "handle"
        BY <1>0 DEF HandleSend
      <4>2. QED
        BY <2>1, <4>1
    <3>2. QED
      BY <1>0, <2>1, <2>7, <3>1, RequestsElsewhere
  <2>8. QED
    BY <2>6, <2>7 DEF RequestInv
<1>4. QED
  BY <1>1, <1>2, <1>3 DEF Pinger

\* A new call: nothing knows its number yet.
LEMMA RequestStepCall ==
  ASSUME Safe, [Next]_vars, NEW c \in Conns, NEW op \in Ops, NEW g \in Groups, Call(c, op, g)
  PROVE  RequestInv'
<1> DEFINE e == [conn |-> c, op |-> op, group |-> g, after |-> Returned, result |-> None]
<1>0. SUFFICES ASSUME NEW new, new = Len(calls) + 1 PROVE RequestInv'
  OBVIOUS
<1>1. /\ calls' = Append(calls, e) /\ UNCHANGED <<link, server, outVars>>
      /\ main' = [main EXCEPT ![c] = IF link[c] = "up" THEN Append(@, new) ELSE @]
  BY <1>0 DEF Call
<1>2. e \in AnyCall
  <2>1. Returned \subseteq Nat
    BY DEF Safe, CommandInv, Returned
  <2>2. QED
    BY <2>1 DEF AnyCall
<1>3. /\ Len(calls) \in Nat /\ DOMAIN calls = 1 .. Len(calls) /\ DOMAIN calls' = 1 .. new
      /\ calls'[new].conn = c /\ calls'[new].result = None /\ calls'[new].op = op
      /\ \A i \in DOMAIN calls : i \in DOMAIN calls' /\ calls'[i] = calls[i]
      /\ main \in [Conns -> Seq(Nat)]
  BY <1>0, <1>1, <1>2, AddCall DEF Safe, CommandInv
<1> HIDE DEF e
<1>4. /\ new \notin DOMAIN calls /\ new \in DOMAIN calls' /\ new # 0
      /\ \A i \in DOMAIN calls' : i \in DOMAIN calls \/ i = new
  BY <1>0, <1>3
<1>5. \A i : Passed(i)' <=> Passed(i)
  BY <1>1 DEF outVars, Passed, Executed
<1>6. ~Passed(new)
  BY <1>4 DEF Safe, PassedInv, Passed
<1>7. ASSUME NEW d \in Conns, NEW i \in DOMAIN calls PROVE Unanswered(d, i)' <=> Unanswered(d, i)
  BY <1>1, <1>3 DEF Unanswered
<1>8. ASSUME NEW d \in Conns, d # c \/ link[c] # "up" PROVE RequestsOf(d)'
  <2>1. main'[d] = main[d] /\ RequestsOf(d)
    BY <1>1, <1>3, <1>8 DEF Safe, RequestInv
  <2>2. ASSUME NEW i \in DOMAIN calls PROVE RequestOK(d, i)'
    <3>1. RequestOK(d, i)
      BY <2>1 DEF RequestsOf
    <3>2. QED
      BY <1>1, <1>3, <1>5, <2>1, <3>1, RequestFrame
  <2>3. RequestOK(d, new)'
    <3>1. (\A k \in DOMAIN main[d] : main[d][k] # new) /\ server[d].req # new
      BY <1>4, <2>1 DEF RequestsOf
    <3>2. (\A k \in DOMAIN main'[d] : main'[d][k] # new) /\ server'[d].req # new
      BY <1>1, <2>1, <3>1
    <3>3. QED
      BY <3>2 DEF RequestOK
  <2>4. QED
    BY <1>1, <1>4, <2>1, <2>2, <2>3 DEF RequestsOf
<1>9. CASE link[c] = "up"
  <2>1. main'[c] = Append(main[c], new) /\ main[c] \in Seq(Nat) /\ new \in Nat /\ RequestsOf(c)
    BY <1>0, <1>1, <1>3, <1>9 DEF Safe, RequestInv
  <2>2. /\ Len(main[c]) \in Nat /\ DOMAIN main[c] = 1 .. Len(main[c])
        /\ DOMAIN main'[c] = 1 .. Len(main[c]) + 1
        /\ \A k \in DOMAIN main[c] : main'[c][k] = main[c][k]
        /\ main'[c][Len(main[c]) + 1] = new
    BY <2>1
  <2>3. \A k \in DOMAIN main[c] : main[c][k] # new
    BY <1>4, <2>1 DEF RequestsOf
  <2>4. \A k \in DOMAIN main'[c] : k \in DOMAIN main[c] \/ k = Len(main[c]) + 1
    BY <2>2
  <2>5. ASSUME NEW i \in DOMAIN calls PROVE RequestOK(c, i)'
    <3>1. RequestOK(c, i) /\ i # new
      BY <1>4, <2>1 DEF RequestsOf
    <3>2. \A k \in DOMAIN main'[c] : main'[c][k] = i => k \in DOMAIN main[c] /\ main[c][k] = i
      BY <2>2, <2>4, <3>1
    <3>3. calls'[i] = calls[i]
      BY <1>3
    <3>4. QED
      BY <1>1, <1>5, <1>7, <3>1, <3>2, <3>3 DEF RequestOK
  <2>6. RequestOK(c, new)'
    <3>1. Unanswered(c, new)' /\ ~Passed(new)' /\ server'[c].req # new
      BY <1>1, <1>3, <1>4, <1>5, <1>6, <2>1 DEF Unanswered, RequestsOf
    <3>2. \A k \in DOMAIN main'[c] : main'[c][k] = new => k = Len(main[c]) + 1
      BY <2>2, <2>3, <2>4
    <3>3. QED
      BY <3>1, <3>2 DEF RequestOK
  <2>7. \A k \in DOMAIN main'[c] : main'[c][k] \in DOMAIN calls' \cup {0}
    BY <1>3, <1>4, <2>1, <2>2, <2>4 DEF RequestsOf
  <2>8. RequestsOf(c)'
    BY <1>1, <1>3, <1>4, <2>1, <2>5, <2>6, <2>7 DEF RequestsOf
  <2>9. QED
    BY <1>8, <2>8 DEF RequestInv
<1>10. QED
  BY <1>8, <1>9 DEF RequestInv

\* An error ends a call; the flows of subscriptions and pushes.
LEMMA RequestStepFlow ==
  ASSUME Safe, [Next]_vars, NEW i \in DOMAIN calls,
         Fail(i) \/ Flow(i) \/ PushPut(i) \/ PushClose(i)
  PROVE  RequestInv'
<1>1. ASSUME Fail(i) PROVE RequestInv'
  <2>1. /\ calls' = [calls EXCEPT ![i].result = "error"] /\ link[calls[i].conn] = "down"
        /\ UNCHANGED <<link, main, server, outVars>>
    BY <1>1 DEF Fail, pipeVars
  <2>2. /\ DOMAIN calls' = DOMAIN calls
        /\ \A j \in DOMAIN calls :
              /\ calls'[j].conn = calls[j].conn /\ calls'[j].op = calls[j].op
              /\ j # i => calls'[j].result = calls[j].result
    BY <2>1, SetResult DEF Safe
  <2>3. \A j : Passed(j)' <=> Passed(j)
    BY <2>1 DEF outVars, Passed, Executed
  <2>4. ASSUME NEW d \in Conns, NEW j \in DOMAIN calls PROVE RequestOK(d, j)'
    <3>1. RequestOK(d, j)
      BY DEF Safe, RequestInv, RequestsOf
    <3>2. QED
      BY <2>1, <2>2, <2>3, <3>1, RequestFrame
  <2>5. QED
    BY <2>1, <2>2, <2>4 DEF Safe, RequestInv, RequestsOf
<1>2. ASSUME Flow(i) \/ PushPut(i) \/ PushClose(i) PROVE RequestInv'
  <2>1. UNCHANGED <<main, server, calls, link>>
    BY <1>2 DEF Flow, StreamRecv, StreamTake, PushSend, PushPut, PushClose
  <2>2. QED
    BY <2>1, RequestStepQuiet
<1>3. QED
  BY <1>1, <1>2

\* The goroutine of connection c gets a request, handles it, answers it, or ends.
LEMMA RequestStepServer ==
  ASSUME Safe, [Next]_vars, NEW c \in Conns, Server(c)
  PROVE  RequestInv'
<1>0. /\ CommandInv /\ RequestsOf(c) /\ main \in [Conns -> Seq(Nat)] /\ main[c] \in Seq(Nat)
      /\ link \in [Conns -> {"up", "eof", "down"}]
      /\ server \in [Conns -> [pc : {"none", "recv", "handle", "reply", "gone"}, req : Nat]]
      /\ server[c] \in [pc : {"none", "recv", "handle", "reply", "gone"}, req : Nat]
      /\ 0 \notin DOMAIN calls
  BY DEF Safe, CommandInv, RequestInv
<1>1. ASSUME NEW d \in Conns, d # c
      PROVE  /\ main'[d] = main[d] /\ server'[d] = server[d] /\ link'[d] = link[d]
             /\ ~HandleSend(d)
  <2>1. main'[d] = main[d] /\ server'[d] = server[d] /\ link'[d] = link[d]
    BY <1>0, <1>1 DEF Server, ServerReceive, ServerEnd, HandleSend, HandleOther, SendReply,
                      LoseReply, Serve
  <2>2. HandleSend(d) => server'[d].pc = "reply" /\ server[d].pc = "handle"
    BY <1>0 DEF HandleSend
  <2>3. QED
    BY <2>1, <2>2
<1>2. ASSUME DOMAIN calls' = DOMAIN calls, RequestsOf(c)',
             \A i \in DOMAIN calls : calls[i].conn # c =>
               /\ calls'[i].conn = calls[i].conn /\ calls'[i].op = calls[i].op
               /\ calls'[i].result = calls[i].result
      PROVE  RequestInv'
  <2>1. ASSUME NEW d \in Conns, d # c PROVE RequestsOf(d)'
    BY <1>1, <1>2, <2>1, RequestsElsewhere
  <2>2. QED
    BY <1>2, <2>1 DEF RequestInv
<1>3. ASSUME ServerReceive(c) PROVE RequestInv'
  <2>1. /\ server[c].pc = "recv" /\ main[c] # <<>> /\ main' = [main EXCEPT ![c] = Tail(@)]
        /\ server' = [server EXCEPT ![c] = [pc |-> "handle", req |-> Head(main[c])]]
        /\ UNCHANGED <<calls, link, outVars>>
    BY <1>3 DEF ServerReceive, Serve, pipeVars
  <2>2. /\ Len(main[c]) \in Nat \ {0} /\ DOMAIN main[c] = 1 .. Len(main[c])
        /\ main'[c] = Tail(main[c]) /\ DOMAIN main'[c] = 1 .. Len(main[c]) - 1
        /\ \A k \in 1 .. Len(main[c]) - 1 : main'[c][k] = main[c][k + 1]
        /\ server'[c].req = main[c][1] /\ server'[c].pc = "handle"
    BY <1>0, <2>1, HeadTailProperties
  <2>3. /\ 1 \in DOMAIN main[c]
        /\ \A k \in DOMAIN main'[c] : k + 1 \in DOMAIN main[c] /\ k + 1 # 1 /\ main'[c][k] = main[c][k + 1]
    BY <2>2
  <2>4. \A i : (Passed(i)' <=> Passed(i)) /\ (Unanswered(c, i)' <=> Unanswered(c, i))
    BY <2>1 DEF outVars, Passed, Executed, Unanswered
  <2>5. ASSUME NEW i \in DOMAIN calls PROVE RequestOK(c, i)'
    <3>1. RequestOK(c, i) /\ server[c].req = 0
      BY <1>0, <2>1 DEF RequestsOf
    <3>2. server'[c].req = i => Unanswered(c, i) /\ ~Passed(i)
      BY <2>2, <2>3, <3>1 DEF RequestOK
    <3>3. ASSUME NEW k \in DOMAIN main'[c], main'[c][k] = i
          PROVE  /\ Unanswered(c, i) /\ ~Passed(i) /\ server'[c].req # i
      BY <2>2, <2>3, <3>1, <3>3 DEF RequestOK
    <3>4. ASSUME NEW k \in DOMAIN main'[c], NEW l \in DOMAIN main'[c],
                 main'[c][k] = i, main'[c][l] = i
          PROVE  k = l
      <4>1. k + 1 = l + 1
        BY <2>3, <3>1, <3>4 DEF RequestOK
      <4>2. QED
        BY <2>2, <4>1
    <3>5. QED
      BY <2>2, <2>4, <3>2, <3>3, <3>4 DEF RequestOK
  <2>6. RequestsOf(c)'
    BY <1>0, <2>1, <2>2, <2>3, <2>5 DEF RequestsOf
  <2>7. QED
    BY <1>2, <2>1, <2>6
<1>4. ASSUME ServerEnd(c) \/ LoseReply(c) PROVE RequestInv'
  <2>1. /\ server'[c].req = 0 /\ server'[c].pc \in {"recv", "gone"}
        /\ main'[c] = main[c] \/ main'[c] = <<>>
        /\ link'[c] = "down" /\ UNCHANGED <<calls, outVars>>
    <3>1. ServerEnd(c) => link'[c] = "down"
      BY <1>0 DEF ServerEnd
    <3>2. LoseReply(c) => link'[c] = "down"
      BY DEF LoseReply
    <3>3. ServerEnd(c) => server'[c].req = 0 /\ server'[c].pc \in {"recv", "gone"} /\ main'[c] = <<>>
      BY <1>0 DEF ServerEnd, Serve
    <3>4. LoseReply(c) => /\ server'[c].req = 0 /\ server'[c].pc \in {"recv", "gone"}
                          /\ main'[c] = main[c] \/ main'[c] = <<>>
      BY <1>0 DEF LoseReply, Serve
    <3>5. UNCHANGED <<calls, outVars>>
      BY <1>4 DEF ServerEnd, LoseReply, pipeVars
    <3>6. QED
      BY <1>4, <3>1, <3>2, <3>3, <3>4, <3>5
  <2>2. \A i : (Passed(i)' <=> Passed(i)) /\ (Unanswered(c, i) => Unanswered(c, i)')
    BY <2>1 DEF outVars, Passed, Executed, Unanswered
  <2>3. \A k \in DOMAIN main'[c] : k \in DOMAIN main[c] /\ main'[c][k] = main[c][k]
    BY <2>1
  <2>4. ASSUME NEW i \in DOMAIN calls PROVE RequestOK(c, i)'
    <3>1. RequestOK(c, i) /\ i # 0
      BY <1>0 DEF RequestsOf
    <3>2. QED
      BY <2>1, <2>2, <2>3, <3>1 DEF RequestOK
  <2>5. RequestsOf(c)'
    BY <1>0, <2>1, <2>3, <2>4 DEF RequestsOf
  <2>6. QED
    BY <1>2, <2>1, <2>5
<1>5. ASSUME HandleSend(c) \/ HandleOther(c) PROVE RequestInv'
  <2>1. /\ server[c].pc = "handle" /\ server'[c].pc = "reply" /\ server'[c].req = server[c].req
        /\ UNCHANGED <<calls, link, main>>
    BY <1>0, <1>5 DEF HandleSend, HandleOther
  <2>2. \A i : Unanswered(c, i)' <=> Unanswered(c, i)
    BY <2>1 DEF Unanswered
  <2>3. ASSUME NEW i \in DOMAIN calls PROVE RequestOK(c, i)'
    <3>1. RequestOK(c, i) /\ i # 0
      BY <1>0 DEF RequestsOf
    <3>2. CASE server[c].req # i
      <4>1. Passed(i)' <=> Passed(i)
        <5>1. \A d \in Conns : ~(HandleSend(d) /\ server[d].req = i)
          BY <1>1, <3>2
        <5>2. QED
          BY <5>1, PassedChange DEF Safe
      <4>2. QED
        BY <2>1, <2>2, <3>1, <3>2, <4>1 DEF RequestOK
    <3>3. CASE server[c].req = i
      <4>1. calls[i].op = "send" => Passed(i)'
        <5>1. calls[i].op = "send" => HandleSend(c)
          BY <1>5, <3>1, <3>3 DEF HandleOther, IsSend
        <5>2. ASSUME HandleSend(c) PROVE Passed(i)'
          <6>1. /\ Len(Executed) \in Nat /\ DOMAIN Executed' = 1 .. Len(Executed) + 1
                /\ Executed'[Len(Executed) + 1].id = i
            BY <3>3, <5>2, HandleSendStep DEF Safe
          <6>2. Len(Executed) + 1 \in DOMAIN Executed'
            BY <6>1
          <6>3. QED
            BY <6>1, <6>2 DEF Passed
        <5>3. QED
          BY <5>1, <5>2
      <4>2. QED
        BY <2>1, <2>2, <3>1, <3>3, <4>1 DEF RequestOK
    <3>4. QED
      BY <3>2, <3>3
  <2>4. RequestsOf(c)'
    BY <1>0, <2>1, <2>3 DEF RequestsOf
  <2>5. QED
    BY <1>2, <2>1, <2>4
<1>6. ASSUME SendReply(c) PROVE RequestInv'
  <2> DEFINE r == server[c].req
  <2>1. /\ server'[c].req = 0 /\ server'[c].pc = "recv" /\ server[c].pc = "reply"
        /\ UNCHANGED <<main, link, outVars>> /\ link[c] # "down"
        /\ r = 0 => calls' = calls
        /\ r # 0 => calls' = [calls EXCEPT ![r].result = Answer(r)]
    BY <1>0, <1>6 DEF SendReply, Serve, pipeVars
  <2>2. \A i : Passed(i)' <=> Passed(i)
    BY <2>1 DEF outVars, Passed, Executed
  <2>3. /\ DOMAIN calls' = DOMAIN calls
        /\ \A j \in DOMAIN calls :
             /\ calls'[j].conn = calls[j].conn /\ calls'[j].op = calls[j].op
             /\ j # r => calls'[j].result = calls[j].result
    <3>1. CASE r = 0
      BY <2>1, <3>1
    <3>2. CASE r # 0
      <4>1. PICK i \in DOMAIN calls, res \in {"ok", "error"} : i = r /\ res = Answer(r)
        BY <1>0, <3>2 DEF RequestsOf, Answer
      <4>2. calls' = [calls EXCEPT ![i].result = res]
        BY <2>1, <3>2, <4>1
      <4> HIDE DEF r
      <4>3. QED
        BY <1>0, <4>1, <4>2, SetResult
    <3>3. QED
      BY <3>1, <3>2
  <2>4. r # 0 => r \in DOMAIN calls /\ calls[r].conn = c
    BY <1>0 DEF RequestsOf, RequestOK, Unanswered
  <2>5. ASSUME NEW i \in DOMAIN calls PROVE RequestOK(c, i)'
    <3>1. RequestOK(c, i) /\ i # 0
      BY <1>0 DEF RequestsOf
    <3>2. ASSUME NEW k \in DOMAIN main[c], main[c][k] = i
          PROVE  Unanswered(c, i)' /\ ~Passed(i)'
      <4>1. Unanswered(c, i) /\ ~Passed(i) /\ i # r
        BY <3>1, <3>2 DEF RequestOK
      <4>2. QED
        BY <2>1, <2>2, <2>3, <4>1 DEF Unanswered
    <3>3. QED
      BY <2>1, <3>1, <3>2 DEF RequestOK
  <2>6. RequestsOf(c)'
    BY <1>0, <2>1, <2>3, <2>5 DEF RequestsOf
  <2>7. QED
    BY <1>0, <1>2, <2>3, <2>4, <2>6
<1>7. QED
  BY <1>3, <1>4, <1>5, <1>6 DEF Server

LEMMA RequestStep ==
  ASSUME Safe, [Next]_vars
  PROVE  RequestInv'
<1>1. ASSUME PipeNext, UNCHANGED cmdVars PROVE RequestInv'
  <2>1. UNCHANGED <<main, server, calls, link>>
    BY <1>1 DEF cmdVars
  <2>2. QED
    BY <2>1, RequestStepQuiet
<1>2. ASSUME UNCHANGED vars PROVE RequestInv'
  <2>1. UNCHANGED <<main, server, calls, link>>
    BY <1>2 DEF vars, cmdVars
  <2>2. QED
    BY <2>1, RequestStepQuiet
<1>3. QED
  BY <1>1, <1>2, RequestStepConn, RequestStepCall, RequestStepFlow, RequestStepServer
     DEF Next, CmdNext

-----------------------------------------------------------------------------
(* RFSend executes a call once, in order, and before it says so.             *)

\* What a step does to the messages passed on: at most one more, of a call of
\* RFSend that was not passed on before.
LEMMA ExecutedChange ==
  ASSUME Safe, [Next]_vars
  PROVE  \E n \in Nat :
           /\ DOMAIN Executed = 1 .. n
           /\ \A k \in 1 .. n : Executed'[k].id = Executed[k].id
           /\ \/ DOMAIN Executed' = 1 .. n
              \/ /\ DOMAIN Executed' = 1 .. n + 1
                 /\ \E r \in DOMAIN calls :
                      Executed'[n + 1].id = r /\ calls[r].op = "send" /\ ~Passed(r)
<1> DEFINE n == Len(sent) + Len(xmit)
<1>1. n \in Nat /\ DOMAIN Executed = 1 .. n /\ Len(Executed) = n
  BY ExecutedIs DEF Safe
<1>2. ASSUME NEW c \in Conns, HandleSend(c)
      PROVE  /\ DOMAIN Executed' = 1 .. n + 1
             /\ \A k \in 1 .. n : Executed'[k].id = Executed[k].id
             /\ \E r \in DOMAIN calls :
                  Executed'[n + 1].id = r /\ calls[r].op = "send" /\ ~Passed(r)
  BY <1>1, <1>2, HandleSendStep DEF Safe
<1>3. ASSUME Transmit
      PROVE  /\ DOMAIN Executed' = 1 .. n
             /\ \A k \in 1 .. n : Executed'[k].id = Executed[k].id
  BY <1>1, <1>3, TransmitStep DEF Safe
<1>4. ASSUME UNCHANGED outVars
      PROVE  /\ DOMAIN Executed' = 1 .. n
             /\ \A k \in 1 .. n : Executed'[k].id = Executed[k].id
  BY <1>1, <1>4 DEF outVars, Executed
<1> HIDE DEF n
<1>5. QED
  BY <1>1, <1>2, <1>3, <1>4, PassedSteps

\* The types of the channel and of what was sent, and the capacity.
LEMMA PassedTypes ==
  ASSUME Safe, [Next]_vars
  PROVE  /\ xmit' \in Seq(XmitRecord) /\ Len(xmit') <= XmitCap
         /\ sent' \in Seq(SentRecord)
<1>1. /\ xmit \in Seq(XmitRecord) /\ sent \in Seq(SentRecord) /\ Len(xmit) \in Nat
      /\ Len(xmit) <= XmitCap /\ XmitCap \in Nat
  BY ExecutedIs, PipelineAssumption DEF Safe, PassedInv
<1>2. ASSUME NEW c \in Conns, HandleSend(c)
      PROVE  /\ xmit' \in Seq(XmitRecord) /\ Len(xmit') <= XmitCap /\ sent' \in Seq(SentRecord)
  <2>1. xmit' \in Seq(XmitRecord) /\ Len(xmit') = Len(xmit) + 1 /\ sent' = sent
    BY <1>2, HandleSendStep DEF Safe
  <2>2. Len(xmit) < XmitCap
    BY <1>2 DEF HandleSend
  <2>3. QED
    BY <1>1, <2>1, <2>2
<1>3. ASSUME Transmit
      PROVE  /\ xmit' \in Seq(XmitRecord) /\ Len(xmit') <= XmitCap /\ sent' \in Seq(SentRecord)
  BY <1>1, <1>3, TransmitStep DEF Safe
<1>4. QED
  BY <1>1, <1>2, <1>3, PassedSteps DEF outVars

\* What a step does to the calls: at most one more, and a result is for good.
LEMMA CallsChange ==
  ASSUME Safe, [Next]_vars
  PROVE  /\ \A i \in DOMAIN calls :
              /\ i \in DOMAIN calls'
              /\ calls'[i].op = calls[i].op /\ calls'[i].after = calls[i].after
              /\ calls[i].result # None => calls'[i].result = calls[i].result
              /\ calls'[i].op = "send" /\ calls'[i].result = "ok" => Passed(i)'
         /\ \A i \in DOMAIN calls' :
              i \in DOMAIN calls \/ (calls'[i].after = Returned /\ calls'[i].result = None)
<1> DEFINE Goal ==
      /\ \A i \in DOMAIN calls :
           /\ i \in DOMAIN calls'
           /\ calls'[i].op = calls[i].op /\ calls'[i].after = calls[i].after
           /\ calls[i].result # None => calls'[i].result = calls[i].result
           /\ calls'[i].op = "send" /\ calls'[i].result = "ok" => Passed(i)'
      /\ \A i \in DOMAIN calls' :
           i \in DOMAIN calls \/ (calls'[i].after = Returned /\ calls'[i].result = None)
<1>0. SUFFICES Goal
  OBVIOUS
<1>1. ASSUME NEW i \in DOMAIN calls, calls[i].op = "send", calls[i].result = "ok" PROVE Passed(i)'
  BY <1>1, PassedChange DEF Safe, PassedInv
<1>2. ASSUME calls' = calls PROVE Goal
  BY <1>1, <1>2
<1>3. ASSUME NEW c \in Conns, NEW op \in Ops, NEW g \in Groups, Call(c, op, g) PROVE Goal
  <2> DEFINE e == [conn |-> c, op |-> op, group |-> g, after |-> Returned, result |-> None]
  <2>1. e \in AnyCall /\ calls' = Append(calls, e) /\ e.after = Returned /\ e.result = None
    <3>1. Returned \subseteq Nat
      BY DEF Safe, CommandInv, Returned
    <3>2. QED
      BY <1>3, <3>1 DEF AnyCall, Call
  <2> HIDE DEF e
  <2>2. /\ Len(calls) \in Nat /\ DOMAIN calls = 1 .. Len(calls) /\ DOMAIN calls' = 1 .. Len(calls) + 1
        /\ calls'[Len(calls) + 1] = e
        /\ \A j \in DOMAIN calls : j \in DOMAIN calls' /\ calls'[j] = calls[j]
    BY <2>1, AddCall DEF Safe
  <2>3. \A j \in DOMAIN calls' : j \in DOMAIN calls \/ j = Len(calls) + 1
    BY <2>2
  <2>4. QED
    BY <1>1, <2>1, <2>2, <2>3
<1>4. ASSUME NEW i \in DOMAIN calls, NEW res \in {"ok", "error"}, calls[i].result = None,
             calls' = [calls EXCEPT ![i].result = res],
             res = "ok" /\ calls[i].op = "send" => Passed(i)'
      PROVE  Goal
  <2>1. /\ DOMAIN calls' = DOMAIN calls
        /\ \A j \in DOMAIN calls :
              /\ calls'[j].op = calls[j].op /\ calls'[j].after = calls[j].after
              /\ calls'[j].result = IF j = i THEN res ELSE calls[j].result
    BY <1>4, SetResult DEF Safe
  <2>2. ASSUME NEW j \in DOMAIN calls, calls'[j].op = "send", calls'[j].result = "ok"
        PROVE  Passed(j)'
    BY <1>1, <1>4, <2>1, <2>2
  <2>3. QED
    BY <1>4, <2>1, <2>2
<1>5. ASSUME NEW i \in DOMAIN calls, Fail(i) PROVE Goal
  BY <1>4, <1>5 DEF Fail
<1>6. ASSUME NEW c \in Conns, SendReply(c) PROVE Goal
  <2>0. SUFFICES ASSUME NEW r, r = server[c].req PROVE Goal
    OBVIOUS
  <2>1. CASE r = 0
    BY <1>2, <1>6, <2>0, <2>1 DEF SendReply
  <2>2. CASE r # 0
    <3>1. /\ r \in DOMAIN calls /\ server[c].pc = "reply" /\ link[c] # "down"
          /\ calls' = [calls EXCEPT ![r].result = Answer(r)] /\ Answer(r) \in {"ok", "error"}
          /\ calls[r].result = None
          /\ calls[r].op = "send" => Passed(r)
      BY <1>6, <2>0, <2>2 DEF SendReply, Answer, Safe, RequestInv, RequestsOf, RequestOK, Unanswered
    <3>2. calls[r].op = "send" => Passed(r)'
      BY <3>1, PassedChange DEF Safe
    <3>3. QED
      BY <1>4, <3>1, <3>2
  <2>3. QED
    BY <2>1, <2>2
<1> HIDE DEF Goal
<1>7. ASSUME NEW c \in Conns, Dial(c) \/ Close(c) \/ CloseConn(c) \/ Break(c) \/ Pinger(c)
      PROVE  calls' = calls
  BY <1>7 DEF Dial, Close, CloseConn, Break, Pinger, PingSend, PingFail
<1>8. ASSUME NEW c \in Conns, Server(c), ~SendReply(c) PROVE calls' = calls
  BY <1>8 DEF Server, ServerReceive, ServerEnd, HandleSend, HandleOther, LoseReply
<1>9. ASSUME NEW i \in DOMAIN calls, Flow(i) \/ PushPut(i) \/ PushClose(i) PROVE calls' = calls
  BY <1>9 DEF Flow, StreamRecv, StreamTake, PushSend, PushPut, PushClose
<1>10. ASSUME UNCHANGED vars \/ UNCHANGED cmdVars PROVE calls' = calls
  BY <1>10 DEF vars, cmdVars
<1>11. QED
  BY <1>2, <1>3, <1>5, <1>6, <1>7, <1>8, <1>9, <1>10 DEF Next, CmdNext

LEMMA PassedStep ==
  ASSUME Safe, [Next]_vars
  PROVE  PassedInv'
<1>1. PICK n \in Nat :
        /\ DOMAIN Executed = 1 .. n
        /\ \A k \in 1 .. n : Executed'[k].id = Executed[k].id
        /\ \/ DOMAIN Executed' = 1 .. n
           \/ /\ DOMAIN Executed' = 1 .. n + 1
              /\ \E r \in DOMAIN calls :
                   Executed'[n + 1].id = r /\ calls[r].op = "send" /\ ~Passed(r)
  BY ExecutedChange
<1>2. /\ \A k \in 1 .. n : Executed'[k].id = Executed[k].id /\ k \in DOMAIN Executed /\ k < n + 1
      /\ \A k \in DOMAIN Executed' :
           k \in 1 .. n
             \/ (k = n + 1 /\ Executed'[k].id \in DOMAIN calls
                   /\ calls[Executed'[k].id].op = "send" /\ ~Passed(Executed'[k].id))
  BY <1>1
<1>3. PassedInv
  BY DEF Safe
<1>4. ASSUME NEW k \in DOMAIN Executed'
      PROVE  Executed'[k].id \in DOMAIN calls' /\ calls'[Executed'[k].id].op = "send"
  <2>1. Executed'[k].id \in DOMAIN calls /\ calls[Executed'[k].id].op = "send"
    BY <1>2, <1>3 DEF PassedInv
  <2>2. QED
    BY <2>1, CallsChange
<1>5. ASSUME NEW k \in DOMAIN Executed', NEW l \in DOMAIN Executed', Executed'[l].id = Executed'[k].id
      PROVE  l = k
  <2>1. ASSUME NEW i \in 1 .. n PROVE Executed[i].id = Executed'[i].id /\ Passed(Executed'[i].id)
    BY <1>2 DEF Passed
  <2>2. QED
    BY <1>2, <1>3, <1>5, <2>1 DEF PassedInv
<1>6. ASSUME NEW i \in DOMAIN calls', calls'[i].op = "send", calls'[i].result = "ok"
      PROVE  Passed(i)'
  BY <1>6, CallsChange, CommandsAssumption
<1>7. ASSUME NEW i \in DOMAIN calls', NEW j \in calls'[i].after
      PROVE  j \in DOMAIN calls /\ calls[j].result # None
  BY <1>3, <1>7, CallsChange DEF PassedInv, Returned
<1>8. ASSUME NEW i \in DOMAIN calls', NEW j \in calls'[i].after, calls'[j].result = "ok",
             NEW k \in DOMAIN Executed', NEW l \in DOMAIN Executed',
             Executed'[k].id = i, Executed'[l].id = j
      PROVE  l < k
  <2>1. calls[j].result = "ok" /\ j \in DOMAIN calls
    BY <1>7, <1>8, CallsChange
  <2>2. calls[j].op = "send" => Passed(j)
    BY <1>3, <2>1 DEF PassedInv
  <2>3. l \in 1 .. n
    BY <1>2, <1>8, <2>2
  <2>4. i \in DOMAIN calls
    BY <1>2, <1>3, <1>8 DEF PassedInv
  <2>5. CASE k \in 1 .. n
    <3>1. j \in calls[i].after /\ Executed[k].id = i /\ Executed[l].id = j
      BY <1>2, <1>8, <2>3, <2>4, <2>5, CallsChange
    <3>2. QED
      BY <1>2, <1>3, <2>1, <2>3, <2>4, <2>5, <3>1 DEF PassedInv
  <2>6. CASE k = n + 1
    BY <2>3, <2>6
  <2>7. QED
    BY <1>2, <2>5, <2>6
<1>9. ASSUME NEW i \in DOMAIN calls', NEW j \in calls'[i].after
      PROVE  j \in DOMAIN calls' /\ calls'[j].result # None
  BY <1>7, <1>9, CallsChange
<1>10. QED
  BY <1>4, <1>5, <1>6, <1>8, <1>9, PassedTypes DEF PassedInv, XmitRecord, SentRecord

LEMMA SafeInit == Init => Safe
<1>1. SUFFICES ASSUME Init PROVE Safe
  OBVIOUS
<1>2. /\ xmit = <<>> /\ sent = <<>> /\ calls = <<>> /\ flow = <<>> /\ buf = <<>>
      /\ DOMAIN calls = {} /\ Len(calls) = 0
  BY <1>1 DEF Init, PipeInit, CmdInit
<1>3. PassedInv
  <2>1. /\ xmit \in Seq(XmitRecord) /\ sent \in Seq(SentRecord) /\ Len(xmit) = 0
        /\ Executed = <<>> /\ DOMAIN Executed = {}
    BY <1>2 DEF Executed
  <2>2. QED
    BY <1>2, <2>1, PipelineAssumption DEF PassedInv, XmitRecord, SentRecord
<1>4. CommandInv
  <2>1. main \in [Conns -> Seq(Nat)]
    BY <1>1 DEF Init, CmdInit
  <2>2. /\ calls \in Seq(AnyCall) /\ buf \in Seq(0 .. PushCap)
        /\ flow \in Seq({None, "on", "hold", "closing", "end"})
        /\ Len(flow) = Len(calls) /\ Len(buf) = Len(calls)
    BY <1>2
  <2>3. QED
    BY <1>1, <2>1, <2>2 DEF Init, CmdInit, CommandInv
<1>5. RequestInv
  <2>1. ASSUME NEW c \in Conns PROVE RequestsOf(c)
    BY <1>1, <1>2 DEF Init, CmdInit, RequestsOf
  <2>2. QED
    BY <2>1 DEF RequestInv
<1>6. GatewayInv
  BY <1>1 DEF Init, PipeInit, GatewayInv
<1>7. QED
  BY <1>3, <1>4, <1>5, <1>6 DEF Safe

LEMMA SafeAlways == Spec => []Safe
<1>1. Safe /\ [Next]_vars => Safe'
  BY PassedStep, CommandStep, RequestStep, GatewayStep DEF Safe
<1>2. QED
  BY <1>1, SafeInit, PTL DEF Spec

-----------------------------------------------------------------------------
(* The theorems.                                                             *)

\* RFSend: its message is passed on once at most, and has been when it returned
\* without an error; after the messages of the calls that had returned.
THEOREM SendsInOrder == Spec => []SendsExecuted
<1>1. ASSUME Safe PROVE SendsExecuted
  <2> DEFINE at(i) == {k \in DOMAIN Executed : Executed[k].id = i}
  <2>1. PassedInv
    BY <1>1 DEF Safe
  <2>2. ASSUME NEW i \in DOMAIN calls PROVE Cardinality(at(i)) <= 1
    <3>1. CASE at(i) = {}
      BY <3>1, FS_EmptySet
    <3>2. CASE at(i) # {}
      <4>1. PICK k : k \in at(i)
        BY <3>2
      <4>2. at(i) = {k}
        BY <2>1, <4>1 DEF PassedInv
      <4>3. Cardinality({k}) = 1
        BY FS_Singleton
      <4>4. QED
        BY <4>2, <4>3
    <3>3. QED
      BY <3>1, <3>2
  <2>3. ASSUME NEW i \in DOMAIN calls, calls[i].op = "send", calls[i].result = "ok"
        PROVE  at(i) # {}
    BY <2>1, <2>3 DEF PassedInv, Passed
  <2>4. ASSUME NEW i \in DOMAIN calls, NEW j \in calls[i].after, calls[j].result = "ok",
               NEW k \in at(i), NEW l \in at(j)
        PROVE  l < k
    BY <2>1, <2>4 DEF PassedInv
  <2> HIDE DEF at
  <2>5. QED
    <3>1. /\ \A i \in DOMAIN calls :
              /\ Cardinality(at(i)) <= 1
              /\ calls[i].op = "send" /\ calls[i].result = "ok" => at(i) # {}
              /\ \A j \in calls[i].after :
                   calls[j].result = "ok" => \A k \in at(i), l \in at(j) : l < k
      BY <2>2, <2>3, <2>4
    <3>2. QED
      BY <3>1 DEF SendsExecuted, at
<1>2. QED
  BY <1>1, SafeAlways, PTL

\* The Transmitter sends each message to the address its group was last heard
\* from at that moment, whenever the message was put into xmitChan.
THEOREM GatewayFollowed == Spec => FollowsGateway
<1> DEFINE A == sent' # sent => Last(sent').to = heard[Last(sent').group]
<1>1. Safe /\ [Next]_vars => [A]_vars
  <2>1. SUFFICES ASSUME Safe, [Next]_vars, sent' # sent
                 PROVE  Last(sent').to = heard[Last(sent').group]
    OBVIOUS
  <2>2. CASE Transmit
    BY <2>1, <2>2, TransmitStep DEF Safe, Last
  <2>3. ASSUME NEW c \in Conns, HandleSend(c) PROVE FALSE
    BY <2>1, <2>3 DEF HandleSend
  <2>4. QED
    BY <2>1, <2>2, <2>3, PassedSteps DEF outVars
<1>2. QED
  BY <1>1, SafeAlways, PTL DEF Spec, FollowsGateway

-----------------------------------------------------------------------------
(* The types and the bounds.                                                 *)

LEMMA WorkInit == Init => WorkInv
<1>1. SUFFICES ASSUME Init PROVE WorkInv
  OBVIOUS
<1>2. accepted = 0 /\ work = 0 /\ calls = <<>> /\ Len(calls) = 0 /\ \A c \in Conns : conn[c] = "none"
  BY <1>1 DEF Init, PipeInit, CmdInit
<1>3. QED
  BY <1>2, PipelineAssumption DEF WorkInv

\* Only a dial makes something of a connection, and only a call makes a call;
\* both are counted, and so is every message.
LEMMA WorkSteps ==
  ASSUME Safe, [Next]_vars
  PROVE  \/ /\ work < MaxWork /\ work' = work + 1 /\ accepted' = accepted + 1
            /\ UNCHANGED <<conn, calls>>
         \/ /\ work + DialCost <= MaxWork /\ work' = work + DialCost
            /\ UNCHANGED <<accepted, calls>>
         \/ /\ work < MaxWork /\ work' = work + 1 /\ Len(calls') = Len(calls) + 1
            /\ \E c \in Conns : conn[c] # "none"
            /\ UNCHANGED accepted
         \/ /\ Len(calls') = Len(calls) /\ (calls = <<>> => calls' = <<>>)
            /\ \A c \in Conns : conn'[c] # "none" => conn[c] # "none"
            /\ UNCHANGED <<work, accepted>>
<1> DEFINE Quiet == /\ Len(calls') = Len(calls) /\ (calls = <<>> => calls' = <<>>)
                    /\ \A c \in Conns : conn'[c] # "none" => conn[c] # "none"
                    /\ UNCHANGED <<work, accepted>>
<1>0. CommandInv
  BY DEF Safe
<1>1. ASSUME PipeNext, UNCHANGED cmdVars,
             ~ \E g \in Groups, a \in Addrs : ReceiveMessage(g, a)
      PROVE  Quiet
  BY <1>1 DEF PipeNext, ReceiveOther, PushRecv, Mux, MuxTake, MuxPush, LogProcessor, LogFinish,
     DbProcessor, DbFinish, Take, Finish, LogFault, Midnight, Transmit, cmdVars, counts
<1>2. ASSUME NEW g \in Groups, NEW a \in Addrs, ReceiveMessage(g, a), UNCHANGED cmdVars
      PROVE  /\ work < MaxWork /\ work' = work + 1 /\ accepted' = accepted + 1
             /\ UNCHANGED <<conn, calls>>
  BY <1>2 DEF ReceiveMessage, cmdVars
<1>3. ASSUME NEW c \in Conns, Dial(c)
      PROVE  /\ work + DialCost <= MaxWork /\ work' = work + DialCost
             /\ UNCHANGED <<accepted, calls>>
  BY <1>3 DEF Dial
<1>4. ASSUME NEW c \in Conns, Close(c) \/ CloseConn(c) \/ Break(c) \/ Pinger(c) \/ Server(c)
      PROVE  /\ \A d \in Conns : conn'[d] # "none" => conn[d] # "none"
             /\ UNCHANGED <<work, accepted>>
  <2>1. CASE Close(c) \/ CloseConn(c) \/ Break(c) \/ Pinger(c)
    BY <1>0, <2>1 DEF Close, Closing, CloseConn, Break, Pinger, PingSend, PingFail, pipeVars,
       counts, CommandInv
  <2>2. CASE Server(c)
    BY <1>0, <2>2 DEF Server, ServerReceive, ServerEnd, HandleSend, HandleOther, SendReply,
       LoseReply, pipeVars, counts, CommandInv
  <2>3. QED
    BY <1>4, <2>1, <2>2
<1>5. ASSUME NEW c \in Conns, Close(c) \/ CloseConn(c) \/ Break(c) \/ Pinger(c)
      PROVE  calls' = calls
  BY <1>5 DEF Close, Closing, CloseConn, Break, Pinger, PingSend, PingFail
<1>6. ASSUME NEW c \in Conns, Server(c)
      PROVE  Len(calls') = Len(calls) /\ (calls = <<>> => calls' = <<>>)
  <2>1. CASE SendReply(c) /\ server[c].req # 0
    <3>1. calls' = [calls EXCEPT ![server[c].req].result = Answer(server[c].req)]
      BY <2>1 DEF SendReply
    <3>2. server[c].req \in DOMAIN calls
      BY <2>1 DEF Safe, RequestInv, RequestsOf
    <3>3. Answer(server[c].req) \in {"ok", "error"}
      BY DEF Answer
    <3>4. Len(calls') = Len(calls)
      BY <1>0, <3>1, <3>2, <3>3, SetResult
    <3>5. calls # <<>>
      BY <3>2
    <3>6. QED
      BY <3>4, <3>5
  <2>2. CASE SendReply(c) /\ server[c].req = 0
    BY <2>2 DEF SendReply
  <2>3. CASE ~SendReply(c)
    BY <1>6, <2>3 DEF Server, ServerReceive, ServerEnd, HandleSend, HandleOther, LoseReply
  <2>4. QED
    BY <2>1, <2>2, <2>3
<1>7. ASSUME NEW c \in Conns, NEW op \in Ops, NEW g \in Groups, Call(c, op, g)
      PROVE  /\ work < MaxWork /\ work' = work + 1 /\ Len(calls') = Len(calls) + 1
             /\ \E d \in Conns : conn[d] # "none"
             /\ UNCHANGED accepted
  BY <1>0, <1>7 DEF Call, CommandInv
<1>8. ASSUME NEW i \in DOMAIN calls, Fail(i) \/ Flow(i) \/ PushPut(i) \/ PushClose(i)
      PROVE  Quiet
  <2>1. CASE Fail(i)
    <3>1. Len(calls') = Len(calls) /\ calls # <<>>
      BY <1>0, <2>1, SetResult DEF Fail
    <3>2. QED
      BY <2>1, <3>1 DEF Fail, pipeVars, counts
  <2>2. CASE Flow(i) \/ PushPut(i) \/ PushClose(i)
    BY <2>2 DEF Flow, StreamRecv, StreamTake, PushSend, PushPut, PushClose, pipeVars, counts
  <2>3. QED
    BY <1>8, <2>1, <2>2
<1>9. ASSUME UNCHANGED vars PROVE Quiet
  BY <1>9 DEF vars, cmdVars, pipeVars, counts
<1>10. QED
  BY <1>1, <1>2, <1>3, <1>4, <1>5, <1>6, <1>7, <1>8, <1>9 DEF Next, CmdNext

LEMMA WorkStep ==
  ASSUME Safe, WorkInv, accepted \in Nat, [Next]_vars
  PROVE  WorkInv'
<1>1. /\ Len(calls) \in Nat /\ calls \in Seq(AnyCall) /\ (calls = <<>> <=> Len(calls) = 0)
      /\ calls' \in Seq(AnyCall) /\ (calls' = <<>> <=> Len(calls') = 0) /\ Len(calls') \in Nat
      /\ DialCost \in Nat /\ MaxWork \in Nat /\ work \in 0 .. MaxWork
  <2>1. calls \in Seq(AnyCall) /\ calls' \in Seq(AnyCall)
    BY CommandStep DEF Safe, CommandInv
  <2>2. QED
    BY <2>1, EmptySeq, PipelineAssumption, CommandsAssumption DEF WorkInv
<1>2. CASE /\ work < MaxWork /\ work' = work + 1 /\ accepted' = accepted + 1
           /\ UNCHANGED <<conn, calls>>
  BY <1>1, <1>2 DEF WorkInv
<1>3. CASE /\ work + DialCost <= MaxWork /\ work' = work + DialCost
           /\ UNCHANGED <<accepted, calls>>
  BY <1>1, <1>3 DEF WorkInv
<1>4. CASE /\ work < MaxWork /\ work' = work + 1 /\ Len(calls') = Len(calls) + 1
           /\ \E c \in Conns : conn[c] # "none"
           /\ UNCHANGED accepted
  BY <1>1, <1>4 DEF WorkInv
<1>5. CASE /\ Len(calls') = Len(calls) /\ (calls = <<>> => calls' = <<>>)
           /\ \A c \in Conns : conn'[c] # "none" => conn[c] # "none"
           /\ UNCHANGED <<work, accepted>>
  BY <1>1, <1>5 DEF WorkInv
<1>6. QED
  BY <1>2, <1>3, <1>4, <1>5, WorkSteps

\* No message has a number above the bound.
LEMMA MessageBound ==
  ASSUME PlaceInv, accepted <= MaxWork
  PROVE  /\ hand \in Messages /\ recv \in Seq(Messages) /\ mux.msg \in Messages
         /\ \A p \in Procs : chan[p] \in Seq(Messages) /\ busy[p] \in Messages
<1>0. /\ MaxWork \in Nat /\ accepted \in Nat /\ \A m \in Nat : m <= accepted => m \in Messages
      /\ mux.msg \in Nat /\ \A p \in Procs : busy[p] \in Nat
  BY PipelineAssumption DEF Messages, PlaceInv
<1>1. ASSUME NEW p \in Procs
      PROVE  /\ hand <= accepted /\ mux.msg <= accepted /\ busy[p] <= accepted
             /\ \A i \in 1 .. Len(recv) : recv[i] <= accepted
             /\ \A i \in 1 .. Len(chan[p]) : chan[p][i] <= accepted
  <2>1. /\ InWork(p) \in 0 .. 1 /\ InMux(p) \in 0 .. 1 /\ InHand \in 0 .. 1
        /\ Len(chan[p]) \in Nat /\ Len(recv) \in Nat
        /\ Took(p) \in Nat /\ Muxed(p) \in Nat /\ hand \in Nat /\ accepted \in Nat
    BY Counts
  <2>2. /\ Muxed(p) = Took(p) + Len(chan[p]) + InMux(p)
        /\ accepted = Muxed(p) + Len(recv) + InHand
        /\ hand # 0 => InHand = 1
    BY DEF Muxed, Given, PlaceInv, InPlace, InHand
  <2>3. /\ Muxed(p) <= accepted /\ Took(p) + Len(chan[p]) <= accepted
        /\ Muxed(p) + Len(recv) <= accepted
        /\ hand # 0 => Muxed(p) + Len(recv) + 1 = accepted
    BY <2>1, <2>2
  <2>4. /\ busy[p] # 0 => busy[p] = Took(p)
        /\ \A i \in 1 .. Len(chan[p]) : chan[p][i] = Took(p) + i
        /\ mux.msg # 0 => mux.msg = Muxed(p)
        /\ \A i \in 1 .. Len(recv) : recv[i] = Muxed(p) + i
        /\ hand # 0 => hand = Muxed(p) + Len(recv) + 1
    BY DEF PlaceInv, InPlace
  <2>5. QED
    BY <2>1, <2>3, <2>4
<1>2. ASSUME NEW s \in Seq(Nat), \A i \in 1 .. Len(s) : s[i] <= accepted
      PROVE  s \in Seq(Messages)
  BY <1>0, <1>2
<1>3. "log" \in Procs
  BY TheProcs
<1>4. hand \in Messages /\ recv \in Seq(Messages) /\ mux.msg \in Messages
  BY <1>0, <1>1, <1>2, <1>3 DEF PlaceInv
<1>5. ASSUME NEW p \in Procs PROVE chan[p] \in Seq(Messages) /\ busy[p] \in Messages
  BY <1>0, <1>1, <1>2 DEF PlaceInv
<1>6. QED
  BY <1>4, <1>5

\* The Transmitter took no more messages than there were calls.
LEMMA SentBound ==
  ASSUME PassedInv, CommandInv
  PROVE  Len(sent) <= Len(calls)
<1> DEFINE f == [k \in 1 .. Len(sent) |-> sent[k].id]
<1>1. /\ Len(sent) \in Nat /\ Len(calls) \in Nat /\ DOMAIN calls = 1 .. Len(calls)
      /\ Len(xmit) \in Nat
  BY ExecutedIs DEF CommandInv
<1>2. ASSUME NEW k \in 1 .. Len(sent)
      PROVE  k \in DOMAIN Executed /\ Executed[k] = sent[k]
  BY <1>1, ExecutedIs
<1>3. /\ \A k \in 1 .. Len(sent) : sent[k].id \in 1 .. Len(calls)
      /\ \A k, l \in 1 .. Len(sent) : sent[k].id = sent[l].id => k = l
  BY <1>1, <1>2 DEF PassedInv
<1>4. f \in [1 .. Len(sent) -> 1 .. Len(calls)] /\ \A k, l \in 1 .. Len(sent) : f[k] = f[l] => k = l
  BY <1>3
<1> HIDE DEF f
<1>5. ASSUME NEW n \in Nat PROVE IsFiniteSet(1 .. n) /\ Cardinality(1 .. n) = n
  <2>1. IsFiniteSet(1 .. n) /\ Cardinality(1 .. n) = IF 1 > n THEN 0 ELSE n - 1 + 1
    BY FS_Interval
  <2>2. QED
    BY <2>1
<1>6. ~(Len(calls) < Len(sent))
  BY <1>4, <1>5, FS_PigeonHole
<1>7. QED
  BY <1>1, <1>6

\* Every variable of the hub and of its clients has the values the code gives it,
\* and no channel holds more than its capacity.
THEOREM HubTypes == Spec => []TypeOK
<1>1. ASSUME Safe, PlaceInv, WorkInv PROVE TypeOK
  <2>0. PassedInv /\ CommandInv /\ RequestInv /\ GatewayInv
    BY <1>1 DEF Safe
  <2>1. Len(calls) \in Nat /\ DOMAIN calls = 1 .. Len(calls) /\ calls \in Seq(AnyCall)
    BY <2>0 DEF CommandInv
  <2>2. accepted <= MaxWork /\ (calls # <<>> => Len(calls) <= MaxCalls)
    <3>1. /\ work \in Nat /\ work <= MaxWork /\ accepted + Len(calls) <= work /\ accepted \in Nat
          /\ calls # <<>> => DialCost + Len(calls) <= work
          /\ MaxWork \in Nat /\ DialCost \in Nat
      BY <1>1, PipelineAssumption, CommandsAssumption DEF WorkInv, PlaceInv
    <3>2. QED
      BY <2>1, <3>1 DEF MaxCalls
  <2>3. calls \in Seq(CallRecord)
    <3>1. ASSUME NEW i \in 1 .. Len(calls) PROVE calls[i] \in CallRecord
      <4>1. calls[i] \in AnyCall /\ calls # <<>>
        BY <2>1
      <4>2. \A j \in calls[i].after : j \in 1 .. Len(calls)
        BY <2>0, <2>1 DEF PassedInv
      <4>3. MaxCalls \in Int
        BY PipelineAssumption, CommandsAssumption DEF MaxCalls
      <4>4. calls[i].after \subseteq 1 .. MaxCalls
        BY <2>1, <2>2, <4>1, <4>2, <4>3
      <4>5. QED
        BY <4>1, <4>4 DEF AnyCall, CallRecord
    <3>2. QED
      BY <2>1, <3>1
  <2>4. /\ hand \in Messages /\ recv \in Seq(Messages) /\ Len(recv) <= RecvCap
        /\ mux \in [msg : Messages, next : DOMAIN Order]
        /\ \A p \in Procs : chan[p] \in Seq(Messages) /\ Len(chan[p]) <= ProcCap
        /\ busy \in [Procs -> Messages]
    <3>1. mux \in [msg : Nat, next : DOMAIN Order] /\ busy \in [Procs -> Nat] /\ Len(recv) <= RecvCap
          /\ \A p \in Procs : Len(chan[p]) <= ProcCap
      BY <1>1 DEF PlaceInv, InPlace
    <3>2. QED
      BY <1>1, <2>2, <3>1, MessageBound
  <2>5. groupMap \in [Groups -> Addrs \cup {None}] /\ Len(xmit) <= XmitCap /\ Len(sent) <= Len(calls)
    BY <2>0, SentBound DEF GatewayInv, PassedInv
  <2>6. Len(flow) = Len(calls) /\ Len(buf) = Len(calls) /\ \A i \in DOMAIN buf : buf[i] \in 0 .. PushCap
    <3>1. Len(flow) = Len(calls) /\ Len(buf) = Len(calls) /\ buf \in Seq(0 .. PushCap)
      BY <2>0 DEF CommandInv
    <3>2. ASSUME NEW S, buf \in Seq(S) PROVE \A i \in DOMAIN buf : buf[i] \in S
      BY <3>2
    <3>3. QED
      BY <3>1, <3>2
  <2>7. ASSUME NEW c \in Conns
        PROVE  /\ main[c] \in Seq(0 .. Len(calls))
               /\ server[c].pc = "none" <=> conn[c] = "none"
               /\ conn[c] = "open" => ping[c] \notin {"none", "ended"}
               /\ \A k \in DOMAIN main[c] : main[c][k] # 0 => calls[main[c][k]].conn = c
    <3>1. RequestsOf(c) /\ main[c] \in Seq(Nat)
      BY <2>0 DEF RequestInv, CommandInv
    <3>2. \A k \in DOMAIN main[c] : main[c][k] \in 0 .. Len(calls)
      BY <2>1, <3>1 DEF RequestsOf
    <3>3. main[c] \in Seq(0 .. Len(calls))
      BY <3>1, <3>2
    <3>4. ASSUME NEW k \in DOMAIN main[c], main[c][k] # 0 PROVE calls[main[c][k]].conn = c
      <4>1. main[c][k] \in DOMAIN calls /\ RequestOK(c, main[c][k])
        BY <3>1, <3>4 DEF RequestsOf
      <4>2. QED
        BY <4>1 DEF RequestOK, Unanswered
    <3>5. QED
      BY <2>0, <3>3, <3>4 DEF CommandInv
  <2> HIDE DEF TypeOK
  <2>8. QED
    BY <2>3, <2>4, <2>5, <2>6, <2>7 DEF TypeOK
<1>2. Init => WorkInv
  BY WorkInit
<1>3. Safe /\ PlaceInv /\ WorkInv /\ [Next]_vars => WorkInv'
  BY WorkStep DEF PlaceInv
<1>4. QED
  BY <1>1, <1>2, <1>3, SafeAlways, MessagesInPlace, PTL DEF Spec
=================================================================================
