------------------------------- MODULE HubCommands -------------------------------
(***************************************************************************)
(* The command server of the hub (hub/chansrv.go, hub/chanhandlers.go) and *)
(* the client library (gears/chancli.go), on top of the pipeline.          *)
(*                                                                         *)
(* A client dials, proves the connection with an echo, and pings it from   *)
(* then on; any number of its goroutines, the users, put requests into the *)
(* main channel and wait for the reply.  The hub has one goroutine per       *)
(* connection, which handles one request after the other.  Subscriptions   *)
(* and data pushes live on after their reply, each with a goroutine of the *)
(* client.  libchan and TCP are external: they keep the order, and when a  *)
(* link is down everything on it fails sooner or later.                    *)
(***************************************************************************)
EXTENDS HubPipeline

CONSTANTS
  Conns,     \* the connections, each dialled once
  Ops,       \* the requests the users make
  PushCap,   \* the capacity of the channel of SensorSendData (10)
  DialCost   \* what a dial takes from MaxWork, of which a call takes 1

ASSUME CommandsAssumption ==
  /\ Ops \subseteq {"send", "subscribe", "push", "read"}
  /\ PushCap \in Nat \ {0} /\ DialCost \in Nat
  /\ None \notin {"ok", "error"}

VARIABLES
  conn,    \* what the client makes of each connection
  link,    \* "up", "eof": the client closed the main channel, or "down"
  main,    \* the requests on their way: 0 is an echo, others a call
  server,  \* the goroutine of the connection in the hub and its request
  ping,    \* Dial's echo, then the pinger
  calls,   \* the calls of the users (after: history, those that had returned before)
  flow,    \* the goroutine of each subscription or push
  buf      \* the values in the channel of each push

cmdVars == <<conn, link, main, server, ping, calls, flow, buf>>
vars == <<pipeVars, cmdVars>>

CmdInit ==
  /\ conn = [c \in Conns |-> "none"]
  /\ link = [c \in Conns |-> "down"]
  /\ main = [c \in Conns |-> <<>>]
  /\ server = [c \in Conns |-> [pc |-> "none", req |-> 0]]
  /\ ping = [c \in Conns |-> "none"]
  /\ calls = <<>> /\ flow = <<>> /\ buf = <<>>

Init == PipeInit /\ CmdInit

-----------------------------------------------------------------------------
(* Connections.                                                            *)

\* Dial sends an echo; the hub accepts the connection.
Dial(c) ==
  /\ conn[c] = "none" /\ work + DialCost <= MaxWork
  /\ work' = work + DialCost
  /\ conn' = [conn EXCEPT ![c] = "dial"]
  /\ link' = [link EXCEPT ![c] = "up"]
  /\ server' = [server EXCEPT ![c].pc = "recv"]
  /\ main' = [main EXCEPT ![c] = <<0>>]
  /\ ping' = [ping EXCEPT ![c] = "wait"]
  /\ UNCHANGED <<groupMap, inVars, outVars, accepted, heard, calls, flow, buf>>

\* Close: no more requests, and the connection itself 0.1 s later.
Closing(c) ==
  /\ conn' = [conn EXCEPT ![c] = "closing"]
  /\ link' = [link EXCEPT ![c] = IF @ = "up" THEN "eof" ELSE @]

Close(c) ==
  /\ conn[c] = "open"
  /\ Closing(c)
  /\ UNCHANGED <<pipeVars, main, server, ping, calls, flow, buf>>

CloseConn(c) ==
  /\ conn[c] = "closing"
  /\ conn' = [conn EXCEPT ![c] = "closed"]
  /\ link' = [link EXCEPT ![c] = "down"]
  /\ UNCHANGED <<pipeVars, main, server, ping, calls, flow, buf>>

\* The network fails.
Break(c) ==
  /\ link[c] # "down"
  /\ link' = [link EXCEPT ![c] = "down"]
  /\ UNCHANGED <<pipeVars, conn, main, server, ping, calls, flow, buf>>

\* doEcho: its timeout is not used, so that it ends with a reply or an error.
PingSend(c) ==
  /\ conn[c] = "open" /\ ping[c] = "idle" /\ link[c] = "up"
  /\ main' = [main EXCEPT ![c] = Append(@, 0)]
  /\ ping' = [ping EXCEPT ![c] = "wait"]
  /\ UNCHANGED <<pipeVars, conn, link, server, calls, flow, buf>>

\* An error: Dial closes the connection at once, the pinger by Close.
BugPingFail(c) ==
  /\ \/ ping[c] = "wait" /\ link[c] = "down"
     \/ ping[c] = "idle" /\ (link[c] = "down" \/ conn[c] # "open")
  /\ ping' = [ping EXCEPT ![c] = "ended"]
  /\ UNCHANGED <<pipeVars, conn, link, main, server, calls, flow, buf>>
PingFail(c) ==
  /\ \/ ping[c] = "wait" /\ link[c] = "down"
     \/ ping[c] = "idle" /\ (link[c] = "down" \/ conn[c] # "open")
  /\ ping' = [ping EXCEPT ![c] = "ended"]
  /\ IF conn[c] = "open" THEN Closing(c)
     ELSE /\ conn' = [conn EXCEPT ![c] = IF @ = "dial" THEN "closed" ELSE @]
          /\ UNCHANGED link
  /\ UNCHANGED <<pipeVars, main, server, calls, flow, buf>>

-----------------------------------------------------------------------------
(* Calls: doRequest and what the functions of the library do around it.    *)

MaxCalls == MaxWork - DialCost

Returned == {i \in DOMAIN calls : calls[i].result # None}

Call(c, op, g) ==
  /\ conn[c] = "open" /\ work < MaxWork
  /\ calls' = Append(calls, [conn |-> c, op |-> op, group |-> g, after |-> Returned,
                             result |-> None])
  /\ flow' = Append(flow, None) /\ buf' = Append(buf, 0)
  /\ main' = [main EXCEPT ![c] = IF link[c] = "up" THEN Append(@, Len(calls) + 1) ELSE @]
  /\ work' = work + 1
  /\ UNCHANGED <<groupMap, inVars, outVars, accepted, heard, conn, link, server, ping>>

\* An error instead of a reply.
Fail(i) ==
  /\ i \in DOMAIN calls
  /\ calls[i].result = None /\ link[calls[i].conn] = "down"
  /\ calls' = [calls EXCEPT ![i].result = "error"]
  /\ UNCHANGED <<pipeVars, conn, link, main, server, ping, flow, buf>>

\* The goroutine of a subscription gets a message and holds it until the user
\* takes it, or an error and closes the channel.
StreamRecv(i) ==
  /\ calls[i].op = "subscribe" /\ flow[i] = "on"
  /\ \/ link[calls[i].conn] # "down" /\ flow' = [flow EXCEPT ![i] = "hold"]
     \/ link[calls[i].conn] = "down" /\ flow' = [flow EXCEPT ![i] = "end"]
  /\ UNCHANGED <<pipeVars, conn, link, main, server, ping, calls, buf>>

StreamTake(i) ==
  /\ flow[i] = "hold"
  /\ flow' = [flow EXCEPT ![i] = "on"]
  /\ UNCHANGED <<pipeVars, conn, link, main, server, ping, calls, buf>>

\* The user of a push puts values into its channel, and may close it.
PushPut(i) ==
  /\ calls[i].op = "push" /\ flow[i] = "on" /\ buf[i] < PushCap
  /\ buf' = [buf EXCEPT ![i] = @ + 1]
  /\ UNCHANGED <<pipeVars, conn, link, main, server, ping, calls, flow>>

PushClose(i) ==
  /\ calls[i].op = "push" /\ flow[i] = "on"
  /\ flow' = [flow EXCEPT ![i] = "closing"]
  /\ UNCHANGED <<pipeVars, conn, link, main, server, ping, calls, buf>>

\* Its goroutine sends them; it returns on an error, and then nobody empties
\* the channel (what the user puts into it from then on is left out).
PushSend(i) ==
  /\ calls[i].op = "push" /\ flow[i] \in {"on", "closing"}
  /\ IF buf[i] > 0 /\ link[calls[i].conn] # "down"
     THEN buf' = [buf EXCEPT ![i] = @ - 1] /\ UNCHANGED flow
     ELSE /\ buf[i] > 0 \/ flow[i] = "closing"
          /\ buf' = [buf EXCEPT ![i] = 0]
          /\ flow' = [flow EXCEPT ![i] = "end"]
  /\ UNCHANGED <<pipeVars, conn, link, main, server, ping, calls>>

-----------------------------------------------------------------------------
(* The goroutine of a connection in the hub: handleRequests.               *)

Serve(c, pc) == server' = [server EXCEPT ![c] = pc]

\* A request; of those on a link that is down some may have arrived.
ServerReceive(c) ==
  /\ server[c].pc = "recv" /\ main[c] # <<>>
  /\ Serve(c, [pc |-> "handle", req |-> Head(main[c])])
  /\ main' = [main EXCEPT ![c] = Tail(@)]
  /\ UNCHANGED <<pipeVars, conn, link, ping, calls, flow, buf>>

\* The end of the main channel or an error closes the connection.
BugServerEnd(c) ==
  /\ server[c].pc = "recv"
  /\ link[c] = "eof" /\ main[c] = <<>>
  /\ Serve(c, [pc |-> "gone", req |-> 0])
  /\ link' = [link EXCEPT ![c] = "down"]
  /\ UNCHANGED <<pipeVars, conn, main, ping, calls, flow, buf>>
ServerEnd(c) ==
  /\ server[c].pc = "recv"
  /\ link[c] = "down" \/ (link[c] = "eof" /\ main[c] = <<>>)
  /\ Serve(c, [pc |-> "gone", req |-> 0])
  /\ link' = [link EXCEPT ![c] = "down"]
  /\ main' = [main EXCEPT ![c] = <<>>]
  /\ UNCHANGED <<pipeVars, conn, ping, calls, flow, buf>>

IsSend(r) == r # 0 /\ calls[r].op = "send"

\* HandleRFSendRequest waits for room in xmitChan.
HandleSend(c) ==
  /\ server[c].pc = "handle" /\ IsSend(server[c].req)
  /\ Len(xmit) < XmitCap
  /\ xmit' = Append(xmit, [id |-> server[c].req, group |-> calls[server[c].req].group])
  /\ server' = [server EXCEPT ![c].pc = "reply"]
  /\ UNCHANGED <<groupMap, inVars, sent, counts, conn, link, main, ping, calls,
                 flow, buf>>

\* The other handlers do not wait.
BugHandleOther(c) ==
  /\ server[c].pc = "handle"
  /\ server' = [server EXCEPT ![c].pc = "reply"]
  /\ UNCHANGED <<pipeVars, conn, link, main, ping, calls, flow, buf>>
HandleOther(c) ==
  /\ server[c].pc = "handle" /\ ~IsSend(server[c].req)
  /\ server' = [server EXCEPT ![c].pc = "reply"]
  /\ UNCHANGED <<pipeVars, conn, link, main, ping, calls, flow, buf>>

\* Reading sensor values is not implemented: an error.
Answer(r) == IF calls[r].op = "read" THEN "error" ELSE "ok"

\* The reply reaches its caller.  The answer to Dial's echo opens the
\* connection, that to a subscription or a push starts a goroutine.
SendReply(c) ==
  /\ server[c].pc = "reply" /\ link[c] # "down"
  /\ LET r == server[c].req IN
       IF r = 0
       THEN /\ ping' = [ping EXCEPT ![c] = "idle"]
            /\ conn' = [conn EXCEPT ![c] = IF @ = "dial" THEN "open" ELSE @]
            /\ UNCHANGED <<calls, flow>>
       ELSE /\ calls' = [calls EXCEPT ![r].result = Answer(r)]
            /\ flow' = [flow EXCEPT ![r] = IF calls[r].op \in {"subscribe", "push"} THEN "on" ELSE @]
            /\ UNCHANGED <<ping, conn>>
  /\ Serve(c, [pc |-> "recv", req |-> 0])
  /\ UNCHANGED <<pipeVars, link, main, buf>>

\* The reply cannot be sent, which ends the goroutine, or is lost unnoticed.
LoseReply(c) ==
  /\ server[c].pc = "reply" /\ link[c] = "down"
  /\ \E pc \in {"recv", "gone"} : Serve(c, [pc |-> pc, req |-> 0])
  /\ main' = [main EXCEPT ![c] = IF server'[c].pc = "gone" THEN <<>> ELSE @]
  /\ UNCHANGED <<pipeVars, conn, link, ping, calls, flow, buf>>

-----------------------------------------------------------------------------
Server(c) ==
  ServerReceive(c) \/ ServerEnd(c) \/ HandleSend(c) \/ HandleOther(c) \/ SendReply(c)
    \/ LoseReply(c)

Pinger(c) == PingSend(c) \/ PingFail(c)

Flow(i) == i \in DOMAIN calls /\ (StreamRecv(i) \/ StreamTake(i) \/ PushSend(i))

CmdNext ==
  \/ \E c \in Conns : Dial(c) \/ Close(c) \/ CloseConn(c) \/ Break(c) \/ Pinger(c) \/ Server(c)
  \/ \E c \in Conns, op \in Ops, g \in Groups : Call(c, op, g)
  \/ \E i \in DOMAIN calls : Fail(i) \/ Flow(i) \/ PushPut(i) \/ PushClose(i)

Next == (PipeNext /\ UNCHANGED cmdVars) \/ CmdNext

Spec == Init /\ [][Next]_vars

\* Goroutines run when they can, sleeping ones wake up, users take what comes.
CmdFairness ==
  /\ \A c \in Conns : WF_vars(CloseConn(c)) /\ WF_vars(Pinger(c)) /\ WF_vars(Server(c))
  /\ \A i \in 1 .. MaxCalls : WF_vars(Fail(i)) /\ WF_vars(Flow(i))

FairSpec == Spec /\ PipeFairness /\ CmdFairness
=================================================================================
