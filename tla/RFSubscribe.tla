----------------------------- MODULE RFSubscribe -----------------------------
(***************************************************************************)
(* The publish/subscribe core of the hub (hub/database/rf_subscribe.go,    *)
(* rfmessage.go and the streaming goroutine of hub/chanhandlers.go).       *)
(*                                                                         *)
(* One processor goroutine stores every RF message and then publishes it   *)
(* to the subscribers while holding rfSubscriberMutex.  Each subscription  *)
(* has two goroutines: one replays the stored messages into the            *)
(* subscriber's channel and then adds the channel to the list, one reads   *)
(* the channel and sends to the client.                                    *)
(*                                                                         *)
(* A message is the position of its Put: log[n] is the time stamp of       *)
(* message n.  A channel is what was ever sent into it and how much of it  *)
(* was read: the buffered messages are sent[s][taken[s]+1 ..].             *)
(***************************************************************************)
EXTENDS Integers, Sequences, SequencesExt

CONSTANTS
  Subs,      \* the subscriptions (one request each)
  StartAts,  \* the StartAt values of the requests
  Ticks,     \* the time between two messages (0: the same millisecond)
  Cap,       \* the capacity of a subscriber's channel (100 in the code)
  MaxMsgs,   \* bound on the number of messages put into the database
  MayFail,   \* the subscriptions whose connection may break
  None,      \* nobody holds the mutex
  Publisher  \* the processor goroutine, as the holder of the mutex

ASSUME ConstantsAssumption ==
  /\ StartAts \subseteq Nat
  /\ Ticks \subseteq Nat
  /\ Cap \in Nat \ {0}
  /\ MaxMsgs \in Nat
  /\ MayFail \subseteq Subs
  /\ None \notin Subs /\ Publisher \notin Subs /\ None # Publisher

VARIABLES
  log,       \* the time stamps of the messages stored, in the order of the Puts
  pub,       \* the processor goroutine: idle, about to lock, or publishing
  idx,       \* the index of RFPublish's loop over the subscribers
  mutex,     \* the holder of rfSubscriberMutex
  list,      \* rfSubscribers
  since,     \* rfSubscriberStart
  start,     \* the StartAt of each request, or NotSubscribed
  catchUp,   \* where catchUpRFSubscribe is
  lastAt,    \* its lastAt: where to resume, then the last time stamp replayed
  locked,    \* its locked
  snap,      \* the messages its database iterator has still to return
  stream,    \* where the streaming goroutine is
  sent,      \* everything sent into the channel
  taken,     \* how many of them the streaming goroutine has received
  got,       \* how many of them reached the client
  closed     \* whether the channel is closed

catchUpVars == <<catchUp, lastAt, locked, snap>>
streamVars  == <<stream, taken, got>>
listVars    == <<list, since>>
vars == <<log, pub, idx, mutex, listVars, start, catchUpVars, streamVars,
          sent, closed>>

NotSubscribed == -1

Init ==
  /\ log = <<>>
  /\ pub = "idle" /\ idx = 1
  /\ mutex = None
  /\ list = <<>> /\ since = <<>>
  /\ start = [s \in Subs |-> NotSubscribed]
  /\ catchUp = [s \in Subs |-> "none"]
  /\ lastAt = [s \in Subs |-> 0]
  /\ locked = [s \in Subs |-> FALSE]
  /\ snap = [s \in Subs |-> {}]
  /\ stream = [s \in Subs |-> "none"]
  /\ sent = [s \in Subs |-> <<>>]
  /\ taken = [s \in Subs |-> 0]
  /\ got = [s \in Subs |-> 0]
  /\ closed = [s \in Subs |-> FALSE]

-----------------------------------------------------------------------------
(* Helpers, with the faulty variants that the properties must tell apart.  *)

\* The clock the hub stamps messages with; every time stamp is above 0.
Now == IF log = <<>> THEN 1 ELSE log[Len(log)]

\* A send into the channel of s would block.
BugFull(s) == Len(sent[s]) - taken[s] > Cap
Full(s) == Len(sent[s]) - taken[s] >= Cap

Enqueue(s, n) == sent' = [sent EXCEPT ![s] = Append(@, n)]

\* What an iterator from the given time on returns: the key is the time
\* stamp, so of several messages with one time stamp only the last is left.
Replay(from) ==
  {n \in 1 .. Len(log) : /\ log[n] >= from
                         /\ \A m \in n + 1 .. Len(log) : log[m] # log[n]}

\* Where a caught-up subscriber's real-time stream, or the next round of
\* the replay, starts.
BugResumeAt(s) == lastAt[s]
ResumeAt(s) == lastAt[s] + 1

\* The message being published is for the i-th subscriber.
BugWanted(i) == log[Len(log)] > since[i]
Wanted(i) == log[Len(log)] >= since[i]

-----------------------------------------------------------------------------
(* The processor goroutine: PutRFMessage and RFPublish.  A Put that fails  *)
(* returns before publishing and changes nothing.                          *)

PutMessage ==
  /\ pub = "idle"
  /\ Len(log) < MaxMsgs
  /\ \E d \in Ticks : log' = Append(log, Now + d)
  /\ pub' = "lock"
  /\ UNCHANGED <<idx, mutex, listVars, start, catchUpVars, streamVars, sent, closed>>

PublishLock ==
  /\ pub = "lock"
  /\ mutex = None
  /\ mutex' = Publisher
  /\ pub' = "send"
  /\ idx' = 1
  /\ UNCHANGED <<log, listVars, start, catchUpVars, streamVars, sent, closed>>

\* One round of the loop; it blocks, with the mutex held, on a full channel.
PublishSend ==
  /\ pub = "send"
  /\ idx <= Len(list)
  /\ IF Wanted(idx)
     THEN ~Full(list[idx]) /\ Enqueue(list[idx], Len(log))
     ELSE UNCHANGED sent
  /\ idx' = idx + 1
  /\ UNCHANGED <<log, pub, mutex, listVars, start, catchUpVars, streamVars, closed>>

PublishUnlock ==
  /\ pub = "send"
  /\ idx > Len(list)
  /\ mutex' = None
  /\ pub' = "idle"
  /\ UNCHANGED <<log, idx, listVars, start, catchUpVars, streamVars, sent, closed>>

-----------------------------------------------------------------------------
(* A subscription request and its catch-up goroutine.                      *)

Subscribe(s) ==
  /\ stream[s] = "none"
  /\ \E t \in StartAts :
       /\ start' = [start EXCEPT ![s] = t]
       /\ lastAt' = [lastAt EXCEPT ![s] = t]
  /\ catchUp' = [catchUp EXCEPT ![s] = "lock"]
  /\ stream' = [stream EXCEPT ![s] = "recv"]
  /\ UNCHANGED <<log, pub, idx, mutex, listVars, locked, snap, taken, got, sent, closed>>

\* Lock, then doCatchUp opens an iterator on a snapshot of the database.  A
\* Put between the two commutes with Lock, so they are one step.  The inner
\* lastAt starts at 0.
CatchUpLock(s) ==
  /\ catchUp[s] = "lock"
  /\ mutex = None
  /\ mutex' = s
  /\ locked' = [locked EXCEPT ![s] = TRUE]
  /\ snap' = [snap EXCEPT ![s] = Replay(lastAt[s])]
  /\ lastAt' = [lastAt EXCEPT ![s] = 0]
  /\ catchUp' = [catchUp EXCEPT ![s] = "replay"]
  /\ UNCHANGED <<log, pub, idx, listVars, start, streamVars, sent, closed>>

\* The iterator returns message n next.
NextReplayed(s, n) == n \in snap[s] /\ \A m \in snap[s] : n <= m

\* The send of the replay, at once or after having blocked.
ReplayOne(s, n) ==
  /\ ~Full(s)
  /\ Enqueue(s, n)
  /\ snap' = [snap EXCEPT ![s] = @ \ {n}]
  /\ lastAt' = [lastAt EXCEPT ![s] = log[n]]
  /\ catchUp' = [catchUp EXCEPT ![s] = "replay"]
  /\ UNCHANGED <<log, pub, idx, mutex, listVars, start, locked, streamVars, closed>>

CatchUpSend(s) ==
  /\ catchUp[s] \in {"replay", "blocked"}
  /\ \E n \in snap[s] : NextReplayed(s, n) /\ ReplayOne(s, n)

\* The channel is full: give up the mutex, if it is still held, and block.
BugCatchUpBlock(s) ==
  /\ catchUp[s] = "replay"
  /\ snap[s] # {}
  /\ Full(s)
  /\ catchUp' = [catchUp EXCEPT ![s] = "blocked"]
  /\ locked' = [locked EXCEPT ![s] = FALSE]
  /\ UNCHANGED <<log, pub, idx, mutex, listVars, start, lastAt, snap, streamVars, sent,
                 closed>>
CatchUpBlock(s) ==
  /\ catchUp[s] = "replay"
  /\ snap[s] # {}
  /\ Full(s)
  /\ catchUp' = [catchUp EXCEPT ![s] = "blocked"]
  /\ locked' = [locked EXCEPT ![s] = FALSE]
  /\ mutex' = IF locked[s] THEN None ELSE mutex
  /\ UNCHANGED <<log, pub, idx, listVars, start, lastAt, snap, streamVars, sent, closed>>

\* The end of a round that gave up the mutex: go for another one.
CatchUpAgain(s) ==
  /\ catchUp[s] = "replay"
  /\ snap[s] = {}
  /\ ~locked[s]
  /\ lastAt' = [lastAt EXCEPT ![s] = ResumeAt(s)]
  /\ catchUp' = [catchUp EXCEPT ![s] = "lock"]
  /\ UNCHANGED <<log, pub, idx, mutex, listVars, start, locked, snap, streamVars,
                 sent, closed>>

\* The end of a round under the mutex: join the list.
BugCatchUpSwitch(s) ==
  /\ catchUp[s] = "replay"
  /\ snap[s] = {}
  /\ list' = Append(list, s)
  /\ since' = Append(since, ResumeAt(s))
  /\ mutex' = IF locked[s] THEN None ELSE mutex
  /\ catchUp' = [catchUp EXCEPT ![s] = "done"]
  /\ UNCHANGED <<log, pub, idx, start, lastAt, locked, snap, streamVars, sent, closed>>
CatchUpSwitch(s) ==
  /\ catchUp[s] = "replay"
  /\ snap[s] = {}
  /\ locked[s]
  /\ list' = Append(list, s)
  /\ since' = Append(since, ResumeAt(s))
  /\ mutex' = None
  /\ catchUp' = [catchUp EXCEPT ![s] = "done"]
  /\ UNCHANGED <<log, pub, idx, start, lastAt, locked, snap, streamVars, sent, closed>>

-----------------------------------------------------------------------------
(* The streaming goroutine of HandleRFSubRequest.  Its "incoming EOF"      *)
(* branch is never taken: nobody else closes the channel.                  *)

\* Receive from the channel; the message is sent[s][taken[s]].
Receive(s) ==
  /\ stream[s] = "recv"
  /\ taken[s] < Len(sent[s])
  /\ taken' = [taken EXCEPT ![s] = @ + 1]
  /\ stream' = [stream EXCEPT ![s] = "send"]
  /\ UNCHANGED <<log, pub, idx, mutex, listVars, start, catchUpVars, got, sent, closed>>

SendOK(s) ==
  /\ stream[s] = "send"
  /\ got' = [got EXCEPT ![s] = taken[s]]
  /\ stream' = [stream EXCEPT ![s] = "recv"]
  /\ UNCHANGED <<log, pub, idx, mutex, listVars, start, catchUpVars, taken, sent, closed>>

SendError(s) ==
  /\ stream[s] = "send"
  /\ s \in MayFail
  /\ stream' = [stream EXCEPT ![s] = "unsubscribe"]
  /\ UNCHANGED <<log, pub, idx, mutex, listVars, start, catchUpVars, taken, got, sent,
                 closed>>

\* RFUnsubscribe's loop: close the channel and cut it out of both slices.
BugCloseAndRemove(s) ==
  IF \E i \in 1 .. Len(list) : list[i] = s
  THEN \E i \in 1 .. Len(list) :
         /\ list[i] = s
         /\ list' = RemoveAt(list, i)
         /\ UNCHANGED since
         /\ closed' = [closed EXCEPT ![s] = TRUE]
  ELSE UNCHANGED <<list, since, closed>>
BugCloseAnyway(s) ==
  /\ closed' = [closed EXCEPT ![s] = TRUE]
  /\ IF \E i \in 1 .. Len(list) : list[i] = s
     THEN \E i \in 1 .. Len(list) :
            /\ list[i] = s
            /\ list' = RemoveAt(list, i)
            /\ since' = RemoveAt(since, i)
     ELSE UNCHANGED <<list, since>>
CloseAndRemove(s) ==
  IF \E i \in 1 .. Len(list) : list[i] = s
  THEN \E i \in 1 .. Len(list) :
         /\ list[i] = s
         /\ list' = RemoveAt(list, i)
         /\ since' = RemoveAt(since, i)
         /\ closed' = [closed EXCEPT ![s] = TRUE]
  ELSE UNCHANGED <<list, since, closed>>

Unsubscribe(s) ==
  /\ stream[s] = "unsubscribe"
  /\ mutex = None
  /\ CloseAndRemove(s)
  /\ stream' = [stream EXCEPT ![s] = "drain"]
  /\ UNCHANGED <<log, pub, idx, mutex, start, catchUpVars, taken, got, sent>>

Drain(s) ==
  /\ stream[s] = "drain"
  /\ taken[s] < Len(sent[s])
  /\ taken' = [taken EXCEPT ![s] = @ + 1]
  /\ UNCHANGED <<log, pub, idx, mutex, listVars, start, catchUpVars, stream, got, sent,
                 closed>>

DrainEnd(s) ==
  /\ stream[s] = "drain"
  /\ taken[s] = Len(sent[s])
  /\ closed[s]
  /\ stream' = [stream EXCEPT ![s] = "done"]
  /\ UNCHANGED <<log, pub, idx, mutex, listVars, start, catchUpVars, taken, got, sent,
                 closed>>

-----------------------------------------------------------------------------
Publish == PublishLock \/ PublishSend \/ PublishUnlock

CatchUp(s) ==
  CatchUpLock(s) \/ CatchUpSend(s) \/ CatchUpBlock(s) \/ CatchUpAgain(s) \/ CatchUpSwitch(s)

Stream(s) ==
  Receive(s) \/ SendOK(s) \/ SendError(s) \/ Unsubscribe(s) \/ Drain(s) \/ DrainEnd(s)

Next ==
  \/ PutMessage
  \/ Publish
  \/ \E s \in Subs : Subscribe(s) \/ CatchUp(s) \/ Stream(s)

Spec == Init /\ [][Next]_vars

\* The Go scheduler runs every goroutine that can go on, and a Send to a
\* client that reads returns.  Nothing makes messages or requests arrive.
Fairness ==
  /\ WF_vars(Publish)
  /\ \A s \in Subs : WF_vars(CatchUp(s)) /\ WF_vars(Stream(s))

FairSpec == Spec /\ Fairness
=============================================================================
