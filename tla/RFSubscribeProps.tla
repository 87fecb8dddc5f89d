--------------------------- MODULE RFSubscribeProps ---------------------------
(* What must hold, or is said to hold, of the hub's RF subscriptions.        *)
EXTENDS RFSubscribe

\* A message is delivered after it is received, received after it is sent, and
\* the messages in between fit into the channel.
ChannelOK(s) ==
  /\ got[s] <= taken[s]
  /\ taken[s] <= Len(sent[s])
  /\ Len(sent[s]) <= taken[s] + Cap

\* Every variable has the values the code gives it; in particular no buffered
\* channel of RFSubscribe ever holds more than its capacity.
TypeOK ==
  /\ log \in Seq(Nat \ {0})
  /\ pub \in {"idle", "lock", "send"}
  /\ idx \in Nat \ {0}
  /\ mutex \in Subs \cup {None, Publisher}
  /\ list \in Seq(Subs)
  /\ since \in Seq(Nat)
  /\ start \in [Subs -> StartAts \cup {NotSubscribed}]
  /\ catchUp \in [Subs -> {"none", "lock", "replay", "blocked", "done"}]
  /\ lastAt \in [Subs -> Nat]
  /\ locked \in [Subs -> BOOLEAN]
  /\ snap \in [Subs -> SUBSET (1 .. Len(log))]
  /\ stream \in [Subs -> {"none", "recv", "send", "unsubscribe", "drain", "done"}]
  /\ sent \in [Subs -> Seq(1 .. Len(log))]
  /\ taken \in [Subs -> Nat]
  /\ got \in [Subs -> Nat]
  /\ closed \in [Subs -> BOOLEAN]
  /\ \A s \in Subs : ChannelOK(s)

Listed(s) == \E i \in 1 .. Len(list) : list[i] = s

\* RFUnsubscribe never closes a channel that RFPublish or the catch-up may
\* still send into, nor one that is closed already: both panic in Go.
NoSendOnClosed ==
  \A s \in Subs : closed[s] => ~Listed(s) /\ catchUp[s] = "done"

\* The two slices of subscribers stay parallel (the code aborts the hub with
\* Fatalf otherwise) and no channel is in them twice.
ListsParallel ==
  /\ Len(list) = Len(since)
  /\ \A i, j \in 1 .. Len(list) : list[i] = list[j] => i = j

\* The mutex is released by whoever took it: a catch-up holds it exactly while
\* its flag "locked" says so, RFPublish exactly while it loops.
MutexMatchesFlags ==
  /\ (pub = "send") <=> (mutex = Publisher)
  /\ \A s \in Subs :
       (mutex = s) <=> (catchUp[s] \in {"replay", "blocked"} /\ locked[s])

\* What catchUpRFSubscribe and RFPublish together send into a channel has no
\* hole: nothing the client asked for is skipped at the first message, and
\* after it every message is followed by itself or the next one, through the
\* rounds of the replay and the switch to real time.
GapFree(s) ==
  \A i \in 1 .. Len(sent[s]) :
    IF i = 1
    THEN \A m \in 1 .. sent[s][1] - 1 : log[m] < start[s]
    ELSE sent[s][i] - sent[s][i - 1] \in {0, 1}
NoGap == \A s \in Subs : GapFree(s)

OneRepeat(s) ==
  \A i, j \in 2 .. Len(sent[s]) :
    sent[s][i] = sent[s][i - 1] /\ sent[s][j] = sent[s][j - 1] => i = j

\* The switch from replay to real time sends at most one message twice.
AtMostOneRepeat == \A s \in Subs : OneRepeat(s)

\* What the client of s has got.
Delivered(s) == SubSeq(sent[s], 1, got[s])

\* The whole machinery implements the stream promised to a client.
Promise == INSTANCE RFStream WITH got <- [s \in Subs |-> Delivered(s)]
ImplementsStream == Promise!Spec

\* A client that reads gets every message from its start time on, however the
\* Put, the publishing, the replay and other subscriptions interleave.
EveryMessageArrives ==
  \A s \in Subs : \A n \in 1 .. MaxMsgs :
    (n <= Len(log) /\ start[s] # NotSubscribed /\ log[n] >= start[s])
      ~> (\E i \in 1 .. got[s] : sent[s][i] = n)

-----------------------------------------------------------------------------
(* What the documentation says and the code does not do.                    *)

\* RFPublish waits for room in the channel of s.
PublisherWaitsFor(s) ==
  pub = "send" /\ idx <= Len(list) /\ list[idx] = s /\ Wanted(idx) /\ Full(s)

\* hub/chanhandlers.go: after a failed Send the channel is drained "so the
\* sender doesn't block".
DrainUnblocksSender ==
  \A s \in Subs :
    (stream[s] = "unsubscribe" /\ PublisherWaitsFor(s)) ~> ~PublisherWaitsFor(s)
=============================================================================
