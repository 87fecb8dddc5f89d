------------------------- MODULE SensorSubscribe_proofs -------------------------
(* Proofs about the sensor values in the hub, for any number of sensors,          *)
(* subscriptions, pushers and values and every channel capacity.                  *)
EXTENDS SensorSubscribeProps, SequenceTheorems, FiniteSetTheorems, TLAPS

-----------------------------------------------------------------------------
(* The inductive invariants of the proofs.                                    *)

\* What the types rest on: a goroutine has what it needs for its next step.
PusherFlow(p) ==
  /\ push[p].pc = "put" => push[p].at # 0
  /\ push[p].pc \in {"lock", "send"} =>
       /\ push[p].val # 0 /\ log[push[p].val].name = push[p].to
       /\ log[push[p].val].at = push[p].at /\ log[push[p].val].by = p
  /\ push[p].pc = "send" /\ hub = "up" => push[p].to \in DOMAIN list

SubFlow(s) ==
  /\ sub[s].stream = "none" => sub[s] = Fresh
  /\ sub[s].catchUp # "none" => sub[s].name \in Sensors
  /\ sub[s].catchUp \in {"replay", "blocked"} =>
       \A i \in sub[s].snap : log[i].name = sub[s].name
  /\ sub[s].closed => sub[s].stream \in {"drain", "done"}
  /\ \A k \in 1 .. Len(sub[s].sent) : log[sub[s].sent[k]].name = sub[s].name

FlowInv ==
  /\ \A p \in Pushers : PusherFlow(p)
  /\ \A s \in Subs : SubFlow(s)

\* A subscriber is listed once, and with its own sensor, from the end of its
\* catch-up until its channel is closed.
Listed(s) == sub[s].catchUp = "done" /\ ~sub[s].closed

InList(s) ==
  /\ Listed(s) => sub[s].name \in DOMAIN list
  /\ sub[s].closed => sub[s].catchUp = "done"
  /\ \A n \in DOMAIN list :
       /\ At(s, n) # {} <=> Listed(s) /\ n = sub[s].name
       /\ \A i, j \in At(s, n) : i = j

ListInv ==
  /\ DOMAIN list = DOMAIN since
  /\ \A n \in DOMAIN list : Len(list[n]) = Len(since[n])
  /\ \A s \in Subs : InList(s)

\* The time up to which s has been replayed what there was is that of a value.
ReachedBy(s, t) == \E j \in 1 .. Len(log) : log[j].name = sub[s].name /\ log[j].at = t

Reached(s) ==
  /\ sub[s].catchUp = "lock" => sub[s].lastAt = sub[s].start \/ ReachedBy(s, sub[s].lastAt - 1)
  /\ sub[s].catchUp \in {"replay", "blocked"} =>
       /\ sub[s].lastAt = 0 \/ ReachedBy(s, sub[s].lastAt)
       /\ sub[s].catchUp = "replay" /\ ~sub[s].locked => sub[s].lastAt # 0
  /\ Listed(s) => \A k \in At(s, sub[s].name) :
                    since[sub[s].name][k] = 1 \/ ReachedBy(s, since[sub[s].name][k] - 1)

ReachedInv == \A s \in Subs : Reached(s)

\* A value that s asked for, which came in the order of the times.
Wants(s, i) ==
  /\ i \in 1 .. Len(log)
  /\ log[i].name = sub[s].name /\ log[i].at >= sub[s].start /\ InOrder(i)

Got(s, i) == \E k \in 1 .. Len(sub[s].sent) : sub[s].sent[k] = i

\* A value of which its pusher has not begun to tell the subscribers.
Untold(i) == \E p \in Pushers : push[p].val = i /\ push[p].pc = "lock"

\* Before a round of its catch-up s got all up to lastAt; during it, all but
\* those still to be replayed and later ones, which are untold while the mutex
\* is held; after it, all that its pusher has offered or will not offer.
CaughtUp(s, i) ==
  /\ sub[s].catchUp = "lock" => log[i].at >= sub[s].lastAt
  /\ sub[s].catchUp \in {"replay", "blocked"} /\ i \notin sub[s].snap =>
       /\ sub[s].lastAt < log[i].at
       /\ \A j \in sub[s].snap : log[j].at < log[i].at
       /\ sub[s].locked => Untold(i)
  /\ Listed(s) =>
       /\ InFlight(i, s)
       /\ \A k \in At(s, sub[s].name) : log[i].at >= since[sub[s].name][k]

CaughtUpInv ==
  hub = "up" => \A s \in Subs : \A i \in 1 .. Len(log) :
                  Wants(s, i) /\ ~Got(s, i) => CaughtUp(s, i)

\* A pusher that tells the subscribers of a value tells them of its last one.
LatestInv ==
  \A p \in Pushers : push[p].pc \in {"lock", "send"} =>
    \A j \in 1 .. Len(log) : log[j].by = p => j <= push[p].val

\* A catch-up replays values in the order of their times, each time once, all of
\* them later than what the rounds before have sent.
Rising(s) ==
  /\ sub[s].catchUp = "lock" =>
       \A k \in 1 .. Len(sub[s].sent) : log[sub[s].sent[k]].at < sub[s].lastAt
  /\ sub[s].catchUp \in {"replay", "blocked"} =>
       /\ \A i, j \in sub[s].snap : log[i].at = log[j].at => i = j
       /\ \A k \in 1 .. Len(sub[s].sent) :
            /\ sub[s].lastAt = 0 \/ log[sub[s].sent[k]].at <= sub[s].lastAt
            /\ \A j \in sub[s].snap : log[sub[s].sent[k]].at < log[j].at

Ordered(s) ==
  \A k, l \in 1 .. Len(sub[s].sent) :
    k < l /\ log[sub[s].sent[k]].by = log[sub[s].sent[l]].by /\ sub[s].sent[l] < sub[s].sent[k]
      => log[sub[s].sent[l]].at >= log[sub[s].sent[k]].at

Once(s, i) ==
  \A k, l \in 1 .. Len(sub[s].sent) : sub[s].sent[k] = i /\ sub[s].sent[l] = i => k = l

Twice(s, i) ==
  \A k, l, m \in 1 .. Len(sub[s].sent) :
    sub[s].sent[k] = i /\ sub[s].sent[l] = i /\ sub[s].sent[m] = i => k = l \/ l = m \/ k = m

\* A value is replayed once and pushed once: before it is pushed, it is there
\* only once.
Counted(s) ==
  \A i \in 1 .. Len(log) :
    /\ Twice(s, i)
    /\ sub[s].catchUp # "done" => Once(s, i)
    /\ hub = "up" /\ Listed(s) /\ InFlight(i, s) => Once(s, i)

OrderInv == LatestInv /\ \A s \in Subs : Rising(s) /\ Ordered(s) /\ Counted(s)

SensorInv ==
  TypeOK /\ FlowInv /\ MutexMatchesFlags /\ ListInv /\ ReachedInv /\ CaughtUpInv /\ OrderInv

-----------------------------------------------------------------------------
\* What cutting one element out of a sequence leaves: the slices of
\* removeSensorSubscriber.
LEMMA RemoveAtProperties ==
  ASSUME NEW S, NEW q \in Seq(S), NEW k \in 1 .. Len(q)
  PROVE  /\ RemoveAt(q, k) \in Seq(S)
         /\ Len(RemoveAt(q, k)) = Len(q) - 1
         /\ \A j \in 1 .. Len(q) - 1 :
              RemoveAt(q, k)[j] = IF j < k THEN q[j] ELSE q[j + 1]
<1> DEFINE a == SubSeq(q, 1, k - 1)
           b == SubSeq(q, k + 1, Len(q))
<1>1. a \in Seq(S) /\ Len(a) = k - 1 /\ \A j \in 1 .. k - 1 : a[j] = q[j]
  <2>1. \A j \in 1 .. k - 1 : q[j] \in S
    OBVIOUS
  <2>2. QED
    BY <2>1, SubSeqProperties, 1 \in Int, k - 1 \in Int
<1>2. b \in Seq(S) /\ Len(b) = Len(q) - k /\ \A j \in 1 .. Len(q) - k : b[j] = q[k + j]
  <2>1. \A j \in k + 1 .. Len(q) : q[j] \in S
    OBVIOUS
  <2>2. k + 1 \in Int /\ Len(q) \in Int /\ k \in Int
    OBVIOUS
  <2>3. /\ b \in Seq(S)
        /\ Len(b) = IF k + 1 <= Len(q) THEN Len(q) - (k + 1) + 1 ELSE 0
        /\ \A j \in 1 .. Len(q) - (k + 1) + 1 : b[j] = q[k + 1 + j - 1]
    BY <2>1, <2>2, SubSeqProperties
  <2>4. QED
    BY <2>2, <2>3
<1>3. RemoveAt(q, k) = a \o b
  BY DEF RemoveAt
<1> HIDE DEF a, b
<1>4. /\ a \o b \in Seq(S)
      /\ Len(a \o b) = Len(a) + Len(b)
      /\ \A j \in 1 .. Len(a) + Len(b) :
           (a \o b)[j] = IF j <= Len(a) THEN a[j] ELSE b[j - Len(a)]
  BY <1>1, <1>2, ConcatProperties
<1>5. k \in 1 .. Len(q) /\ Len(q) \in Nat
  OBVIOUS
<1>6. ASSUME NEW j \in 1 .. Len(q) - 1
      PROVE  (a \o b)[j] = IF j < k THEN q[j] ELSE q[j + 1]
  <2>1. j \in 1 .. Len(a) + Len(b) /\ Len(a) = k - 1
    BY <1>1, <1>2, <1>5
  <2>2. CASE j < k
    <3>1. (a \o b)[j] = a[j]
      BY <1>4, <1>5, <2>1, <2>2
    <3>2. QED
      BY <1>1, <1>5, <2>2, <3>1
  <2>3. CASE ~(j < k)
    <3> DEFINE i == j - Len(a)
    <3>1. (a \o b)[j] = b[i]
      BY <1>4, <1>5, <2>1, <2>3
    <3>2. i \in 1 .. Len(q) - k /\ k + i = j + 1
      BY <1>5, <2>1, <2>3
    <3>3. b[i] = q[k + i]
      BY <1>2, <3>2
    <3>4. QED
      BY <2>3, <3>1, <3>2, <3>3
  <2>4. QED
    BY <2>2, <2>3
<1>7. QED
  BY <1>1, <1>2, <1>3, <1>4, <1>5, <1>6

-----------------------------------------------------------------------------
(* What the steps do to the record of a subscription.                        *)

\* The types of one subscription and of one pusher.
LEMMA Types ==
  ASSUME TypeOK
  PROVE  /\ log \in Seq(Value) /\ Len(log) \in Nat /\ now \in Nat
         /\ Cap \in Nat \ {0} /\ None \notin Subs \cup Pushers \cup Sensors
         /\ Subs \cap Pushers = {} /\ StartAts \subseteq Nat
         /\ \A i \in 1 .. Len(log) :
              log[i].name \in Sensors /\ log[i].by \in Pushers /\ log[i].at \in Nat \ {0}
         /\ \A s \in Subs :
              /\ sub[s] \in Subscription
              /\ sub[s].name \in Sensors \cup {None} /\ sub[s].start \in Nat
              /\ sub[s].catchUp \in {"none", "lock", "replay", "blocked", "done"}
              /\ sub[s].lastAt \in Nat /\ sub[s].locked \in BOOLEAN
              /\ sub[s].snap \subseteq 1 .. Len(log)
              /\ sub[s].stream \in {"none", "recv", "send", "unsubscribe", "drain", "done"}
              /\ sub[s].sent \in Seq(1 .. Len(log)) /\ Len(sub[s].sent) \in Nat
              /\ sub[s].taken \in Nat /\ sub[s].closed \in BOOLEAN
         /\ \A p \in Pushers :
              /\ push[p].to \in Sensors /\ push[p].pc \in {"idle", "put", "lock", "send"}
              /\ push[p].at \in Nat /\ push[p].val \in 0 .. Len(log) /\ push[p].idx \in Nat \ {0}
<1>1. log \in Seq(Value) /\ now \in Nat
  BY DEF TypeOK
<1>2. \A i \in 1 .. Len(log) :
        log[i].name \in Sensors /\ log[i].by \in Pushers /\ log[i].at \in Nat \ {0}
  <2>1. \A i \in 1 .. Len(log) : log[i] \in Value
    BY <1>1
  <2>2. QED
    BY <2>1 DEF Value
<1>3. ASSUME NEW s \in Subs
      PROVE  /\ sub[s] \in Subscription
             /\ sub[s].name \in Sensors \cup {None} /\ sub[s].start \in Nat
             /\ sub[s].catchUp \in {"none", "lock", "replay", "blocked", "done"}
             /\ sub[s].lastAt \in Nat /\ sub[s].locked \in BOOLEAN
             /\ sub[s].snap \subseteq 1 .. Len(log)
             /\ sub[s].stream \in {"none", "recv", "send", "unsubscribe", "drain", "done"}
             /\ sub[s].sent \in Seq(1 .. Len(log)) /\ Len(sub[s].sent) \in Nat
             /\ sub[s].taken \in Nat /\ sub[s].closed \in BOOLEAN
  <2>1. sub[s] \in Subscription
    BY DEF TypeOK
  <2>2. sub[s].start \in Nat
    <3>1. sub[s].start \in StartAts \cup {0}
      BY <2>1 DEF Subscription
    <3>2. \A x \in StartAts \cup {0} : x \in Nat
      BY ConstantsAssumption
    <3>3. QED
      BY <3>1, <3>2
  <2>3. sub[s].sent \in Seq(1 .. Len(log))
    BY <2>1 DEF Subscription
  <2>4. Len(sub[s].sent) \in Nat
    BY <2>3
  <2>5. /\ sub[s].name \in Sensors \cup {None} /\ sub[s].locked \in BOOLEAN
        /\ sub[s].catchUp \in {"none", "lock", "replay", "blocked", "done"}
        /\ sub[s].stream \in {"none", "recv", "send", "unsubscribe", "drain", "done"}
    BY <2>1 DEF Subscription
  <2>6. /\ sub[s].snap \subseteq 1 .. Len(log) /\ sub[s].lastAt \in Nat
        /\ sub[s].taken \in Nat /\ sub[s].closed \in BOOLEAN
    BY <2>1 DEF Subscription
  <2>7. QED
    BY <2>1, <2>2, <2>3, <2>4, <2>5, <2>6
<1>4. ASSUME NEW p \in Pushers
      PROVE  /\ push[p].to \in Sensors /\ push[p].pc \in {"idle", "put", "lock", "send"}
             /\ push[p].at \in Nat /\ push[p].val \in 0 .. Len(log)
             /\ push[p].idx \in Nat \ {0}
  <2>1. push[p] \in Pushing
    BY DEF TypeOK
  <2>2. QED
    BY <2>1 DEF Pushing
<1>5. /\ Cap \in Nat \ {0} /\ None \notin Subs \cup Pushers \cup Sensors
      /\ Subs \cap Pushers = {} /\ StartAts \subseteq Nat /\ Len(log) \in Nat
  BY <1>1, ConstantsAssumption
<1>6. QED
  BY <1>1, <1>2, <1>3, <1>4, <1>5

\* One subscription has another record.
LEMMA SubChange ==
  ASSUME sub \in [Subs -> Subscription], NEW s \in Subs, NEW r,
         sub' = [sub EXCEPT ![s] = r]
  PROVE  sub'[s] = r /\ \A t \in Subs \ {s} : sub'[t] = sub[t]
OBVIOUS

LEMMA SubscribeEffect ==
  ASSUME TypeOK, NEW s \in Subs, Subscribe(s)
  PROVE  \E n \in Sensors, t \in StartAts :
           /\ sub'[s] = [sub[s] EXCEPT !.name = n, !.start = t, !.lastAt = t,
                                       !.catchUp = "lock", !.stream = "recv"]
           /\ sub' = [sub EXCEPT ![s] = sub'[s]]
<1>1. sub \in [Subs -> Subscription]
  BY DEF TypeOK
<1>2. PICK n \in Sensors, t \in StartAts :
        sub' = [sub EXCEPT ![s].name = n, ![s].start = t, ![s].lastAt = t,
                           ![s].catchUp = "lock", ![s].stream = "recv"]
  BY DEF Subscribe
<1>3. sub'[s] = [sub[s] EXCEPT !.name = n, !.start = t, !.lastAt = t,
                              !.catchUp = "lock", !.stream = "recv"]
  BY <1>1, <1>2
<1>4. sub' = [sub EXCEPT ![s] = sub'[s]]
  BY <1>1, <1>2
<1>5. QED
  BY <1>3, <1>4

LEMMA CatchUpEffect ==
  ASSUME TypeOK, NEW s \in Subs, CatchUp(s)
  PROVE  /\ sub' = [sub EXCEPT ![s] = sub'[s]]
         /\ CatchUpLock(s) => sub'[s] = [sub[s] EXCEPT !.catchUp = "replay", !.locked = TRUE,
              !.lastAt = 0, !.snap = Replay(sub[s].name, sub[s].lastAt)]
         /\ CatchUpBlock(s) => sub'[s] = [sub[s] EXCEPT !.catchUp = "blocked", !.locked = FALSE]
         /\ CatchUpAgain(s) => sub'[s] = [sub[s] EXCEPT !.catchUp = "lock",
              !.lastAt = sub[s].lastAt + 1]
         /\ CatchUpSwitch(s) => sub'[s] = [sub[s] EXCEPT !.catchUp = "done"]
         /\ CatchUpSend(s) => \E i \in sub[s].snap :
              /\ \A j \in sub[s].snap : log[i].at <= log[j].at
              /\ sub'[s] = [sub[s] EXCEPT !.catchUp = "replay", !.lastAt = log[i].at,
                              !.snap = sub[s].snap \ {i}, !.sent = Append(sub[s].sent, i)]
BY DEF TypeOK, CatchUp, CatchUpLock, CatchUpBlock, CatchUpAgain, CatchUpSwitch, CatchUpSend, ResumeAt

LEMMA StreamEffect ==
  ASSUME TypeOK, NEW s \in Subs, Stream(s)
  PROVE  /\ sub' = [sub EXCEPT ![s] = sub'[s]]
         /\ Receive(s) => sub'[s] = [sub[s] EXCEPT !.stream = "send", !.taken = sub[s].taken + 1]
         /\ Sent(s) => \E next \in {"recv", "unsubscribe"} :
              sub'[s] = [sub[s] EXCEPT !.stream = next]
         /\ Unsubscribe(s) => sub'[s] = [sub[s] EXCEPT !.stream = "drain",
              !.closed = \E n \in DOMAIN list : At(s, n) # {}]
         /\ Drain(s) => \/ /\ sub[s].taken < Len(sub[s].sent)
                           /\ sub'[s] = [sub[s] EXCEPT !.taken = sub[s].taken + 1]
                        \/ sub'[s] = [sub[s] EXCEPT !.stream = "done"]
BY DEF TypeOK, Stream, Receive, Sent, Unsubscribe, Close, Drain

LEMMA PushEffect ==
  ASSUME TypeOK, NEW p \in Pushers, Stamp(p) \/ PutValue(p) \/ Publish(p)
  PROVE  /\ push' = [push EXCEPT ![p] = push'[p]]
         /\ Stamp(p) => \E t \in ClientTimes \cup {now + 1} :
              /\ push'[p] = [push[p] EXCEPT !.pc = "put", !.at = t]
              /\ now' = IF t > now THEN t ELSE now
         /\ PutValue(p) => push'[p] = [push[p] EXCEPT !.pc = "lock", !.val = Len(log) + 1]
         /\ PublishLock(p) => push'[p] = [push[p] EXCEPT !.pc = "send", !.idx = 1]
         /\ PublishSend(p) => push'[p] = [push[p] EXCEPT !.idx = push[p].idx + 1]
         /\ PublishUnlock(p) => push'[p] = [push[p] EXCEPT !.pc = "idle"]
<1>1. push \in [Pushers -> Pushing]
  BY DEF TypeOK
<1>2. CASE Stamp(p)
  BY <1>1, <1>2 DEF Stamp, PutValue, Publish, PublishLock, PublishSend, PublishUnlock
<1>3. CASE PutValue(p)
  <2>1. Len(log') = Len(log) + 1
    BY <1>3 DEF PutValue, TypeOK
  <2>2. QED
    BY <1>1, <1>3, <2>1 DEF Stamp, PutValue, PublishLock, PublishSend, PublishUnlock
<1>4. CASE Publish(p)
  BY <1>1, <1>4 DEF Stamp, PutValue, Publish, PublishLock, PublishSend, PublishUnlock
<1>5. QED
  BY <1>2, <1>3, <1>4

\* The fields of a subscription after a step of its catch-up.
LEMMA CatchUpFields ==
  ASSUME TypeOK, NEW s \in Subs, CatchUp(s)
  PROVE  /\ \A t \in Subs \ {s} : sub'[t] = sub[t]
         /\ sub'[s].name = sub[s].name /\ sub'[s].start = sub[s].start
         /\ sub'[s].stream = sub[s].stream /\ sub'[s].closed = sub[s].closed
         /\ sub'[s].taken = sub[s].taken
         /\ ~CatchUpSend(s) => sub'[s].sent = sub[s].sent
         /\ CatchUpLock(s) =>
              /\ sub'[s].catchUp = "replay" /\ sub'[s].locked = TRUE /\ sub'[s].lastAt = 0
              /\ sub'[s].snap = Replay(sub[s].name, sub[s].lastAt)
         /\ CatchUpBlock(s) =>
              /\ sub'[s].catchUp = "blocked" /\ sub'[s].locked = FALSE
              /\ sub'[s].lastAt = sub[s].lastAt /\ sub'[s].snap = sub[s].snap
         /\ CatchUpAgain(s) =>
              /\ sub'[s].catchUp = "lock" /\ sub'[s].locked = sub[s].locked
              /\ sub'[s].lastAt = sub[s].lastAt + 1
         /\ CatchUpSwitch(s) => sub'[s].catchUp = "done"
         /\ CatchUpSend(s) => \E i \in sub[s].snap :
              /\ \A j \in sub[s].snap : log[i].at <= log[j].at
              /\ sub'[s].catchUp = "replay" /\ sub'[s].locked = sub[s].locked
              /\ sub'[s].lastAt = log[i].at /\ sub'[s].snap = sub[s].snap \ {i}
              /\ sub'[s].sent = Append(sub[s].sent, i)
<1>1. sub[s] \in Subscription /\ sub \in [Subs -> Subscription]
  BY DEF TypeOK
<1>2. /\ \A t \in Subs \ {s} : sub'[t] = sub[t]
      /\ \E c : sub' = [sub EXCEPT ![s] = c]
  BY <1>1, CatchUpEffect
<1>3. CASE CatchUpLock(s)
  <2>1. PICK r : r = Replay(sub[s].name, sub[s].lastAt)
    OBVIOUS
  <2>2. sub'[s] = [sub[s] EXCEPT !.catchUp = "replay", !.locked = TRUE, !.lastAt = 0, !.snap = r]
    BY <1>3, <2>1, CatchUpEffect
  <2>3. ~CatchUpBlock(s) /\ ~CatchUpAgain(s) /\ ~CatchUpSwitch(s) /\ ~CatchUpSend(s)
    BY <1>3 DEF CatchUpLock, CatchUpBlock, CatchUpAgain, CatchUpSwitch, CatchUpSend
  <2>4. QED
    BY <1>1, <1>2, <2>1, <2>2, <2>3 DEF Subscription
<1>4. CASE CatchUpBlock(s)
  <2>1. sub'[s] = [sub[s] EXCEPT !.catchUp = "blocked", !.locked = FALSE]
    BY <1>4, CatchUpEffect
  <2>2. ~CatchUpLock(s) /\ ~CatchUpAgain(s) /\ ~CatchUpSwitch(s) /\ ~CatchUpSend(s)
    BY <1>4 DEF CatchUpLock, CatchUpBlock, CatchUpAgain, CatchUpSwitch, CatchUpSend
  <2>3. QED
    BY <1>1, <1>2, <2>1, <2>2 DEF Subscription
<1>5. CASE CatchUpAgain(s)
  <2>1. PICK t : t = sub[s].lastAt + 1
    OBVIOUS
  <2>2. sub'[s] = [sub[s] EXCEPT !.catchUp = "lock", !.lastAt = t]
    BY <1>5, <2>1, CatchUpEffect
  <2>3. ~CatchUpLock(s) /\ ~CatchUpBlock(s) /\ ~CatchUpSwitch(s) /\ ~CatchUpSend(s)
    BY <1>1, <1>5 DEF CatchUpLock, CatchUpBlock, CatchUpAgain, CatchUpSwitch, CatchUpSend, Subscription
  <2>4. QED
    BY <1>1, <1>2, <2>1, <2>2, <2>3 DEF Subscription
<1>6. CASE CatchUpSwitch(s)
  <2>1. sub'[s] = [sub[s] EXCEPT !.catchUp = "done"]
    BY <1>6, CatchUpEffect
  <2>2. ~CatchUpLock(s) /\ ~CatchUpBlock(s) /\ ~CatchUpAgain(s) /\ ~CatchUpSend(s)
    BY <1>6 DEF CatchUpLock, CatchUpBlock, CatchUpAgain, CatchUpSwitch, CatchUpSend
  <2>3. QED
    BY <1>1, <1>2, <2>1, <2>2 DEF Subscription
<1>7. CASE CatchUpSend(s)
  <2>1. PICK i \in sub[s].snap :
          /\ \A j \in sub[s].snap : log[i].at <= log[j].at
          /\ sub'[s] = [sub[s] EXCEPT !.catchUp = "replay", !.lastAt = log[i].at,
                          !.snap = sub[s].snap \ {i}, !.sent = Append(sub[s].sent, i)]
    BY <1>7, CatchUpEffect
  <2>2. PICK t, r, q : t = log[i].at /\ r = sub[s].snap \ {i} /\ q = Append(sub[s].sent, i)
    OBVIOUS
  <2>3. sub'[s] = [sub[s] EXCEPT !.catchUp = "replay", !.lastAt = t, !.snap = r, !.sent = q]
    BY <2>1, <2>2
  <2>4. /\ sub'[s].name = sub[s].name /\ sub'[s].start = sub[s].start
        /\ sub'[s].stream = sub[s].stream /\ sub'[s].closed = sub[s].closed
        /\ sub'[s].taken = sub[s].taken
        /\ sub'[s].catchUp = "replay" /\ sub'[s].locked = sub[s].locked
        /\ sub'[s].lastAt = t /\ sub'[s].snap = r /\ sub'[s].sent = q
    BY <1>1, <2>3 DEF Subscription
  <2>5. ~CatchUpLock(s) /\ ~CatchUpBlock(s) /\ ~CatchUpAgain(s) /\ ~CatchUpSwitch(s)
    BY <1>7 DEF CatchUpLock, CatchUpBlock, CatchUpAgain, CatchUpSwitch, CatchUpSend
  <2>6. QED
    BY <1>2, <1>7, <2>1, <2>2, <2>4, <2>5
<1>8. QED
  BY <1>3, <1>4, <1>5, <1>6, <1>7 DEF CatchUp

\* The fields of a subscription after a step of its streaming goroutine, which
\* leaves all of its catch-up alone.
LEMMA StreamFields ==
  ASSUME TypeOK, NEW s \in Subs, Stream(s)
  PROVE  /\ \A t \in Subs \ {s} : sub'[t] = sub[t]
         /\ sub'[s].name = sub[s].name /\ sub'[s].start = sub[s].start
         /\ sub'[s].catchUp = sub[s].catchUp /\ sub'[s].lastAt = sub[s].lastAt
         /\ sub'[s].locked = sub[s].locked /\ sub'[s].snap = sub[s].snap
         /\ sub'[s].sent = sub[s].sent
         /\ sub[s].stream # "none" /\ sub'[s].stream # "none"
         /\ ~Unsubscribe(s) => sub'[s].closed = sub[s].closed
         /\ Unsubscribe(s) => /\ sub'[s].stream = "drain" /\ sub[s].stream = "unsubscribe"
                              /\ sub'[s].closed = \E n \in DOMAIN list : At(s, n) # {}
         /\ sub[s].stream = "drain" => sub'[s].stream \in {"drain", "done"}
         /\ sub[s].stream # "done"
<1>1. sub[s] \in Subscription /\ sub \in [Subs -> Subscription]
  BY DEF TypeOK
<1>2. \A t \in Subs \ {s} : sub'[t] = sub[t]
  BY <1>1, StreamEffect
<1>3. CASE Receive(s)
  <2>1. PICK k : k = sub[s].taken + 1
    OBVIOUS
  <2>2. sub'[s] = [sub[s] EXCEPT !.stream = "send", !.taken = k]
    BY <1>3, <2>1, StreamEffect
  <2>3. sub[s].stream = "recv" /\ ~Unsubscribe(s)
    BY <1>3 DEF Receive, Unsubscribe
  <2>4. QED
    BY <1>1, <1>2, <2>2, <2>3 DEF Subscription
<1>4. CASE Sent(s)
  <2>1. PICK next \in {"recv", "unsubscribe"} : sub'[s] = [sub[s] EXCEPT !.stream = next]
    BY <1>4, StreamEffect
  <2>2. sub[s].stream = "send" /\ ~Unsubscribe(s)
    BY <1>4 DEF Sent, Unsubscribe
  <2>3. QED
    BY <1>1, <1>2, <2>1, <2>2 DEF Subscription
<1>5. CASE Unsubscribe(s)
  <2>1. PICK c : c = \E n \in DOMAIN list : At(s, n) # {}
    OBVIOUS
  <2>2. sub'[s] = [sub[s] EXCEPT !.stream = "drain", !.closed = c]
    BY <1>5, <2>1, StreamEffect
  <2>3. /\ sub'[s].name = sub[s].name /\ sub'[s].start = sub[s].start
        /\ sub'[s].catchUp = sub[s].catchUp /\ sub'[s].lastAt = sub[s].lastAt
        /\ sub'[s].locked = sub[s].locked /\ sub'[s].snap = sub[s].snap
        /\ sub'[s].sent = sub[s].sent /\ sub'[s].stream = "drain" /\ sub'[s].closed = c
    BY <1>1, <2>2 DEF Subscription
  <2>4. sub[s].stream = "unsubscribe"
    BY <1>5 DEF Unsubscribe
  <2>5. QED
    BY <1>2, <1>5, <2>1, <2>3, <2>4
<1>6. CASE Drain(s)
  <2>1. sub[s].stream = "drain" /\ ~Unsubscribe(s)
    BY <1>6 DEF Drain, Unsubscribe
  <2>2. PICK k : k = sub[s].taken + 1
    OBVIOUS
  <2>3. \/ sub'[s] = [sub[s] EXCEPT !.taken = k]
        \/ sub'[s] = [sub[s] EXCEPT !.stream = "done"]
    BY <1>6, <2>2, StreamEffect
  <2>4. QED
    BY <1>1, <1>2, <2>1, <2>3 DEF Subscription
<1>7. QED
  BY <1>3, <1>4, <1>5, <1>6 DEF Stream

-----------------------------------------------------------------------------
(* The types.                                                                *)

LEMMA TypeSub ==
  ASSUME TypeOK, UNCHANGED log, NEW s \in Subs, sub'[s] \in Subscription,
         Len(sub'[s].sent) - sub'[s].taken \in 0 .. Cap,
         sub' = [sub EXCEPT ![s] = sub'[s]]
  PROVE  /\ sub' \in [Subs -> Subscription']
         /\ \A t \in Subs : Len(sub'[t].sent) - sub'[t].taken \in 0 .. Cap
<1>1. SUFFICES ASSUME NEW r, r = sub'[s]
               PROVE  /\ sub' \in [Subs -> Subscription']
                      /\ \A t \in Subs : Len(sub'[t].sent) - sub'[t].taken \in 0 .. Cap
  OBVIOUS
<1>2. sub \in [Subs -> Subscription] /\ sub' = [sub EXCEPT ![s] = r] /\ r \in Subscription
  BY <1>1 DEF TypeOK
<1>3. Subscription' = Subscription
  BY DEF Subscription
<1>4. sub' \in [Subs -> Subscription]
  BY <1>2
<1>5. ASSUME NEW t \in Subs PROVE Len(sub'[t].sent) - sub'[t].taken \in 0 .. Cap
  BY <1>2 DEF TypeOK
<1>6. QED
  BY <1>3, <1>4, <1>5

LEMMA TypeStepSubscribe ==
  ASSUME TypeOK, FlowInv, NEW s \in Subs, Subscribe(s)
  PROVE  TypeOK'
<1>1. PICK n \in Sensors, t \in StartAts :
        /\ sub'[s] = [sub[s] EXCEPT !.name = n, !.start = t, !.lastAt = t,
                                    !.catchUp = "lock", !.stream = "recv"]
        /\ sub' = [sub EXCEPT ![s] = sub'[s]]
  BY SubscribeEffect
<1>2. t \in Nat
  BY ConstantsAssumption
<1>3. sub'[s] \in Subscription /\ sub'[s].sent = sub[s].sent /\ sub'[s].taken = sub[s].taken
  <2>1. sub[s] \in Subscription
    BY Types
  <2>2. QED
    BY <1>1, <1>2, <2>1 DEF Subscription
<1>4. Len(sub[s].sent) - sub[s].taken \in 0 .. Cap /\ UNCHANGED <<now, log, push, mutex, list, since, hub>>
  BY DEF TypeOK, Subscribe
<1>5. /\ sub' \in [Subs -> Subscription']
      /\ \A u \in Subs : Len(sub'[u].sent) - sub'[u].taken \in 0 .. Cap
  BY <1>1, <1>3, <1>4, TypeSub
<1>6. QED
  BY <1>4, <1>5 DEF TypeOK, Value, Pushing

LEMMA TypeStepStream ==
  ASSUME TypeOK, ListInv, NEW s \in Subs, Stream(s)
  PROVE  TypeOK'
<1>1. /\ sub[s] \in Subscription /\ Len(sub[s].sent) \in Nat /\ sub[s].taken \in Nat
      /\ Cap \in Nat /\ Len(sub[s].sent) - sub[s].taken \in 0 .. Cap
  BY Types DEF TypeOK
<1>2. /\ sub'[s] \in Subscription /\ sub'[s].sent = sub[s].sent
      /\ \/ sub'[s].taken = sub[s].taken
         \/ sub'[s].taken = sub[s].taken + 1 /\ sub[s].taken < Len(sub[s].sent)
  <2>1. CASE Receive(s)
    <3>1. /\ sub'[s] = [sub[s] EXCEPT !.stream = "send", !.taken = sub[s].taken + 1]
          /\ sub[s].taken < Len(sub[s].sent)
      BY <2>1, StreamEffect DEF Receive
    <3>2. PICK k \in Nat : k = sub[s].taken + 1
      BY <1>1
    <3>3. sub'[s] = [sub[s] EXCEPT !.stream = "send", !.taken = k]
      BY <3>1, <3>2
    <3>4. QED
      BY <1>1, <3>1, <3>2, <3>3 DEF Subscription
  <2>2. CASE Sent(s)
    <3>1. PICK next \in {"recv", "unsubscribe"} : sub'[s] = [sub[s] EXCEPT !.stream = next]
      BY <2>2, StreamEffect
    <3>2. QED
      BY <1>1, <3>1 DEF Subscription
  <2>3. CASE Unsubscribe(s)
    <3>1. PICK c \in BOOLEAN : sub'[s] = [sub[s] EXCEPT !.stream = "drain", !.closed = c]
      BY <2>3, StreamEffect
    <3>2. QED
      BY <1>1, <3>1 DEF Subscription
  <2>4. CASE Drain(s)
    <3>1. ASSUME NEW k \in Nat, k = sub[s].taken + 1, sub[s].taken < Len(sub[s].sent),
                 sub'[s] = [sub[s] EXCEPT !.taken = k]
          PROVE  /\ sub'[s] \in Subscription /\ sub'[s].sent = sub[s].sent
                 /\ sub'[s].taken = sub[s].taken + 1 /\ sub[s].taken < Len(sub[s].sent)
      BY <1>1, <3>1 DEF Subscription
    <3>2. CASE sub'[s] = [sub[s] EXCEPT !.stream = "done"]
      BY <1>1, <3>2 DEF Subscription
    <3>3. sub[s].taken + 1 \in Nat
      BY <1>1
    <3>4. QED
      BY <2>4, <3>1, <3>2, <3>3, StreamEffect
  <2>5. QED
    BY <2>1, <2>2, <2>3, <2>4 DEF Stream
<1>3. Len(sub'[s].sent) - sub'[s].taken \in 0 .. Cap
  <2>1. PICK l \in Nat, k \in Nat : l = Len(sub[s].sent) /\ k = sub[s].taken
    BY <1>1
  <2>2. CASE sub'[s].taken = sub[s].taken
    BY <1>1, <1>2, <2>2
  <2>3. CASE sub'[s].taken = k + 1 /\ k < l
    <3>1. Len(sub'[s].sent) = l /\ sub'[s].taken = k + 1
      BY <1>2, <2>1, <2>3
    <3>2. PICK m \in Nat : m = Cap
      BY <1>1
    <3>3. l - k \in 0 .. m
      BY <1>1, <2>1, <3>2
    <3>4. l - (k + 1) \in 0 .. m
      BY <2>3, <3>3
    <3>5. QED
      BY <3>1, <3>2, <3>4
  <2>4. QED
    BY <1>2, <2>1, <2>2, <2>3
<1>4. UNCHANGED <<now, log, push, mutex>>
  BY DEF Stream, Receive, Sent, Unsubscribe, Drain
<1>5. /\ sub' \in [Subs -> Subscription']
      /\ \A u \in Subs : Len(sub'[u].sent) - sub'[u].taken \in 0 .. Cap
  BY <1>2, <1>3, <1>4, StreamEffect, TypeSub
<1>6. /\ DOMAIN list' \subseteq Sensors /\ \A n \in DOMAIN list' : list'[n] \in Seq(Subs)
      /\ DOMAIN since' \subseteq Sensors /\ \A n \in DOMAIN since' : since'[n] \in Seq(Nat)
      /\ hub' \in {"up", "panic", "fatal"}
  <2>1. CASE Unsubscribe(s)
    <3>1. ASSUME NEW n \in DOMAIN list
          PROVE  list'[n] \in Seq(Subs) /\ since'[n] \in Seq(Nat)
      <4>0. /\ n \in DOMAIN since /\ Len(list[n]) = Len(since[n])
            /\ list[n] \in Seq(Subs) /\ since[n] \in Seq(Nat)
        BY DEF ListInv, TypeOK
      <4>1. CASE At(s, n) = {}
        BY <2>1, <4>0, <4>1 DEF Unsubscribe
      <4>2. CASE At(s, n) # {}
        <5>1. PICK k : k \in At(s, n) /\ At(s, n) = {k}
          BY <4>2 DEF ListInv, InList
        <5>2. Min(At(s, n)) = k /\ k \in 1 .. Len(list[n])
          BY <4>0, <5>1 DEF Min, At
        <5>3. list'[n] = RemoveAt(list[n], k) /\ since'[n] = RemoveAt(since[n], k)
          BY <2>1, <4>0, <4>2, <5>2 DEF Unsubscribe
        <5>4. QED
          BY <4>0, <5>2, <5>3, RemoveAtProperties
      <4>3. QED
        BY <4>1, <4>2
    <3>2. DOMAIN list' = DOMAIN list /\ DOMAIN since' = DOMAIN since /\ DOMAIN list = DOMAIN since
      BY <2>1 DEF Unsubscribe, ListInv
    <3>3. hub' \in {"up", "panic", "fatal"}
      BY <2>1 DEF Unsubscribe, TypeOK
    <3>4. QED
      BY <3>1, <3>2, <3>3 DEF TypeOK
  <2>2. CASE ~Unsubscribe(s)
    BY <2>2 DEF Stream, Receive, Sent, Drain, TypeOK
  <2>3. QED
    BY <2>1, <2>2
<1>7. QED
  BY <1>4, <1>5, <1>6 DEF TypeOK, Value, Pushing

\* One more value in a channel with room for it.
LEMMA AppendSent ==
  ASSUME TypeOK, NEW s \in Subs, NEW i \in 1 .. Len(log)
  PROVE  LET q == Append(sub[s].sent, i) IN
         /\ q \in Seq(1 .. Len(log)) /\ Len(q) = Len(sub[s].sent) + 1
         /\ q[Len(sub[s].sent) + 1] = i
         /\ \A k \in 1 .. Len(sub[s].sent) : q[k] = sub[s].sent[k]
         /\ ~Full(s) => Len(q) - sub[s].taken \in 0 .. Cap
<1>1. SUFFICES ASSUME NEW q, q = Append(sub[s].sent, i)
               PROVE  /\ q \in Seq(1 .. Len(log)) /\ Len(q) = Len(sub[s].sent) + 1
                      /\ q[Len(sub[s].sent) + 1] = i
                      /\ \A k \in 1 .. Len(sub[s].sent) : q[k] = sub[s].sent[k]
                      /\ ~Full(s) => Len(q) - sub[s].taken \in 0 .. Cap
  OBVIOUS
<1>2. sub[s].sent \in Seq(1 .. Len(log)) /\ Len(sub[s].sent) \in Nat /\ sub[s].taken \in Nat
  BY Types
<1>3. /\ q \in Seq(1 .. Len(log)) /\ Len(q) = Len(sub[s].sent) + 1
      /\ q[Len(sub[s].sent) + 1] = i
      /\ \A k \in 1 .. Len(sub[s].sent) : q[k] = sub[s].sent[k]
  BY <1>1, <1>2
<1>4. Len(sub[s].sent) - sub[s].taken \in 0 .. Cap /\ Cap \in Nat
  BY ConstantsAssumption DEF TypeOK
<1>5. ASSUME ~Full(s) PROVE Len(q) - sub[s].taken \in 0 .. Cap
  <2>1. \A a, b, c \in Nat : a - b \in 0 .. c /\ ~(a - b >= c) => (a + 1) - b \in 0 .. c
    OBVIOUS
  <2>2. ~(Len(sub[s].sent) - sub[s].taken >= Cap)
    BY <1>5 DEF Full
  <2>3. (Len(sub[s].sent) + 1) - sub[s].taken \in 0 .. Cap
    BY <1>2, <1>4, <2>1, <2>2
  <2>4. Len(q) = Len(sub[s].sent) + 1
    BY <1>3
  <2>5. QED
    BY <2>3, <2>4, Zenon
<1>6. QED
  BY <1>3, <1>5

\* What the catch-up of s replays: values of its sensor, each at another time.
LEMMA ReplayProperties ==
  ASSUME TypeOK, NEW n, NEW t \in Nat
  PROVE  /\ Replay(n, t) \subseteq 1 .. Len(log)
         /\ \A i \in Replay(n, t) : log[i].name = n /\ log[i].at >= t
         /\ \A i, j \in Replay(n, t) : log[i].at = log[j].at => i = j
<1>1. \A i \in Replay(n, t) :
        /\ i \in 1 .. Len(log) /\ log[i].name = n /\ log[i].at >= t
        /\ \A j \in i + 1 .. Len(log) : log[j].name = n => log[j].at # log[i].at
  <2>1. Replay(n, t) = {i \in 1 .. Len(log) :
          /\ log[i].name = n /\ log[i].at >= t
          /\ \A j \in i + 1 .. Len(log) : log[j].name = n => log[j].at # log[i].at}
    BY DEF Replay
  <2>2. QED
    BY <2>1
<1>2. ASSUME NEW i \in Replay(n, t), NEW j \in Replay(n, t), log[i].at = log[j].at, i < j
      PROVE  FALSE
  <2>1. i \in 1 .. Len(log) /\ j \in 1 .. Len(log) /\ Len(log) \in Nat
    BY <1>1, Types
  <2>2. j \in i + 1 .. Len(log)
    BY <1>2, <2>1
  <2>3. QED
    BY <1>1, <1>2, <2>2
<1>3. ASSUME NEW i \in Replay(n, t), NEW j \in Replay(n, t), log[i].at = log[j].at
      PROVE  i = j
  <2>1. i \in Nat /\ j \in Nat
    BY <1>1
  <2>2. ~(i < j) /\ ~(j < i)
    BY <1>2, <1>3
  <2>3. QED
    BY <2>1, <2>2
<1>4. QED
  BY <1>1, <1>3

\* One more element in the entry of n, which is made if there is none.
LEMMA JoinedIs ==
  ASSUME NEW f, NEW n, NEW x, NEW g, g = Joined(f, n, x)
  PROVE  /\ DOMAIN g = DOMAIN f \cup {n}
         /\ g[n] = IF n \in DOMAIN f THEN Append(f[n], x) ELSE <<x>>
         /\ \A m \in DOMAIN f \ {n} : g[m] = f[m]
BY DEF Joined, Bind

LEMMA JoinedTypes ==
  ASSUME NEW f, NEW n \in Sensors, NEW S, NEW x \in S,
         DOMAIN f \subseteq Sensors, \A m \in DOMAIN f : f[m] \in Seq(S)
  PROVE  /\ DOMAIN Joined(f, n, x) \subseteq Sensors
         /\ \A m \in DOMAIN Joined(f, n, x) : Joined(f, n, x)[m] \in Seq(S)
<1> DEFINE g == Joined(f, n, x)
<1>1. /\ DOMAIN g = DOMAIN f \cup {n}
      /\ g[n] = IF n \in DOMAIN f THEN Append(f[n], x) ELSE <<x>>
      /\ \A m \in DOMAIN f \ {n} : g[m] = f[m]
  BY DEF Joined, Bind
<1>2. g[n] \in Seq(S)
  BY <1>1
<1> HIDE DEF g
<1>3. DOMAIN g \subseteq Sensors /\ \A m \in DOMAIN g : g[m] \in Seq(S)
  BY <1>1, <1>2
<1>4. QED
  BY <1>3 DEF g

LEMMA TypeStepCatchUp ==
  ASSUME TypeOK, FlowInv, ListInv, NEW s \in Subs, CatchUp(s)
  PROVE  TypeOK'
<1>1. /\ sub[s] \in Subscription /\ Len(sub[s].sent) \in Nat /\ sub[s].taken \in Nat
      /\ Cap \in Nat /\ Len(sub[s].sent) - sub[s].taken \in 0 .. Cap
      /\ sub[s].lastAt \in Nat /\ Len(log) \in Nat
  BY Types DEF TypeOK
<1>2. sub'[s] \in Subscription /\ Len(sub'[s].sent) - sub'[s].taken \in 0 .. Cap
  <2>1. CASE CatchUpLock(s)
    <3>1. PICK r \in SUBSET (1 .. Len(log)) : r = Replay(sub[s].name, sub[s].lastAt)
      BY <1>1, ReplayProperties
    <3>2. sub'[s] = [sub[s] EXCEPT !.catchUp = "replay", !.locked = TRUE, !.lastAt = 0, !.snap = r]
      BY <2>1, <3>1, CatchUpEffect
    <3>3. PICK t \in Nat : t = 0
      OBVIOUS
    <3>4. sub'[s] = [sub[s] EXCEPT !.catchUp = "replay", !.locked = TRUE, !.lastAt = t, !.snap = r]
      BY <3>2, <3>3
    <3>5. QED
      BY <1>1, <3>4 DEF Subscription
  <2>2. CASE CatchUpSend(s)
    <3>1. PICK i \in sub[s].snap :
            sub'[s] = [sub[s] EXCEPT !.catchUp = "replay", !.lastAt = log[i].at,
                         !.snap = sub[s].snap \ {i}, !.sent = Append(sub[s].sent, i)]
      BY <2>2, CatchUpEffect
    <3>2. i \in 1 .. Len(log) /\ log[i].at \in Nat /\ sub[s].snap \ {i} \in SUBSET (1 .. Len(log))
      BY Types
    <3>3. PICK q \in Seq(1 .. Len(log)) :
            q = Append(sub[s].sent, i) /\ Len(q) - sub[s].taken \in 0 .. Cap
      <4>1. ~Full(s)
        BY <2>2 DEF CatchUpSend
      <4>2. QED
        BY <3>2, <4>1, AppendSent
    <3>4. PICK t \in Nat, r \in SUBSET (1 .. Len(log)) : t = log[i].at /\ r = sub[s].snap \ {i}
      BY <3>2
    <3>5. sub'[s] = [sub[s] EXCEPT !.catchUp = "replay", !.lastAt = t, !.snap = r, !.sent = q]
      BY <3>1, <3>3, <3>4
    <3>6. sub'[s] \in Subscription
      BY <1>1, <3>3, <3>5 DEF Subscription
    <3>7. sub'[s].sent = q /\ sub'[s].taken = sub[s].taken
      BY <1>1, <3>5 DEF Subscription
    <3>8. QED
      BY <3>3, <3>6, <3>7, ZenonT(30)
  <2>3. CASE CatchUpBlock(s)
    <3>1. sub'[s] = [sub[s] EXCEPT !.catchUp = "blocked", !.locked = FALSE]
      BY <2>3, CatchUpEffect
    <3>2. QED
      BY <1>1, <3>1 DEF Subscription
  <2>4. CASE CatchUpAgain(s)
    <3>1. PICK t \in Nat : t = sub[s].lastAt + 1
      BY <1>1
    <3>2. sub'[s] = [sub[s] EXCEPT !.catchUp = "lock", !.lastAt = t]
      BY <2>4, <3>1, CatchUpEffect
    <3>3. QED
      BY <1>1, <3>2 DEF Subscription
  <2>5. CASE CatchUpSwitch(s)
    <3>1. sub'[s] = [sub[s] EXCEPT !.catchUp = "done"]
      BY <2>5, CatchUpEffect
    <3>2. QED
      BY <1>1, <3>1 DEF Subscription
  <2>6. QED
    BY <2>1, <2>2, <2>3, <2>4, <2>5 DEF CatchUp
<1>3. UNCHANGED <<now, log, push, hub>> /\ mutex' \in {mutex, s, None}
  BY DEF CatchUp, CatchUpLock, CatchUpSend, CatchUpBlock, CatchUpAgain, CatchUpSwitch
<1>4. /\ sub' \in [Subs -> Subscription']
      /\ \A u \in Subs : Len(sub'[u].sent) - sub'[u].taken \in 0 .. Cap
  BY <1>2, <1>3, CatchUpEffect, TypeSub
<1>5. /\ DOMAIN list' \subseteq Sensors /\ \A n \in DOMAIN list' : list'[n] \in Seq(Subs)
      /\ DOMAIN since' \subseteq Sensors /\ \A n \in DOMAIN since' : since'[n] \in Seq(Nat)
  <2>1. CASE CatchUpSwitch(s)
    <3>1. sub[s].name \in Sensors /\ sub[s].lastAt + 1 \in Nat
      BY <1>1, <2>1 DEF CatchUpSwitch, FlowInv, PusherFlow, SubFlow
    <3>2. PICK m \in Sensors, t \in Nat : m = sub[s].name /\ t = sub[s].lastAt + 1
      BY <3>1
    <3>3. list' = Joined(list, m, s) /\ since' = Joined(since, m, t)
      BY <2>1, <3>2 DEF CatchUpSwitch, ResumeAt
    <3>4. /\ DOMAIN list' \subseteq Sensors
          /\ \A n \in DOMAIN list' : list'[n] \in Seq(Subs)
      BY <3>3, JoinedTypes DEF TypeOK
    <3>5. /\ DOMAIN since' \subseteq Sensors
          /\ \A n \in DOMAIN since' : since'[n] \in Seq(Nat)
      BY <3>3, JoinedTypes DEF TypeOK
    <3>6. QED
      BY <3>4, <3>5
  <2>2. CASE ~CatchUpSwitch(s)
    BY <2>2 DEF CatchUp, CatchUpLock, CatchUpSend, CatchUpBlock, CatchUpAgain, TypeOK
  <2>3. QED
    BY <2>1, <2>2
<1>6. QED
  BY <1>3, <1>4, <1>5 DEF TypeOK, Value, Pushing
\* A stored value: the log keeps what it has, and gets the value of p.
LEMMA LogGrows ==
  ASSUME TypeOK, FlowInv, NEW p \in Pushers, PutValue(p)
  PROVE  /\ log' \in Seq(Value) /\ Len(log') = Len(log) + 1
         /\ \A i \in 1 .. Len(log) : log'[i] = log[i]
         /\ log'[Len(log) + 1].name = push[p].to /\ log'[Len(log) + 1].by = p
         /\ log'[Len(log) + 1].at = push[p].at
         /\ \A s \in Subs : sub'[s] = sub[s]
<1>1. PICK v : v = [name |-> push[p].to, by |-> p, at |-> push[p].at]
  OBVIOUS
<1>2. v \in Value /\ v.name = push[p].to /\ v.by = p /\ v.at = push[p].at
  <2>1. push[p].to \in Sensors /\ push[p].at \in Nat \ {0}
    BY Types DEF FlowInv, PusherFlow, SubFlow, PutValue
  <2>2. QED
    BY <1>1, <2>1 DEF Value
<1>3. log \in Seq(Value) /\ log' = Append(log, v) /\ sub' = sub
  BY <1>1 DEF PutValue, TypeOK
<1>4. QED
  BY <1>2, <1>3

\* A publisher that is sending finds its sensor's list.
LEMMA TargetOf ==
  ASSUME TypeOK, FlowInv, hub = "up", NEW p \in Pushers, PublishSend(p)
  PROVE  /\ push[p].to \in DOMAIN list /\ push[p].idx \in 1 .. Len(list[push[p].to])
         /\ list[push[p].to] \in Seq(Subs)
         /\ Target(p) \in Subs /\ push[p].idx \in At(Target(p), push[p].to)
         /\ push[p].val \in 1 .. Len(log) /\ log[push[p].val].name = push[p].to
<1>1. /\ push[p].to \in DOMAIN list /\ push[p].idx \in Nat \ {0} /\ push[p].val \in 0 .. Len(log)
      /\ push[p].val # 0 /\ log[push[p].val].name = push[p].to
  BY Types DEF FlowInv, PusherFlow, SubFlow, PublishSend
<1>2. list[push[p].to] \in Seq(Subs) /\ push[p].idx <= Len(list[push[p].to])
  BY <1>1 DEF TypeOK, PublishSend
<1>3. push[p].idx \in 1 .. Len(list[push[p].to])
  BY <1>1, <1>2
<1>4. PICK q \in Seq(Subs) : q = list[push[p].to]
  BY <1>2
<1>5. PICK k \in 1 .. Len(q) : k = push[p].idx
  BY <1>3, <1>4
<1>6. Target(p) = q[k] /\ q[k] \in Subs /\ k \in {i \in 1 .. Len(q) : q[i] = q[k]}
  BY <1>4, <1>5 DEF Target
<1>7. QED
  BY <1>1, <1>2, <1>3, <1>4, <1>5, <1>6, Types DEF At

\* The send of a publisher: into the channel of its target if the value is
\* wanted, and nothing else.
LEMMA SendEffect ==
  ASSUME TypeOK, FlowInv, hub = "up", NEW p \in Pushers, PublishSend(p)
  PROVE  /\ ~Wanted(p) => sub' = sub
         /\ Wanted(p) =>
              /\ ~Full(Target(p))
              /\ sub' = [sub EXCEPT ![Target(p)] = sub'[Target(p)]]
              /\ sub'[Target(p)] = [sub[Target(p)] EXCEPT !.sent =
                                      Append(sub[Target(p)].sent, push[p].val)]
<1>1. PICK t \in Subs : t = Target(p)
  BY TargetOf
<1>2. CASE Wanted(p)
  <2>1. sub' = [sub EXCEPT ![t].sent = Append(sub[t].sent, push[p].val)] /\ ~Full(t)
    BY <1>1, <1>2 DEF PublishSend
  <2>2. sub'[t] = [sub[t] EXCEPT !.sent = Append(sub[t].sent, push[p].val)]
    BY <2>1 DEF TypeOK
  <2>3. sub' = [sub EXCEPT ![t] = sub'[t]]
    BY <2>1, <2>2 DEF TypeOK
  <2>4. QED
    BY <1>1, <1>2, <2>1, <2>2, <2>3
<1>3. CASE ~Wanted(p)
  BY <1>3 DEF PublishSend
<1>4. QED
  BY <1>2, <1>3

LEMMA TypeStepPush ==
  ASSUME TypeOK, FlowInv, hub = "up", NEW p \in Pushers, Stamp(p) \/ PutValue(p) \/ Publish(p)
  PROVE  TypeOK'
<1>1. /\ push[p] \in Pushing /\ now \in Nat /\ Len(log) \in Nat
      /\ push[p].idx \in Nat \ {0} /\ push[p].val \in 0 .. Len(log)
  BY Types DEF TypeOK
<1>2. CASE PutValue(p)
  <2>1. /\ log' \in Seq(Value) /\ Len(log') = Len(log) + 1
        /\ push' = [push EXCEPT ![p] = push'[p]]
        /\ push'[p] = [push[p] EXCEPT !.pc = "lock", !.val = Len(log) + 1]
    BY <1>2, LogGrows, PushEffect
  <2>2. PICK k \in 0 .. Len(log') : k = Len(log) + 1
    BY <1>1, <2>1
  <2>3. push \in [Pushers -> Pushing'] /\ Pushing \subseteq Pushing'
    <3>1. 0 .. Len(log) \subseteq 0 .. Len(log')
      BY <1>1, <2>1
    <3>2. Pushing \subseteq Pushing'
      BY <3>1 DEF Pushing
    <3>3. QED
      BY <3>2 DEF TypeOK
  <2>4. push'[p] \in Pushing'
    <3>1. push'[p] = [push[p] EXCEPT !.pc = "lock", !.val = k] /\ push[p] \in Pushing'
      BY <1>1, <2>1, <2>2, <2>3
    <3>2. QED
      BY <3>1 DEF Pushing
  <2>5. push' \in [Pushers -> Pushing']
    BY <2>1, <2>3, <2>4
  <2>6. Subscription \subseteq Subscription'
    <3>1. 1 .. Len(log) \subseteq 1 .. Len(log')
      BY <1>1, <2>1
    <3>2. SUBSET (1 .. Len(log)) \subseteq SUBSET (1 .. Len(log'))
      BY <3>1
    <3>3. Seq(1 .. Len(log)) \subseteq Seq(1 .. Len(log'))
      <4>1. \A A, B : A \subseteq B => Seq(A) \subseteq Seq(B)
        OBVIOUS
      <4>2. QED
        BY <3>1, <4>1, Zenon
    <3>4. ASSUME NEW A, NEW B, NEW C, NEW D, A \subseteq B, C \subseteq D
          PROVE  [name : Sensors \cup {None}, start : StartAts \cup {0},
                  catchUp : {"none", "lock", "replay", "blocked", "done"}, lastAt : Nat,
                  locked : BOOLEAN, snap : A,
                  stream : {"none", "recv", "send", "unsubscribe", "drain", "done"},
                  sent : C, taken : Nat, closed : BOOLEAN]
                 \subseteq
                 [name : Sensors \cup {None}, start : StartAts \cup {0},
                  catchUp : {"none", "lock", "replay", "blocked", "done"}, lastAt : Nat,
                  locked : BOOLEAN, snap : B,
                  stream : {"none", "recv", "send", "unsubscribe", "drain", "done"},
                  sent : D, taken : Nat, closed : BOOLEAN]
      BY <3>4
    <3>5. QED
      BY <3>2, <3>3, <3>4 DEF Subscription
  <2>7. UNCHANGED <<now, mutex, list, since, sub, hub>>
    BY <1>2 DEF PutValue
  <2>8. QED
    BY <2>1, <2>5, <2>6, <2>7 DEF TypeOK, Value
<1>3. CASE Stamp(p)
  <2>1. PICK t \in ClientTimes \cup {now + 1} :
          /\ push'[p] = [push[p] EXCEPT !.pc = "put", !.at = t]
          /\ now' = IF t > now THEN t ELSE now
          /\ push' = [push EXCEPT ![p] = push'[p]]
    BY <1>3, PushEffect
  <2>2. t \in Nat
    BY <1>1, ConstantsAssumption
  <2>3. push'[p] \in Pushing
    BY <1>1, <2>1, <2>2 DEF Pushing
  <2>4. UNCHANGED <<log, mutex, list, since, sub, hub>>
    BY <1>3 DEF Stamp
  <2>5. push' \in [Pushers -> Pushing] /\ now' \in Nat
    BY <1>1, <2>1, <2>2, <2>3 DEF TypeOK
  <2>6. QED
    BY <2>4, <2>5 DEF TypeOK, Value, Pushing, Subscription
<1>4. CASE Publish(p)
  <2>1. /\ push' = [push EXCEPT ![p] = push'[p]] /\ UNCHANGED <<now, log, list, since>>
        /\ mutex' \in {mutex, p, None} /\ hub' \in {hub, "panic"}
    BY <1>4, PushEffect DEF Publish, PublishLock, PublishSend, PublishUnlock
  <2>2. push'[p] \in Pushing
    <3>1. PICK one \in Nat \ {0}, k \in Nat \ {0} : one = 1 /\ k = push[p].idx + 1
      BY <1>1
    <3>2. CASE PublishLock(p)
      <4>1. push'[p] = [push[p] EXCEPT !.pc = "send", !.idx = one]
        BY <3>1, <3>2, PushEffect
      <4>2. QED
        BY <1>1, <4>1 DEF Pushing
    <3>3. CASE PublishSend(p)
      <4>1. push'[p] = [push[p] EXCEPT !.idx = k]
        BY <3>1, <3>3, PushEffect DEF Publish
      <4>2. QED
        BY <1>1, <4>1 DEF Pushing
    <3>4. CASE PublishUnlock(p)
      <4>1. push'[p] = [push[p] EXCEPT !.pc = "idle"]
        BY <3>4, PushEffect DEF Publish
      <4>2. QED
        BY <1>1, <4>1 DEF Pushing
    <3>5. QED
      BY <1>4, <3>2, <3>3, <3>4 DEF Publish
  <2>3. push' \in [Pushers -> Pushing]
    BY <2>1, <2>2 DEF TypeOK
  <2>4. /\ sub' \in [Subs -> Subscription']
        /\ \A u \in Subs : Len(sub'[u].sent) - sub'[u].taken \in 0 .. Cap
    <3>1. CASE PublishSend(p) /\ Wanted(p)
      <4>1. PICK s \in Subs, i \in 1 .. Len(log) : s = Target(p) /\ i = push[p].val
        BY <3>1, TargetOf
      <4>2. /\ sub' = [sub EXCEPT ![s] = sub'[s]] /\ ~Full(s)
            /\ sub'[s] = [sub[s] EXCEPT !.sent = Append(sub[s].sent, i)]
        BY <3>1, <4>1, SendEffect
      <4>3. PICK q \in Seq(1 .. Len(log)) :
              q = Append(sub[s].sent, i) /\ Len(q) - sub[s].taken \in 0 .. Cap
        BY <4>2, AppendSent
      <4>4. sub[s] \in Subscription /\ sub'[s] = [sub[s] EXCEPT !.sent = q]
        BY <4>2, <4>3, Types
      <4>5. sub'[s] \in Subscription /\ sub'[s].sent = q /\ sub'[s].taken = sub[s].taken
        BY <4>4 DEF Subscription
      <4>6. QED
        BY <2>1, <4>2, <4>3, <4>5, TypeSub
    <3>2. CASE ~(PublishSend(p) /\ Wanted(p))
      <4>1. sub' = sub
        BY <1>4, <3>2 DEF Publish, PublishLock, PublishSend, PublishUnlock
      <4>2. Subscription' = Subscription
        BY <2>1 DEF Subscription
      <4>3. QED
        BY <4>1, <4>2 DEF TypeOK
    <3>3. QED
      BY <3>1, <3>2
  <2>5. QED
    BY <2>1, <2>3, <2>4 DEF TypeOK, Value, Pushing
<1>5. QED
  BY <1>2, <1>3, <1>4

-----------------------------------------------------------------------------
(* What the goroutines have for their next steps.                            *)

\* The record of a pusher after a step of its own.
LEMMA PushFields ==
  ASSUME TypeOK, NEW p \in Pushers, Stamp(p) \/ PutValue(p) \/ Publish(p)
  PROVE  /\ \A q \in Pushers \ {p} : push'[q] = push[q]
         /\ push'[p].to = push[p].to
         /\ Stamp(p) => push'[p].pc = "put" /\ push'[p].at # 0 /\ push'[p].val = push[p].val
         /\ ~Stamp(p) => push'[p].at = push[p].at
         /\ PutValue(p) => push'[p].pc = "lock" /\ push'[p].val = Len(log) + 1
         /\ Publish(p) => push'[p].val = push[p].val
         /\ PublishLock(p) => push'[p].pc = "send" /\ push'[p].idx = 1
         /\ PublishSend(p) => push'[p].pc = push[p].pc /\ push'[p].idx = push[p].idx + 1
         /\ PublishUnlock(p) => push'[p].pc = "idle"
<1>1. push[p] \in Pushing /\ push \in [Pushers -> Pushing]
  BY DEF TypeOK
<1>2. /\ \A q \in Pushers \ {p} : push'[q] = push[q]
  BY <1>1, PushEffect
<1>3. CASE Stamp(p)
  <2>1. PICK t \in ClientTimes \cup {now + 1} : push'[p] = [push[p] EXCEPT !.pc = "put", !.at = t]
    BY <1>3, PushEffect
  <2>2. t # 0
    BY ConstantsAssumption, Types
  <2>3. push[p].pc = "idle"
    BY <1>3 DEF Stamp
  <2>4. ~PutValue(p) /\ ~Publish(p)
    BY <2>3 DEF PutValue, Publish, PublishLock, PublishSend, PublishUnlock
  <2>5. QED
    BY <1>1, <1>2, <1>3, <2>1, <2>2, <2>4 DEF Pushing, Publish
<1>4. CASE PutValue(p)
  <2>1. PICK k : k = Len(log) + 1
    OBVIOUS
  <2>2. push'[p] = [push[p] EXCEPT !.pc = "lock", !.val = k]
    BY <1>4, <2>1, PushEffect
  <2>3. ~Stamp(p) /\ ~Publish(p)
    BY <1>4 DEF Stamp, PutValue, Publish, PublishLock, PublishSend, PublishUnlock
  <2>4. QED
    BY <1>1, <1>2, <2>1, <2>2, <2>3 DEF Pushing, Publish
<1>5. CASE Publish(p)
  <2>1. ~Stamp(p) /\ ~PutValue(p)
    BY <1>5 DEF Stamp, PutValue, Publish, PublishLock, PublishSend, PublishUnlock
  <2>2. CASE PublishLock(p)
    <3>1. push'[p] = [push[p] EXCEPT !.pc = "send", !.idx = 1] /\ ~PublishSend(p) /\ ~PublishUnlock(p)
      BY <1>5, <2>2, PushEffect DEF PublishLock, PublishSend, PublishUnlock
    <3>2. QED
      BY <1>1, <1>2, <2>1, <3>1 DEF Pushing
  <2>3. CASE PublishSend(p)
    <3>1. PICK k : k = push[p].idx + 1
      OBVIOUS
    <3>2. push'[p] = [push[p] EXCEPT !.idx = k]
      BY <1>5, <2>3, <3>1, PushEffect
    <3>3. ~PublishLock(p) /\ ~PublishUnlock(p)
      <4>1. push[p].to \in Sensors /\ push[p].pc = "send" /\ push[p].idx \in Nat
        BY <2>3, Types DEF PublishSend
      <4>2. ASSUME PublishUnlock(p) PROVE FALSE
        <5>1. push'[p] = [push[p] EXCEPT !.pc = "idle"]
          BY <1>5, <4>2, PushEffect
        <5>2. push'[p].pc = "idle" /\ push'[p].pc = "send"
          BY <1>1, <3>2, <4>1, <5>1 DEF Pushing
        <5>3. QED
          BY <5>2
      <4>3. QED
        BY <4>1, <4>2 DEF PublishLock
    <3>4. QED
      BY <1>1, <1>2, <2>1, <3>1, <3>2, <3>3 DEF Pushing
  <2>4. CASE PublishUnlock(p)
    <3>1. push'[p] = [push[p] EXCEPT !.pc = "idle"] /\ ~PublishLock(p)
      BY <1>5, <2>4, PushEffect DEF PublishLock, PublishUnlock
    <3>2. /\ push'[p].pc = "idle" /\ push'[p].to = push[p].to /\ push'[p].at = push[p].at
          /\ push'[p].val = push[p].val
      BY <1>1, <3>1 DEF Pushing
    <3>3. ~PublishSend(p)
      <4>1. ASSUME PublishSend(p) PROVE FALSE
        <5>1. push'[p] = [push[p] EXCEPT !.idx = push[p].idx + 1] /\ push[p].pc = "send"
          BY <1>5, <4>1, PushEffect DEF PublishSend
        <5>2. push'[p].pc = "send"
          BY <1>1, <5>1 DEF Pushing
        <5>3. QED
          BY <3>2, <5>2
      <4>2. QED
        BY <4>1
    <3>4. QED
      BY <1>2, <2>1, <3>1, <3>2, <3>3
  <2>5. QED
    BY <1>5, <2>2, <2>3, <2>4 DEF Publish
<1>6. QED
  BY <1>3, <1>4, <1>5

\* The send of a publisher changes the channel of its target at most.
LEMMA SendFields ==
  ASSUME TypeOK, FlowInv, hub = "up", NEW p \in Pushers, PublishSend(p), NEW t \in Subs
  PROVE  /\ sub'[t].name = sub[t].name /\ sub'[t].start = sub[t].start
         /\ sub'[t].catchUp = sub[t].catchUp /\ sub'[t].lastAt = sub[t].lastAt
         /\ sub'[t].locked = sub[t].locked /\ sub'[t].snap = sub[t].snap
         /\ sub'[t].stream = sub[t].stream /\ sub'[t].taken = sub[t].taken
         /\ sub'[t].closed = sub[t].closed
         /\ sub'[t].sent = IF t = Target(p) /\ Wanted(p) THEN Append(sub[t].sent, push[p].val)
                           ELSE sub[t].sent
<1>1. sub[t] \in Subscription /\ sub \in [Subs -> Subscription]
  BY DEF TypeOK
<1>2. CASE t = Target(p) /\ Wanted(p)
  <2>1. PICK q : q = Append(sub[t].sent, push[p].val)
    OBVIOUS
  <2>2. sub'[t] = [sub[t] EXCEPT !.sent = q]
    BY <1>2, <2>1, SendEffect
  <2>3. QED
    BY <1>1, <1>2, <2>1, <2>2 DEF Subscription
<1>3. CASE ~(t = Target(p) /\ Wanted(p))
  <2>1. sub'[t] = sub[t]
    <3>1. CASE Wanted(p)
      <4>1. sub' = [sub EXCEPT ![Target(p)] = sub'[Target(p)]] /\ t # Target(p)
        BY <1>3, <3>1, SendEffect
      <4>2. QED
        BY <1>1, <4>1
    <3>2. CASE ~Wanted(p)
      BY <3>2, SendEffect
    <3>3. QED
      BY <3>1, <3>2
  <2>2. QED
    BY <1>3, <2>1
<1>4. QED
  BY <1>2, <1>3

LEMMA SubscribeFields ==
  ASSUME TypeOK, FlowInv, NEW s \in Subs, Subscribe(s)
  PROVE  /\ \A t \in Subs \ {s} : sub'[t] = sub[t]
         /\ sub'[s].name \in Sensors /\ sub'[s].start = sub'[s].lastAt
         /\ sub'[s].catchUp = "lock" /\ sub'[s].stream = "recv"
         /\ sub'[s].sent = <<>> /\ sub'[s].closed = FALSE /\ sub'[s].locked = FALSE
         /\ sub[s] = Fresh
<1>1. sub[s] = Fresh
  BY DEF FlowInv, SubFlow, Subscribe
<1>2. PICK n \in Sensors, t \in StartAts :
        /\ sub'[s] = [sub[s] EXCEPT !.name = n, !.start = t, !.lastAt = t,
                                    !.catchUp = "lock", !.stream = "recv"]
        /\ sub' = [sub EXCEPT ![s] = sub'[s]]
  BY SubscribeEffect
<1>3. \A u \in Subs \ {s} : sub'[u] = sub[u]
  BY <1>2 DEF TypeOK
<1>4. sub'[s] = [Fresh EXCEPT !.name = n, !.start = t, !.lastAt = t,
                              !.catchUp = "lock", !.stream = "recv"]
  BY <1>1, <1>2
<1>5. QED
  BY <1>1, <1>3, <1>4 DEF Fresh

\* What there is of the log stays, and the lists stay or grow by entries.
LEMMA OthersFlow ==
  ASSUME TypeOK, \A i \in 1 .. Len(log) : log'[i] = log[i]
  PROVE  /\ \A p \in Pushers : PusherFlow(p) /\ push'[p] = push[p] /\ hub = "up"
                /\ DOMAIN list \subseteq DOMAIN list' => PusherFlow(p)'
         /\ \A s \in Subs : SubFlow(s) /\ sub'[s] = sub[s] => SubFlow(s)'
<1>1. ASSUME NEW p \in Pushers, PusherFlow(p), push'[p] = push[p], hub = "up",
             DOMAIN list \subseteq DOMAIN list'
      PROVE  PusherFlow(p)'
  <2>1. push[p].pc \in {"lock", "send"} => push[p].val \in 1 .. Len(log)
    BY <1>1, Types DEF PusherFlow
  <2>2. QED
    BY <1>1, <2>1 DEF PusherFlow
<1>2. ASSUME NEW s \in Subs, SubFlow(s), sub'[s] = sub[s] PROVE SubFlow(s)'
  <2>1. sub[s].sent \in Seq(1 .. Len(log)) /\ sub[s].snap \subseteq 1 .. Len(log)
    BY Types
  <2>2. \A k \in 1 .. Len(sub[s].sent) : sub[s].sent[k] \in 1 .. Len(log)
    BY <2>1
  <2>3. QED
    BY <1>2, <2>1, <2>2 DEF SubFlow, Fresh
<1>3. QED
  BY <1>1, <1>2

LEMMA FlowStepPush ==
  ASSUME TypeOK, FlowInv, ListInv, hub = "up", NEW p \in Pushers, Stamp(p) \/ PutValue(p) \/ Publish(p)
  PROVE  FlowInv'
<1>1. /\ \A i \in 1 .. Len(log) : log'[i] = log[i]
      /\ list' = list
  <2>1. CASE PutValue(p)
    BY <2>1, LogGrows DEF PutValue
  <2>2. CASE ~PutValue(p)
    BY <2>2 DEF Stamp, Publish, PublishLock, PublishSend, PublishUnlock
  <2>3. QED
    BY <2>1, <2>2
<1>2. \A q \in Pushers \ {p} : PusherFlow(q)'
  BY <1>1, OthersFlow, PushFields DEF FlowInv
<1>3. PusherFlow(p)'
  <2>1. CASE Stamp(p)
    BY <2>1, PushFields DEF PusherFlow
  <2>2. CASE PutValue(p)
    <3>1. PICK k : k = Len(log) + 1 /\ k # 0
      BY Types
    <3>2. /\ log'[k].name = push[p].to /\ log'[k].at = push[p].at /\ log'[k].by = p
      BY <2>2, <3>1, LogGrows
    <3>3. /\ push'[p].pc = "lock" /\ push'[p].val = k /\ push'[p].to = push[p].to
          /\ push'[p].at = push[p].at
      <4>1. ~Stamp(p)
        BY <2>2 DEF PutValue, Stamp
      <4>2. QED
        BY <2>2, <3>1, <4>1, PushFields
    <3>4. QED
      BY <3>1, <3>2, <3>3 DEF PusherFlow
  <2>3. CASE Publish(p)
    <3>1. ~Stamp(p) /\ UNCHANGED <<log, list>> /\ push[p].pc \in {"lock", "send"}
      BY <2>3 DEF Stamp, Publish, PublishLock, PublishSend, PublishUnlock
    <3>2. push'[p].val = push[p].val /\ push'[p].at = push[p].at /\ push'[p].to = push[p].to
      BY <2>3, <3>1, PushFields
    <3>3. push[p].val # 0 /\ log[push[p].val].name = push[p].to
          /\ log[push[p].val].at = push[p].at /\ log[push[p].val].by = p
      BY <3>1 DEF FlowInv, PusherFlow
    <3>4. push'[p].pc # "put" /\ (push'[p].pc = "send" /\ hub' = "up" => push[p].to \in DOMAIN list)
      <4>1. CASE PublishLock(p)
        BY <2>3, <4>1, PushFields DEF PublishLock
      <4>2. CASE PublishSend(p)
        BY <2>3, <4>2, PushFields DEF PublishSend, FlowInv, PusherFlow
      <4>3. CASE PublishUnlock(p)
        BY <2>3, <4>3, PushFields
      <4>4. QED
        BY <2>3, <4>1, <4>2, <4>3 DEF Publish
    <3>5. QED
      BY <3>1, <3>2, <3>3, <3>4 DEF PusherFlow
  <2>4. QED
    BY <2>1, <2>2, <2>3
<1>4. ASSUME NEW s \in Subs PROVE SubFlow(s)'
  <2>1. CASE PublishSend(p)
    <3>1. /\ SubFlow(s) /\ UNCHANGED log /\ sub[s].sent \in Seq(1 .. Len(log))
          /\ push[p].val \in 1 .. Len(log) /\ log[push[p].val].name = push[p].to
      BY <2>1, TargetOf, Types DEF FlowInv, PublishSend
    <3>2. CASE sub'[s] = sub[s]
      BY <1>1, <3>1, <3>2, OthersFlow
    <3>3. CASE s = Target(p) /\ Wanted(p) /\ sub[s].name = push[p].to /\ Listed(s)
      <4>1. PICK v \in 1 .. Len(log) : v = push[p].val /\ log[v].name = sub[s].name
        BY <3>1, <3>3
      <4>2. sub'[s].sent = Append(sub[s].sent, v)
        BY <2>1, <3>3, <4>1, SendFields
      <4>3. ASSUME NEW k \in 1 .. Len(sub'[s].sent) PROVE log[sub'[s].sent[k]].name = sub[s].name
        BY <3>1, <4>1, <4>2 DEF SubFlow
      <4>4. sub[s].catchUp = "done" /\ sub[s].stream # "none"
        BY <3>1, <3>3 DEF Listed, SubFlow, Fresh
      <4>5. QED
        BY <2>1, <3>1, <4>3, <4>4, SendFields DEF SubFlow
    <3>4. CASE s = Target(p) /\ Wanted(p)
      <4>1. push[p].to \in DOMAIN list /\ At(s, push[p].to) # {}
        BY <2>1, <3>4, TargetOf
      <4>2. Listed(s) /\ push[p].to = sub[s].name
        BY <4>1 DEF ListInv, InList
      <4>3. QED
        BY <3>3, <3>4, <4>2
    <3>5. CASE ~(s = Target(p) /\ Wanted(p))
      <4>1. sub' = sub \/ (sub' = [sub EXCEPT ![Target(p)] = sub'[Target(p)]] /\ s # Target(p))
        BY <2>1, <3>5, SendEffect
      <4>2. sub'[s] = sub[s]
        BY <4>1 DEF TypeOK
      <4>3. QED
        BY <3>2, <4>2
    <3>6. QED
      BY <3>4, <3>5
  <2>2. CASE ~PublishSend(p)
    BY <1>1, <2>2, OthersFlow DEF FlowInv, Stamp, PutValue, Publish, PublishLock, PublishUnlock
  <2>3. QED
    BY <2>1, <2>2
<1>5. QED
  BY <1>2, <1>3, <1>4 DEF FlowInv

LEMMA FlowStepSub ==
  ASSUME TypeOK, FlowInv, ListInv, hub = "up", NEW s \in Subs, Subscribe(s) \/ CatchUp(s) \/ Stream(s)
  PROVE  FlowInv'
<1>1. UNCHANGED <<log, push>> /\ DOMAIN list \subseteq DOMAIN list'
  <2>1. CASE CatchUpSwitch(s)
    BY <2>1 DEF CatchUpSwitch, Joined, Bind
  <2>2. CASE ~CatchUpSwitch(s)
    BY <2>2 DEF Subscribe, CatchUp, CatchUpLock, CatchUpSend, CatchUpBlock, CatchUpAgain,
                Stream, Receive, Sent, Unsubscribe, Drain
  <2>3. QED
    BY <2>1, <2>2
<1>2. ASSUME NEW t \in Subs \ {s} PROVE SubFlow(t)'
  <2>1. sub'[t] = sub[t]
    BY SubscribeFields, CatchUpFields, StreamFields
  <2>2. QED
    BY <1>1, <2>1, OthersFlow DEF FlowInv
<1>3. SubFlow(s)'
  <2>0. /\ SubFlow(s) /\ sub[s].closed \in BOOLEAN
        /\ sub[s].stream \in {"none", "recv", "send", "unsubscribe", "drain", "done"}
        /\ sub[s].sent \in Seq(1 .. Len(log)) /\ sub[s].snap \subseteq 1 .. Len(log)
        /\ sub[s].lastAt \in Nat
    BY Types DEF FlowInv
  <2>1. CASE Subscribe(s)
    <3>1. /\ sub'[s].stream = "recv" /\ sub'[s].name \in Sensors /\ sub'[s].catchUp = "lock"
          /\ sub'[s].closed = FALSE /\ sub'[s].sent = <<>>
      BY <2>1, SubscribeFields
    <3>2. \A k \in 1 .. Len(sub'[s].sent) : FALSE
      BY <3>1
    <3>3. QED
      BY <3>1, <3>2 DEF SubFlow
  <2>2. CASE CatchUp(s)
    <3>1. sub[s].catchUp # "none"
      BY <2>2 DEF CatchUp, CatchUpLock, CatchUpSend, CatchUpBlock, CatchUpAgain, CatchUpSwitch
    <3>2. /\ sub'[s].name = sub[s].name /\ sub[s].name \in Sensors /\ sub[s].stream # "none"
          /\ sub'[s].stream = sub[s].stream /\ sub'[s].closed = sub[s].closed
      <4>1. Fresh.catchUp = "none"
        BY DEF Fresh
      <4>2. sub[s].name \in Sensors /\ sub[s].stream # "none"
        BY <2>0, <3>1, <4>1 DEF SubFlow
      <4>3. QED
        BY <2>2, <4>2, CatchUpFields
    <3>3. CASE CatchUpLock(s)
      <4>1. sub'[s].snap = Replay(sub[s].name, sub[s].lastAt) /\ sub'[s].sent = sub[s].sent
        <5>1. ~CatchUpSend(s)
          BY <3>3 DEF CatchUpLock, CatchUpSend
        <5>2. QED
          BY <2>2, <3>3, <5>1, CatchUpFields
      <4>2. \A i \in sub'[s].snap : log[i].name = sub[s].name
        BY <2>0, <4>1, ReplayProperties
      <4>3. QED
        BY <1>1, <2>0, <3>2, <4>1, <4>2 DEF SubFlow
    <3>4. CASE CatchUpSend(s)
      <4>1. PICK i \in sub[s].snap :
              /\ sub'[s].snap = sub[s].snap \ {i} /\ sub'[s].sent = Append(sub[s].sent, i)
        BY <2>2, <3>4, CatchUpFields
      <4>2. i \in 1 .. Len(log) /\ \A j \in sub[s].snap : log[j].name = sub[s].name
        BY <2>0, <3>4 DEF CatchUpSend, SubFlow
      <4>3. ASSUME NEW k \in 1 .. Len(sub'[s].sent) PROVE log[sub'[s].sent[k]].name = sub[s].name
        <5>1. /\ Len(sub'[s].sent) = Len(sub[s].sent) + 1 /\ Len(sub[s].sent) \in Nat
              /\ sub'[s].sent[Len(sub[s].sent) + 1] = i
              /\ \A j \in 1 .. Len(sub[s].sent) : sub'[s].sent[j] = sub[s].sent[j]
          BY <4>1, <4>2, AppendSent, Types
        <5>2. k = Len(sub[s].sent) + 1 \/ k \in 1 .. Len(sub[s].sent)
          BY <5>1
        <5>3. \A j \in 1 .. Len(sub[s].sent) : log[sub[s].sent[j]].name = sub[s].name
          BY <2>0 DEF SubFlow
        <5>4. QED
          BY <4>1, <4>2, <5>1, <5>2, <5>3
      <4>4. QED
        BY <1>1, <2>0, <3>2, <4>1, <4>2, <4>3 DEF SubFlow
    <3>5. CASE CatchUpBlock(s)
      <4>1. sub'[s].snap = sub[s].snap /\ sub'[s].sent = sub[s].sent /\ sub[s].catchUp = "replay"
        <5>1. ~CatchUpSend(s) /\ sub[s].catchUp = "replay"
          BY <3>5 DEF CatchUpBlock, CatchUpSend
        <5>2. QED
          BY <2>2, <3>5, <5>1, CatchUpFields
      <4>2. QED
        BY <1>1, <2>0, <3>2, <4>1 DEF SubFlow
    <3>6. CASE CatchUpAgain(s) \/ CatchUpSwitch(s)
      <4>1. sub'[s].catchUp \in {"lock", "done"} /\ sub'[s].sent = sub[s].sent
        <5>1. ~CatchUpSend(s)
          BY <3>6 DEF CatchUpAgain, CatchUpSwitch, CatchUpSend
        <5>2. QED
          BY <2>2, <3>6, <5>1, CatchUpFields
      <4>2. QED
        BY <1>1, <2>0, <3>2, <4>1 DEF SubFlow
    <3>7. QED
      BY <2>2, <3>3, <3>4, <3>5, <3>6 DEF CatchUp
  <2>3. CASE Stream(s)
    <3>1. sub'[s].closed => sub'[s].stream \in {"drain", "done"}
      BY <2>0, <2>3, StreamFields DEF SubFlow
    <3>2. /\ sub'[s].stream # "none" /\ sub[s].stream # "none" /\ sub'[s].name = sub[s].name
          /\ sub'[s].catchUp = sub[s].catchUp /\ sub'[s].snap = sub[s].snap
          /\ sub'[s].sent = sub[s].sent
      BY <2>3, StreamFields
    <3>3. QED
      BY <1>1, <2>0, <3>1, <3>2 DEF SubFlow
  <2>4. QED
    BY <2>1, <2>2, <2>3
<1>4. \A p \in Pushers : PusherFlow(p)'
  BY <1>1, OthersFlow DEF FlowInv
<1>5. QED
  BY <1>2, <1>3, <1>4 DEF FlowInv

-----------------------------------------------------------------------------
(* The mutex.                                                                *)

LEMMA MutexStep ==
  ASSUME TypeOK, FlowInv, MutexMatchesFlags, hub = "up", Next
  PROVE  MutexMatchesFlags'
<1>0. None \notin Subs \cup Pushers /\ Subs \cap Pushers = {}
  BY ConstantsAssumption
<1>1. ASSUME NEW p \in Pushers, Stamp(p) \/ PutValue(p) \/ Publish(p)
      PROVE  MutexMatchesFlags'
  <2>1. \A q \in Pushers \ {p} : push'[q] = push[q]
    BY <1>1, PushFields
  <2>2. \A s \in Subs : sub'[s].catchUp = sub[s].catchUp /\ sub'[s].locked = sub[s].locked
    <3>1. CASE PublishSend(p)
      BY <3>1, SendFields
    <3>2. CASE ~PublishSend(p)
      BY <1>1, <3>2 DEF Stamp, PutValue, Publish, PublishLock, PublishUnlock
    <3>3. QED
      BY <3>1, <3>2
  <2>3. CASE Stamp(p) \/ PutValue(p)
    <3>1. mutex' = mutex /\ push[p].pc # "send" /\ push'[p].pc # "send"
      BY <2>3, PushFields DEF Stamp, PutValue
    <3>2. QED
      BY <2>1, <2>2, <3>1 DEF MutexMatchesFlags
  <2>4. CASE PublishLock(p)
    <3>1. mutex' = p /\ mutex = None /\ push'[p].pc = "send"
      BY <1>1, <2>4, PushFields DEF PublishLock, Publish
    <3>2. QED
      BY <1>0, <2>1, <2>2, <3>1 DEF MutexMatchesFlags
  <2>5. CASE PublishSend(p)
    <3>1. mutex' = mutex /\ push'[p].pc = push[p].pc
      BY <1>1, <2>5, PushFields DEF PublishSend, Publish
    <3>2. QED
      BY <2>1, <2>2, <3>1 DEF MutexMatchesFlags
  <2>6. CASE PublishUnlock(p)
    <3>1. mutex' = None /\ mutex = p /\ push'[p].pc = "idle"
      BY <1>1, <2>6, PushFields DEF PublishUnlock, Publish, MutexMatchesFlags
    <3>2. QED
      BY <1>0, <2>1, <2>2, <3>1 DEF MutexMatchesFlags
  <2>7. QED
    BY <1>1, <2>3, <2>4, <2>5, <2>6 DEF Publish
<1>2. ASSUME NEW s \in Subs, Subscribe(s) \/ CatchUp(s) \/ Stream(s)
      PROVE  MutexMatchesFlags'
  <2>1. \A t \in Subs \ {s} : sub'[t] = sub[t]
    BY <1>2, SubscribeFields, CatchUpFields, StreamFields
  <2>2. push' = push
    BY <1>2 DEF Subscribe, CatchUp, CatchUpLock, CatchUpSend, CatchUpBlock, CatchUpAgain,
                CatchUpSwitch, Stream, Receive, Sent, Unsubscribe, Drain
  <2>3. CASE Subscribe(s)
    <3>1. mutex' = mutex /\ sub'[s].catchUp = "lock" /\ sub[s].catchUp = "none"
      <4>1. Fresh.catchUp = "none"
        BY DEF Fresh
      <4>2. mutex' = mutex
        BY <2>3 DEF Subscribe
      <4>3. QED
        BY <2>3, <4>1, <4>2, SubscribeFields
    <3>2. QED
      BY <2>1, <2>2, <3>1 DEF MutexMatchesFlags
  <2>4. CASE Stream(s)
    <3>1. /\ mutex' = mutex /\ sub'[s].catchUp = sub[s].catchUp
          /\ sub'[s].locked = sub[s].locked
      BY <2>4, StreamFields DEF Stream, Receive, Sent, Unsubscribe, Drain
    <3>2. QED
      BY <2>1, <2>2, <3>1 DEF MutexMatchesFlags
  <2>5. CASE CatchUpLock(s)
    <3>1. mutex' = s /\ mutex = None /\ sub'[s].catchUp = "replay" /\ sub'[s].locked = TRUE
      BY <1>2, <2>5, CatchUpFields DEF CatchUp, CatchUpLock
    <3>2. QED
      BY <1>0, <2>1, <2>2, <3>1 DEF MutexMatchesFlags
  <2>6. CASE CatchUpSend(s)
    <3>1. /\ mutex' = mutex /\ sub'[s].catchUp = "replay" /\ sub'[s].locked = sub[s].locked
          /\ sub[s].catchUp \in {"replay", "blocked"}
      BY <1>2, <2>6, CatchUpFields DEF CatchUp, CatchUpSend
    <3>2. QED
      BY <2>1, <2>2, <3>1 DEF MutexMatchesFlags
  <2>7. CASE CatchUpBlock(s)
    <3>1. /\ sub'[s].locked = FALSE /\ sub[s].catchUp = "replay"
          /\ mutex' = IF sub[s].locked THEN None ELSE mutex
      BY <1>2, <2>7, CatchUpFields DEF CatchUp, CatchUpBlock
    <3>2. QED
      BY <1>0, <2>1, <2>2, <3>1 DEF MutexMatchesFlags
  <2>8. CASE CatchUpAgain(s)
    <3>1. /\ mutex' = mutex /\ sub'[s].catchUp = "lock" /\ ~sub[s].locked
          /\ sub[s].catchUp = "replay"
      BY <1>2, <2>8, CatchUpFields DEF CatchUp, CatchUpAgain
    <3>2. QED
      BY <2>1, <2>2, <3>1 DEF MutexMatchesFlags
  <2>9. CASE CatchUpSwitch(s)
    <3>1. /\ mutex' = None /\ sub'[s].catchUp = "done" /\ sub[s].locked
          /\ sub[s].catchUp = "replay"
      BY <1>2, <2>9, CatchUpFields DEF CatchUp, CatchUpSwitch
    <3>2. QED
      BY <1>0, <2>1, <2>2, <3>1 DEF MutexMatchesFlags
  <2>10. QED
    BY <1>2, <2>3, <2>4, <2>5, <2>6, <2>7, <2>8, <2>9 DEF CatchUp
<1>3. QED
  BY <1>1, <1>2 DEF Next

-----------------------------------------------------------------------------
(* The lists.                                                                *)

\* A step that leaves the lists alone, and whether and where one is listed.
LEMMA ListKept ==
  ASSUME ListInv, UNCHANGED <<list, since>>,
         \A t \in Subs : /\ Listed(t)' <=> Listed(t)
                         /\ Listed(t) => sub'[t].name = sub[t].name
                         /\ sub'[t].closed => sub'[t].catchUp = "done"
  PROVE  ListInv'
<1>1. ASSUME NEW t \in Subs PROVE InList(t)'
  <2>1. /\ Listed(t)' => sub'[t].name \in DOMAIN list
        /\ sub'[t].closed => sub'[t].catchUp = "done"
    BY DEF ListInv, InList
  <2>2. ASSUME NEW n \in DOMAIN list
        PROVE  /\ At(t, n) # {} <=> Listed(t)' /\ n = sub'[t].name
               /\ \A i, j \in At(t, n) : i = j
    <3>1. /\ At(t, n) # {} <=> Listed(t) /\ n = sub[t].name
          /\ \A i, j \in At(t, n) : i = j
      BY DEF ListInv, InList
    <3>2. QED
      BY <3>1
  <2>3. \A n \in DOMAIN list : At(t, n)' = At(t, n)
    BY DEF At
  <2>4. QED
    BY <2>1, <2>2, <2>3 DEF InList
<1>2. QED
  BY <1>1 DEF ListInv

\* What an element has at the positions of its sequence after one more.
LEMMA AppendAt ==
  ASSUME NEW S, NEW q \in Seq(S), NEW x \in S, NEW t, NEW r, r = Append(q, x)
  PROVE  /\ t # x => {i \in 1 .. Len(r) : r[i] = t} = {i \in 1 .. Len(q) : q[i] = t}
         /\ {i \in 1 .. Len(r) : r[i] = x} = {i \in 1 .. Len(q) : q[i] = x} \cup {Len(q) + 1}
<1>1. /\ Len(r) = Len(q) + 1 /\ Len(q) \in Nat /\ r[Len(q) + 1] = x
      /\ \A i \in 1 .. Len(q) : r[i] = q[i]
  OBVIOUS
<1>2. \A i \in 1 .. Len(r) : i \in 1 .. Len(q) \/ i = Len(q) + 1
  BY <1>1
<1>3. \A i \in 1 .. Len(q) : i \in 1 .. Len(r)
  BY <1>1
<1>4. Len(q) + 1 \in 1 .. Len(r)
  BY <1>1
<1>5. QED
  BY <1>1, <1>2, <1>3, <1>4

\* Where the elements of a sequence of length n were before the k-th was cut out.
Before(n, k) == [j \in 1 .. n - 1 |-> IF j < k THEN j ELSE j + 1]

LEMMA BeforePlaces ==
  ASSUME NEW n \in Nat, NEW k \in 1 .. n
  PROVE  /\ Before(n, k) \in [1 .. n - 1 -> 1 .. n]
         /\ \A j \in 1 .. n - 1 : Before(n, k)[j] # k
         /\ \A i, j \in 1 .. n - 1 : Before(n, k)[i] = Before(n, k)[j] => i = j
         /\ \A l \in 1 .. n : l # k => \E j \in 1 .. n - 1 : Before(n, k)[j] = l
<1>1. PICK old : old = Before(n, k)
  OBVIOUS
<1>2. \A j \in 1 .. n - 1 : old[j] = IF j < k THEN j ELSE j + 1
  BY <1>1 DEF Before
<1>3. old \in [1 .. n - 1 -> 1 .. n]
  BY <1>1 DEF Before
<1>4. \A j \in 1 .. n - 1 : old[j] # k
  BY <1>2
<1>5. \A i, j \in 1 .. n - 1 : old[i] = old[j] => i = j
  BY <1>2
<1>6. ASSUME NEW l \in 1 .. n, l # k PROVE \E j \in 1 .. n - 1 : old[j] = l
  <2>1. CASE l < k
    BY <1>2, <2>1
  <2>2. CASE ~(l < k)
    <3>1. l - 1 \in 1 .. n - 1 /\ old[l - 1] = l
      BY <1>2, <1>6, <2>2
    <3>2. QED
      BY <3>1
  <2>3. QED
    BY <2>1, <2>2
<1>7. QED
  BY <1>1, <1>3, <1>4, <1>5, <1>6

LEMMA RemoveAtBefore ==
  ASSUME NEW S, NEW q \in Seq(S), NEW k \in 1 .. Len(q)
  PROVE  /\ Len(RemoveAt(q, k)) = Len(q) - 1
         /\ \A j \in 1 .. Len(q) - 1 : RemoveAt(q, k)[j] = q[Before(Len(q), k)[j]]
<1>1. /\ Len(RemoveAt(q, k)) = Len(q) - 1
      /\ \A j \in 1 .. Len(q) - 1 : RemoveAt(q, k)[j] = IF j < k THEN q[j] ELSE q[j + 1]
  BY RemoveAtProperties
<1>2. \A j \in 1 .. Len(q) - 1 : Before(Len(q), k)[j] = IF j < k THEN j ELSE j + 1
  BY DEF Before
<1>3. QED
  BY <1>1, <1>2

\* addSensorSubscriber: s gets the last place of its sensor's list, with the time
\* after its catch-up, and all others keep theirs.
LEMMA SwitchPlaces ==
  ASSUME TypeOK, FlowInv, ListInv, NEW s \in Subs, CatchUpSwitch(s)
  PROVE  /\ sub[s].name \in Sensors
         /\ DOMAIN list' = DOMAIN list \cup {sub[s].name} /\ DOMAIN since' = DOMAIN list'
         /\ \A n \in DOMAIN list' : Len(list'[n]) = Len(since'[n])
         /\ \A t \in Subs : \A n \in DOMAIN list' :
              At(t, n)' = (IF n \in DOMAIN list THEN At(t, n) ELSE {})
                          \cup (IF t = s /\ n = sub[s].name THEN {Len(list'[n])} ELSE {})
         /\ \A n \in DOMAIN list : \A k \in 1 .. Len(list[n]) : since'[n][k] = since[n][k]
         /\ since'[sub[s].name][Len(list'[sub[s].name])] = sub[s].lastAt + 1
<1>1. PICK m \in Sensors, t0 \in Nat : m = sub[s].name /\ t0 = sub[s].lastAt + 1
  <2>1. sub[s].name \in Sensors /\ sub[s].lastAt + 1 \in Nat
    BY Types DEF CatchUpSwitch, FlowInv, SubFlow
  <2>2. QED
    BY <2>1
<1>2. /\ DOMAIN list' = DOMAIN list \cup {m}
      /\ list'[m] = IF m \in DOMAIN list THEN Append(list[m], s) ELSE <<s>>
      /\ \A n \in DOMAIN list \ {m} : list'[n] = list[n]
  BY <1>1 DEF CatchUpSwitch, Joined, Bind
<1>3. /\ DOMAIN since' = DOMAIN since \cup {m}
      /\ since'[m] = IF m \in DOMAIN since THEN Append(since[m], t0) ELSE <<t0>>
      /\ \A n \in DOMAIN since \ {m} : since'[n] = since[n]
  BY <1>1 DEF CatchUpSwitch, Joined, Bind, ResumeAt
<1>4. /\ DOMAIN list = DOMAIN since /\ \A n \in DOMAIN list : Len(list[n]) = Len(since[n])
      /\ \A n \in DOMAIN list : list[n] \in Seq(Subs) /\ since[n] \in Seq(Nat)
  BY DEF ListInv, TypeOK
<1>5. /\ Len(list'[m]) = Len(since'[m]) /\ since'[m][Len(list'[m])] = t0
      /\ m \in DOMAIN list => \A k \in 1 .. Len(list[m]) : since'[m][k] = since[m][k]
  <2>1. CASE m \in DOMAIN list
    <3>1. PICK q \in Seq(Subs), z \in Seq(Nat) : q = list[m] /\ z = since[m]
      BY <1>4, <2>1
    <3>2. Len(q) = Len(z) /\ list'[m] = Append(q, s) /\ since'[m] = Append(z, t0)
      BY <1>2, <1>3, <1>4, <2>1, <3>1
    <3>3. /\ Len(list'[m]) = Len(z) + 1 /\ Len(since'[m]) = Len(z) + 1
          /\ since'[m][Len(z) + 1] = t0 /\ \A k \in 1 .. Len(z) : since'[m][k] = z[k]
      BY <3>1, <3>2
    <3>4. QED
      BY <3>1, <3>2, <3>3
  <2>2. CASE m \notin DOMAIN list
    <3>1. list'[m] = <<s>> /\ since'[m] = <<t0>>
      BY <1>2, <1>3, <1>4, <2>2
    <3>2. QED
      BY <2>2, <3>1
  <2>3. QED
    BY <2>1, <2>2
<1>6. ASSUME NEW t \in Subs, NEW n \in DOMAIN list'
      PROVE  At(t, n)' = (IF n \in DOMAIN list THEN At(t, n) ELSE {})
                         \cup (IF t = s /\ n = m THEN {Len(list'[n])} ELSE {})
  <2>1. CASE n # m
    BY <1>2, <2>1 DEF At
  <2>2. CASE n = m /\ m \in DOMAIN list
    <3>1. PICK q \in Seq(Subs) : q = list[m]
      BY <1>4, <2>2
    <3>2. PICK r : r = Append(q, s) /\ list'[m] = r
      BY <1>2, <2>2, <3>1
    <3>3. At(t, n) = {i \in 1 .. Len(q) : q[i] = t} /\ At(t, n)' = {i \in 1 .. Len(r) : r[i] = t}
      BY <2>2, <3>1, <3>2 DEF At
    <3>4. Len(r) = Len(q) + 1
      BY <3>2
    <3>5. QED
      BY <2>2, <3>2, <3>3, <3>4, AppendAt
  <2>3. CASE n = m /\ m \notin DOMAIN list
    <3>1. list'[n] = <<s>>
      BY <1>2, <2>3
    <3>2. At(t, n)' = {i \in {1} : s = t} /\ Len(list'[n]) = 1
      BY <2>3, <3>1 DEF At
    <3>3. QED
      BY <2>3, <3>2
  <2>4. QED
    BY <2>1, <2>2, <2>3
<1>7. /\ \A n \in DOMAIN list' : Len(list'[n]) = Len(since'[n])
      /\ \A n \in DOMAIN list : \A k \in 1 .. Len(list[n]) : since'[n][k] = since[n][k]
  BY <1>2, <1>3, <1>4, <1>5
<1>8. QED
  BY <1>1, <1>2, <1>3, <1>4, <1>5, <1>6, <1>7

LEMMA ListStepSwitch ==
  ASSUME TypeOK, FlowInv, ListInv, NEW s \in Subs, CatchUpSwitch(s)
  PROVE  ListInv'
<1>1. PICK m : m = sub[s].name
  OBVIOUS
<1>2. /\ DOMAIN list' = DOMAIN list \cup {m} /\ DOMAIN since' = DOMAIN list'
      /\ \A n \in DOMAIN list' : Len(list'[n]) = Len(since'[n])
      /\ \A t \in Subs : \A n \in DOMAIN list' :
           At(t, n)' = (IF n \in DOMAIN list THEN At(t, n) ELSE {})
                       \cup (IF t = s /\ n = m THEN {Len(list'[n])} ELSE {})
  <2>1. /\ DOMAIN list' = DOMAIN list \cup {sub[s].name} /\ DOMAIN since' = DOMAIN list'
        /\ \A n \in DOMAIN list' : Len(list'[n]) = Len(since'[n])
        /\ \A t \in Subs : \A n \in DOMAIN list' :
             At(t, n)' = (IF n \in DOMAIN list THEN At(t, n) ELSE {})
                         \cup (IF t = s /\ n = sub[s].name THEN {Len(list'[n])} ELSE {})
    BY SwitchPlaces
  <2>2. QED
    BY <1>1, <2>1, Zenon
<1>3. /\ \A t \in Subs \ {s} : sub'[t] = sub[t]
      /\ sub'[s].name = m /\ sub'[s].catchUp = "done" /\ sub'[s].closed = sub[s].closed
      /\ sub[s].catchUp = "replay"
  BY <1>1, CatchUpFields DEF CatchUp, CatchUpSwitch
<1>4. ~sub[s].closed /\ ~Listed(s) /\ \A n \in DOMAIN list : At(s, n) = {}
  BY <1>3 DEF ListInv, InList, Listed
<1>5. InList(s)'
  <2>1. Listed(s)' /\ sub'[s].name \in DOMAIN list'
    BY <1>2, <1>3, <1>4 DEF Listed
  <2>2. \A n \in DOMAIN list' : At(s, n)' = IF n = m THEN {Len(list'[n])} ELSE {}
    BY <1>2, <1>4
  <2>3. QED
    BY <1>3, <2>1, <2>2 DEF InList
<1>6. ASSUME NEW t \in Subs \ {s} PROVE InList(t)'
  <2>1. InList(t) /\ sub'[t] = sub[t] /\ (Listed(t)' <=> Listed(t))
    BY <1>3 DEF ListInv, Listed
  <2>2. \A n \in DOMAIN list' : At(t, n)' = IF n \in DOMAIN list THEN At(t, n) ELSE {}
    <3>1. ASSUME NEW n \in DOMAIN list'
          PROVE  At(t, n)' = (IF n \in DOMAIN list THEN At(t, n) ELSE {}) \cup {}
      <4>1. t # s
        OBVIOUS
      <4>2. QED
        BY <1>2, <4>1
    <3>2. \A A : A \cup {} = A
      OBVIOUS
    <3>3. QED
      BY <3>1, <3>2
  <2>3. ASSUME NEW n \in DOMAIN list'
        PROVE  /\ At(t, n)' # {} <=> Listed(t) /\ n = sub[t].name
               /\ \A i, j \in At(t, n)' : i = j
    <3>1. CASE n \in DOMAIN list
      BY <2>1, <2>2, <3>1 DEF InList
    <3>2. CASE n \notin DOMAIN list
      BY <2>1, <2>2, <3>2 DEF InList
    <3>3. QED
      BY <3>1, <3>2
  <2>4. Listed(t) => sub[t].name \in DOMAIN list'
    BY <1>2, <2>1 DEF InList
  <2>5. sub[t].closed => sub[t].catchUp = "done"
    BY <2>1 DEF InList
  <2>6. QED
    BY <2>1, <2>3, <2>4, <2>5 DEF InList
<1>7. QED
  BY <1>2, <1>5, <1>6 DEF ListInv

\* removeSensorSubscriber, for all the sensors: s is in no list any more, and
\* all others are once where they were, with the same start times.
LEMMA UnsubscribePlaces ==
  ASSUME TypeOK, ListInv, NEW s \in Subs, Unsubscribe(s), NEW n \in DOMAIN list
  PROVE  /\ Len(list'[n]) = Len(since'[n])
         /\ \A t \in Subs :
              /\ \A i, j \in At(t, n)' : i = j
              /\ At(t, n)' # {} <=> t # s /\ At(t, n) # {}
              /\ \A i \in At(t, n)' : \E j \in At(t, n) : since'[n][i] = since[n][j]
<1>1. /\ DOMAIN list = DOMAIN since /\ Len(list[n]) = Len(since[n])
      /\ list[n] \in Seq(Subs) /\ since[n] \in Seq(Nat)
      /\ \A t \in Subs : \A i, j \in At(t, n) : i = j
  BY DEF ListInv, InList, TypeOK
<1>2. /\ list'[n] = IF At(s, n) = {} THEN list[n] ELSE RemoveAt(list[n], Min(At(s, n)))
      /\ since'[n] = IF At(s, n) = {} THEN since[n] ELSE RemoveAt(since[n], Min(At(s, n)))
  BY <1>1 DEF Unsubscribe
<1>3. CASE At(s, n) = {}
  <2>1. list'[n] = list[n] /\ since'[n] = since[n]
    BY <1>2, <1>3
  <2>2. \A t \in Subs : At(t, n)' = At(t, n)
    BY <2>1 DEF At
  <2>3. QED
    BY <1>1, <1>3, <2>1, <2>2
<1>4. CASE At(s, n) # {}
  <2>1. PICK k : k \in At(s, n) /\ At(s, n) = {k}
    BY <1>1, <1>4
  <2>2. k \in 1 .. Len(list[n]) /\ list[n][k] = s
    BY <2>1 DEF At
  <2>3. Min(At(s, n)) = k
    BY <2>1, <2>2 DEF Min
  <2>4. PICK q \in Seq(Subs), z \in Seq(Nat) : q = list[n] /\ z = since[n]
    BY <1>1
  <2>5. PICK r, y : r = RemoveAt(q, k) /\ y = RemoveAt(z, k)
    OBVIOUS
  <2>6. list'[n] = r /\ since'[n] = y
    BY <1>2, <1>4, <2>3, <2>4, <2>5
  <2>7. k \in 1 .. Len(q) /\ k \in 1 .. Len(z) /\ Len(q) = Len(z) /\ q[k] = s /\ Len(q) \in Nat
    BY <1>1, <2>2, <2>4
  <2>8. PICK old : old = Before(Len(q), k)
    OBVIOUS
  <2>9. /\ old \in [1 .. Len(q) - 1 -> 1 .. Len(q)]
        /\ \A j \in 1 .. Len(q) - 1 : old[j] # k
        /\ \A i, j \in 1 .. Len(q) - 1 : old[i] = old[j] => i = j
        /\ \A l \in 1 .. Len(q) : l # k => \E j \in 1 .. Len(q) - 1 : old[j] = l
    <3>1. /\ Before(Len(q), k) \in [1 .. Len(q) - 1 -> 1 .. Len(q)]
          /\ \A j \in 1 .. Len(q) - 1 : Before(Len(q), k)[j] # k
          /\ \A i, j \in 1 .. Len(q) - 1 : Before(Len(q), k)[i] = Before(Len(q), k)[j] => i = j
          /\ \A l \in 1 .. Len(q) : l # k => \E j \in 1 .. Len(q) - 1 : Before(Len(q), k)[j] = l
      BY <2>7, BeforePlaces
    <3>2. QED
      BY <2>8, <3>1, Zenon
  <2>10. Len(r) = Len(q) - 1 /\ \A j \in 1 .. Len(q) - 1 : r[j] = q[old[j]]
    BY <2>5, <2>7, <2>8, RemoveAtBefore
  <2>11. Len(y) = Len(q) - 1 /\ \A j \in 1 .. Len(q) - 1 : y[j] = z[old[j]]
    <3>1. /\ Len(RemoveAt(z, k)) = Len(z) - 1
          /\ \A j \in 1 .. Len(z) - 1 : RemoveAt(z, k)[j] = z[Before(Len(z), k)[j]]
      BY <2>7, RemoveAtBefore
    <3>2. y = RemoveAt(z, k) /\ Len(z) = Len(q) /\ old = Before(Len(z), k)
      BY <2>5, <2>7, <2>8
    <3>3. QED
      BY <3>1, <3>2
  <2>12. ASSUME NEW t \in Subs
         PROVE  /\ \A i, j \in At(t, n)' : i = j
                /\ At(t, n)' # {} <=> t # s /\ At(t, n) # {}
                /\ \A i \in At(t, n)' : \E j \in At(t, n) : y[i] = z[j]
    <3>1. PICK A, B : A = {l \in 1 .. Len(q) : q[l] = t} /\ B = {l \in 1 .. Len(q) - 1 : r[l] = t}
      OBVIOUS
    <3>2. At(t, n) = A /\ At(t, n)' = B
      BY <2>4, <2>6, <2>10, <3>1 DEF At
    <3>3. \A i, j \in A : i = j
      BY <1>1, <3>2
    <3>4. \A i \in B : old[i] \in A /\ y[i] = z[old[i]]
      BY <2>9, <2>10, <2>11, <3>1
    <3>5. \A i, j \in B : i = j
      <4>1. SUFFICES ASSUME NEW i \in B, NEW j \in B PROVE i = j
        OBVIOUS
      <4>2. i \in 1 .. Len(q) - 1 /\ j \in 1 .. Len(q) - 1
        BY <3>1
      <4>3. old[i] = old[j]
        BY <3>3, <3>4
      <4>4. QED
        BY <2>9, <4>2, <4>3
    <3>6. t = s => B = {}
      <4>1. t = s => A = {k}
        BY <2>7, <3>1, <3>3
      <4>2. QED
        BY <2>9, <3>1, <3>4, <4>1
    <3>7. ASSUME t # s, NEW l \in A PROVE B # {}
      <4>1. l \in 1 .. Len(q) /\ l # k /\ q[l] = t
        BY <2>7, <3>1, <3>7
      <4>2. PICK j \in 1 .. Len(q) - 1 : old[j] = l
        BY <2>9, <4>1
      <4>3. r[j] = t
        BY <2>10, <4>1, <4>2
      <4>4. QED
        BY <3>1, <4>3
    <3>8. QED
      BY <3>2, <3>4, <3>5, <3>6, <3>7
  <2>13. QED
    BY <2>4, <2>6, <2>10, <2>11, <2>12
<1>5. QED
  BY <1>3, <1>4

LEMMA ListStepUnsubscribe ==
  ASSUME TypeOK, FlowInv, ListInv, NEW s \in Subs, Unsubscribe(s)
  PROVE  ListInv'
<1>1. /\ \A t \in Subs \ {s} : sub'[t] = sub[t]
      /\ sub'[s].name = sub[s].name /\ sub'[s].catchUp = sub[s].catchUp
      /\ sub'[s].closed = \E n \in DOMAIN list : At(s, n) # {}
      /\ sub[s].stream = "unsubscribe"
  BY StreamFields DEF Stream
<1>2. ~sub[s].closed
  BY <1>1, Types DEF FlowInv, SubFlow
<1>3. DOMAIN list = DOMAIN since /\ DOMAIN list' = DOMAIN list /\ DOMAIN since' = DOMAIN since
  BY DEF ListInv, Unsubscribe
<1>4. \A n \in DOMAIN list :
        /\ Len(list'[n]) = Len(since'[n])
        /\ \A t \in Subs : /\ \A i, j \in At(t, n)' : i = j
                           /\ At(t, n)' # {} <=> t # s /\ At(t, n) # {}
  BY UnsubscribePlaces
<1>5. ASSUME NEW t \in Subs PROVE InList(t)'
  <2>1. InList(t)
    BY DEF ListInv
  <2>2. CASE t # s
    <3>1. sub'[t] = sub[t] /\ (Listed(t)' <=> Listed(t))
      BY <1>1, <2>2 DEF Listed
    <3>2. QED
      BY <1>3, <1>4, <2>1, <2>2, <3>1 DEF InList
  <2>3. CASE t = s
    <3>1. sub'[s].closed <=> sub[s].catchUp = "done"
      BY <1>1, <1>2, <2>1, <2>3 DEF InList, Listed
    <3>2. ~Listed(s)'
      BY <1>1, <3>1 DEF Listed
    <3>3. \A n \in DOMAIN list : At(s, n)' = {}
      BY <1>4
    <3>4. QED
      BY <1>1, <1>3, <2>3, <3>1, <3>2, <3>3 DEF InList
  <2>4. QED
    BY <2>2, <2>3
<1>6. QED
  BY <1>3, <1>4, <1>5 DEF ListInv

LEMMA ListStep ==
  ASSUME TypeOK, FlowInv, ListInv, hub = "up", Next
  PROVE  ListInv'
<1>0. \A t \in Subs : sub[t].closed => sub[t].catchUp = "done"
  BY DEF ListInv, InList
<1>1. ASSUME NEW p \in Pushers, Stamp(p) \/ PutValue(p) \/ Publish(p)
      PROVE  ListInv'
  <2>1. \A t \in Subs : sub'[t].name = sub[t].name /\ sub'[t].catchUp = sub[t].catchUp
                        /\ sub'[t].closed = sub[t].closed
    <3>1. CASE PublishSend(p)
      BY <3>1, SendFields
    <3>2. CASE ~PublishSend(p)
      BY <1>1, <3>2 DEF Stamp, PutValue, Publish, PublishLock, PublishUnlock
    <3>3. QED
      BY <3>1, <3>2
  <2>2. UNCHANGED <<list, since>>
    BY <1>1 DEF Stamp, PutValue, Publish, PublishLock, PublishSend, PublishUnlock
  <2>3. \A t \in Subs : Listed(t)' <=> Listed(t)
    BY <2>1 DEF Listed
  <2>4. QED
    BY <1>0, <2>1, <2>2, <2>3, ListKept
<1>2. ASSUME NEW s \in Subs, Subscribe(s) \/ CatchUp(s) \/ Stream(s)
      PROVE  ListInv'
  <2>1. \A t \in Subs \ {s} : sub'[t] = sub[t]
    BY <1>2, SubscribeFields, CatchUpFields, StreamFields
  <2>2. CASE CatchUpSwitch(s)
    BY <2>2, ListStepSwitch
  <2>3. CASE Unsubscribe(s)
    BY <2>3, ListStepUnsubscribe
  <2>4. CASE ~CatchUpSwitch(s) /\ ~Unsubscribe(s)
    <3>1. UNCHANGED <<list, since>>
      BY <1>2, <2>4 DEF Subscribe, CatchUp, CatchUpLock, CatchUpSend, CatchUpBlock,
                        CatchUpAgain, Stream, Receive, Sent, Drain
    <3>2. /\ sub'[s].closed = sub[s].closed \/ sub'[s].closed = FALSE
          /\ \/ /\ sub'[s].name = sub[s].name /\ sub'[s].catchUp = sub[s].catchUp
                /\ sub'[s].closed = sub[s].closed
             \/ sub[s].catchUp # "done" /\ sub'[s].catchUp # "done"
      <4>1. CASE Subscribe(s)
        <5>1. Fresh.catchUp = "none"
          BY DEF Fresh
        <5>2. QED
          BY <4>1, <5>1, SubscribeFields
      <4>2. CASE CatchUp(s)
        <5>1. sub[s].catchUp # "done"
          BY <4>2 DEF CatchUp, CatchUpLock, CatchUpSend, CatchUpBlock, CatchUpAgain, CatchUpSwitch
        <5>2. sub'[s].catchUp # "done" /\ sub'[s].closed = sub[s].closed
          BY <2>4, <4>2, CatchUpFields DEF CatchUp
        <5>3. QED
          BY <5>1, <5>2
      <4>3. CASE Stream(s)
        BY <2>4, <4>3, StreamFields
      <4>4. QED
        BY <1>2, <4>1, <4>2, <4>3
    <3>3. ASSUME NEW t \in Subs
          PROVE  /\ Listed(t)' <=> Listed(t)
                 /\ Listed(t) => sub'[t].name = sub[t].name
                 /\ sub'[t].closed => sub'[t].catchUp = "done"
      BY <1>0, <2>1, <3>2 DEF Listed
    <3>4. QED
      BY <3>1, <3>3, ListKept
  <2>5. QED
    BY <2>2, <2>3, <2>4
<1>3. QED
  BY <1>1, <1>2 DEF Next

-----------------------------------------------------------------------------
(* How far the catch-ups have come.                                          *)

\* No step takes a value back.
LEMMA LogKept ==
  ASSUME TypeOK, FlowInv, Next
  PROVE  /\ Len(log) \in Nat /\ Len(log') \in Nat /\ Len(log) <= Len(log')
         /\ \A i \in 1 .. Len(log) : i \in 1 .. Len(log') /\ log'[i] = log[i]
<1>1. CASE \E p \in Pushers : PutValue(p)
  BY <1>1, LogGrows, Types
<1>2. CASE ~\E p \in Pushers : PutValue(p)
  <2>1. log' = log
    BY <1>2 DEF Next, Stamp, Publish, PublishLock, PublishSend, PublishUnlock, Subscribe, CatchUp,
                CatchUpLock, CatchUpSend, CatchUpBlock, CatchUpAgain, CatchUpSwitch, Stream,
                Receive, Sent, Unsubscribe, Drain
  <2>2. QED
    BY <2>1, Types
<1>3. QED
  BY <1>1, <1>2

\* The start times in the lists change for the one that joins only.
LEMMA PlacesKept ==
  ASSUME TypeOK, FlowInv, ListInv, Next, NEW t \in Subs, ~CatchUpSwitch(t), NEW n \in DOMAIN list
  PROVE  \A k \in At(t, n)' : \E j \in At(t, n) : since'[n][k] = since[n][j]
<1>1. CASE \E s \in Subs : CatchUpSwitch(s)
  <2>1. PICK s \in Subs : CatchUpSwitch(s) /\ s # t
    BY <1>1
  <2>2. n \in DOMAIN list' /\ At(t, n)' = At(t, n) \cup {}
    BY <2>1, SwitchPlaces
  <2>3. \A k \in At(t, n) : since'[n][k] = since[n][k]
    BY <2>1, SwitchPlaces DEF At
  <2>4. QED
    BY <2>2, <2>3
<1>2. CASE \E s \in Subs : Unsubscribe(s)
  BY <1>2, UnsubscribePlaces
<1>3. CASE ~(\E s \in Subs : CatchUpSwitch(s)) /\ ~(\E s \in Subs : Unsubscribe(s))
  <2>1. list' = list /\ since' = since
    BY <1>3 DEF Next, Stamp, PutValue, Publish, PublishLock, PublishSend, PublishUnlock, Subscribe,
                CatchUp, CatchUpLock, CatchUpSend, CatchUpBlock, CatchUpAgain, Stream,
                Receive, Sent, Drain
  <2>2. At(t, n)' = At(t, n)
    BY <2>1 DEF At
  <2>3. QED
    BY <2>1, <2>2
<1>4. QED
  BY <1>1, <1>2, <1>3

\* What no step but those of its own subscribing and catch-up changes.
LEMMA CatchUpKept ==
  ASSUME TypeOK, FlowInv, hub = "up", Next, NEW t \in Subs, ~Subscribe(t), ~CatchUp(t)
  PROVE  /\ sub'[t].name = sub[t].name /\ sub'[t].start = sub[t].start
         /\ sub'[t].catchUp = sub[t].catchUp /\ sub'[t].lastAt = sub[t].lastAt
         /\ sub'[t].locked = sub[t].locked /\ sub'[t].snap = sub[t].snap
         /\ sub[t].closed \in BOOLEAN /\ (sub[t].closed => sub'[t].closed)
         /\ \/ sub'[t].sent = sub[t].sent
            \/ \E p \in Pushers : PublishSend(p) /\ t = Target(p)
<1>0. sub[t].closed \in BOOLEAN
  BY Types
<1>1. ASSUME NEW p \in Pushers, PublishSend(p)
      PROVE  /\ sub'[t].name = sub[t].name /\ sub'[t].start = sub[t].start
             /\ sub'[t].catchUp = sub[t].catchUp /\ sub'[t].lastAt = sub[t].lastAt
             /\ sub'[t].locked = sub[t].locked /\ sub'[t].snap = sub[t].snap
             /\ sub[t].closed => sub'[t].closed
             /\ sub'[t].sent = sub[t].sent \/ t = Target(p)
  BY <1>0, <1>1, SendFields
<1>2. CASE Stream(t)
  <2>1. sub[t].closed => sub'[t].closed
    <3>1. ASSUME Unsubscribe(t) PROVE ~sub[t].closed
      BY <3>1 DEF Unsubscribe, FlowInv, SubFlow
    <3>2. QED
      BY <1>2, <3>1, StreamFields
  <2>2. QED
    BY <1>0, <1>2, <2>1, StreamFields
<1>3. CASE ~Stream(t) /\ ~\E p \in Pushers : PublishSend(p)
  <2>1. sub'[t] = sub[t]
    <3>1. ASSUME NEW s \in Subs, Subscribe(s) \/ CatchUp(s) \/ Stream(s) PROVE sub'[t] = sub[t]
      <4>1. t \in Subs \ {s}
        BY <1>3, <3>1
      <4>2. \A u \in Subs \ {s} : sub'[u] = sub[u]
        BY <3>1, SubscribeFields, CatchUpFields, StreamFields
      <4>3. QED
        BY <4>1, <4>2
    <3>2. ASSUME NEW p \in Pushers, Stamp(p) \/ PutValue(p) \/ Publish(p) PROVE sub'[t] = sub[t]
      BY <1>3, <3>2 DEF Stamp, PutValue, Publish, PublishLock, PublishUnlock
    <3>3. QED
      BY <3>1, <3>2 DEF Next
  <2>2. QED
    BY <1>0, <2>1
<1>4. QED
  BY <1>0, <1>1, <1>2, <1>3

\* What was reached stays reached.
LEMMA ReachedByKept ==
  ASSUME TypeOK, FlowInv, Next, NEW t \in Subs, sub'[t].name = sub[t].name, NEW x, ReachedBy(t, x)
  PROVE  \E j \in 1 .. Len(log') : log'[j].name = sub'[t].name /\ log'[j].at = x
BY LogKept DEF ReachedBy

LEMMA ReachedKept ==
  ASSUME TypeOK, FlowInv, ListInv, Next, NEW t \in Subs, Reached(t),
         sub'[t].name = sub[t].name, sub'[t].start = sub[t].start,
         sub'[t].catchUp = sub[t].catchUp, sub'[t].lastAt = sub[t].lastAt,
         sub'[t].locked = sub[t].locked, sub[t].closed => sub'[t].closed,
         sub[t].closed \in BOOLEAN
  PROVE  Reached(t)'
<1>1. sub[t].catchUp = "lock" => sub[t].lastAt = sub[t].start \/ ReachedBy(t, sub[t].lastAt - 1)'
  <2>1. ReachedBy(t, sub[t].lastAt - 1) => ReachedBy(t, sub[t].lastAt - 1)'
    BY ReachedByKept DEF ReachedBy
  <2>2. QED
    BY <2>1 DEF Reached
<1>2. sub[t].catchUp \in {"replay", "blocked"} => sub[t].lastAt = 0 \/ ReachedBy(t, sub[t].lastAt)'
  <2>1. ReachedBy(t, sub[t].lastAt) => ReachedBy(t, sub[t].lastAt)'
    BY ReachedByKept DEF ReachedBy
  <2>2. QED
    BY <2>1 DEF Reached
<1>3. ASSUME Listed(t)', NEW k \in At(t, sub[t].name)'
      PROVE  since'[sub[t].name][k] = 1 \/ ReachedBy(t, since[sub[t].name][k] - 1)'
  <2>1. Listed(t) /\ sub[t].name \in DOMAIN list
    BY <1>3 DEF Listed, ListInv, InList
  <2>2. PICK n \in DOMAIN list : n = sub[t].name
    BY <2>1
  <2>3. k \in At(t, n)'
    BY <1>3, <2>2
  <2>4. PICK j \in At(t, n) : since'[n][k] = since[n][j]
    <3>1. ~CatchUpSwitch(t)
      BY CatchUpFields DEF CatchUp, CatchUpSwitch
    <3>2. QED
      BY <2>3, <3>1, PlacesKept
  <2>5. since[n][j] = 1 \/ ReachedBy(t, since[n][j] - 1)
    BY <2>1, <2>2 DEF Reached
  <2>6. PICK x : x = since[n][j] - 1
    OBVIOUS
  <2>7. ReachedBy(t, x) => \E l \in 1 .. Len(log') : log'[l].name = sub'[t].name /\ log'[l].at = x
    BY ReachedByKept
  <2>8. since'[sub'[t].name][k] = since[n][j]
    BY <2>2, <2>4
  <2>9. QED
    BY <2>2, <2>4, <2>5, <2>6, <2>7, <2>8 DEF ReachedBy
<1>4. QED
  BY <1>1, <1>2, <1>3 DEF Reached

LEMMA ReachedStep ==
  ASSUME TypeOK, FlowInv, ListInv, ReachedInv, hub = "up", Next
  PROVE  ReachedInv'
<1>1. SUFFICES ASSUME NEW t \in Subs PROVE Reached(t)'
  BY DEF ReachedInv
<1>2. Reached(t) /\ sub[t].lastAt \in Nat
  BY Types DEF ReachedInv
<1>3. CASE ~Subscribe(t) /\ ~CatchUp(t)
  BY <1>2, <1>3, CatchUpKept, ReachedKept
<1>4. CASE Subscribe(t)
  <2>1. /\ sub'[t].catchUp = "lock" /\ sub'[t].lastAt = sub'[t].start
    BY <1>4, SubscribeFields
  <2>2. QED
    BY <2>1 DEF Reached, Listed
<1>5. CASE CatchUp(t)
  <2>0. /\ \A x : ReachedBy(t, x) =>
             \E j \in 1 .. Len(log') : log'[j].name = sub'[t].name /\ log'[j].at = x
        /\ sub'[t].name = sub[t].name
    BY <1>5, CatchUpFields, ReachedByKept
  <2>1. CASE CatchUpLock(t)
    <3>1. sub'[t].catchUp = "replay" /\ sub'[t].locked = TRUE /\ sub'[t].lastAt = 0
      BY <1>5, <2>1, CatchUpFields
    <3>2. QED
      BY <3>1 DEF Reached, Listed
  <2>2. CASE CatchUpSend(t)
    <3>1. PICK i \in sub[t].snap :
            /\ sub'[t].catchUp = "replay" /\ sub'[t].lastAt = log[i].at
      BY <1>5, <2>2, CatchUpFields
    <3>2. /\ i \in 1 .. Len(log) /\ log[i].at # 0 /\ log[i].name = sub[t].name
      BY <2>2, Types DEF CatchUpSend, FlowInv, SubFlow
    <3>3. ReachedBy(t, log[i].at)
      BY <3>2 DEF ReachedBy
    <3>4. log' = log
      BY <2>2 DEF CatchUpSend
    <3>5. ReachedBy(t, sub[t].lastAt)'
      BY <2>0, <3>1, <3>3, <3>4 DEF ReachedBy
    <3>6. QED
      BY <3>1, <3>2, <3>5 DEF Reached, Listed
  <2>3. CASE CatchUpBlock(t)
    <3>1. /\ sub'[t].catchUp = "blocked" /\ sub'[t].lastAt = sub[t].lastAt
          /\ sub[t].catchUp = "replay"
      BY <1>5, <2>3, CatchUpFields DEF CatchUpBlock
    <3>2. sub[t].lastAt = 0 \/ ReachedBy(t, sub[t].lastAt)
      BY <1>2, <3>1 DEF Reached
    <3>3. sub[t].lastAt = 0 \/ ReachedBy(t, sub[t].lastAt)'
      BY <2>0, <3>1, <3>2 DEF ReachedBy
    <3>4. QED
      BY <3>1, <3>3 DEF Reached, Listed
  <2>4. CASE CatchUpAgain(t)
    <3>1. /\ sub'[t].catchUp = "lock" /\ sub'[t].lastAt = sub[t].lastAt + 1
          /\ sub[t].catchUp = "replay" /\ ~sub[t].locked
      BY <1>5, <2>4, CatchUpFields DEF CatchUpAgain
    <3>2. ReachedBy(t, sub[t].lastAt) /\ sub'[t].lastAt - 1 = sub[t].lastAt
      BY <1>2, <3>1 DEF Reached
    <3>3. ReachedBy(t, sub[t].lastAt - 1)'
      BY <2>0, <3>2 DEF ReachedBy
    <3>4. QED
      BY <3>1, <3>3 DEF Reached, Listed
  <2>5. CASE CatchUpSwitch(t)
    <3>1. /\ sub'[t].catchUp = "done" /\ sub[t].catchUp = "replay"
      BY <1>5, <2>5, CatchUpFields DEF CatchUpSwitch
    <3>2. PICK n \in Sensors : n = sub[t].name /\ n \in DOMAIN list'
      BY <2>5, SwitchPlaces
    <3>3. At(t, n)' = {Len(list'[n])}
      <4>1. ASSUME n \in DOMAIN list PROVE At(t, n) = {}
        BY <3>1, <4>1 DEF ListInv, InList, Listed
      <4>2. At(t, n)' = (IF n \in DOMAIN list THEN At(t, n) ELSE {}) \cup {Len(list'[n])}
        BY <2>5, <3>2, SwitchPlaces
      <4>3. QED
        BY <4>1, <4>2
    <3>4. since'[n][Len(list'[n])] = sub[t].lastAt + 1
      BY <2>5, <3>2, SwitchPlaces
    <3>5. sub[t].lastAt = 0 \/ ReachedBy(t, sub[t].lastAt)
      BY <1>2, <3>1 DEF Reached
    <3>6. PICK x \in Nat : x = since'[n][Len(list'[n])] /\ x - 1 = sub[t].lastAt
      BY <1>2, <3>4
    <3>7. x = 1 \/ \E j \in 1 .. Len(log') : log'[j].name = sub'[t].name /\ log'[j].at = x - 1
      BY <2>0, <3>5, <3>6
    <3>8. QED
      BY <2>0, <3>1, <3>2, <3>3, <3>6, <3>7 DEF Reached, ReachedBy
  <2>6. QED
    BY <1>5, <2>1, <2>2, <2>3, <2>4, <2>5 DEF CatchUp
<1>6. QED
  BY <1>3, <1>4, <1>5

-----------------------------------------------------------------------------
(* What the subscribers have got.                                            *)

\* A longer log only makes it harder for a value to be in order, and what was
\* sent stays sent.
LEMMA WantsBefore ==
  ASSUME TypeOK, FlowInv, hub = "up", Next, NEW t \in Subs, ~Subscribe(t), NEW i \in 1 .. Len(log),
         Wants(t, i)'
  PROVE  /\ Wants(t, i) /\ log'[i] = log[i]
         /\ sub'[t].name = sub[t].name /\ sub'[t].start = sub[t].start
<1>1. sub'[t].name = sub[t].name /\ sub'[t].start = sub[t].start
  BY CatchUpKept, CatchUpFields
<1>2. \A j \in 1 .. Len(log) : j \in 1 .. Len(log') /\ log'[j] = log[j]
  BY LogKept
<1>3. InOrder(i)
  <2>1. InOrder(i)'
    BY DEF Wants
  <2>2. QED
    BY <1>2, <2>1 DEF InOrder
<1>4. QED
  BY <1>1, <1>2, <1>3 DEF Wants

LEMMA GotBefore ==
  ASSUME TypeOK, FlowInv, hub = "up", Next, NEW t \in Subs, ~Subscribe(t), NEW i, Got(t, i)
  PROVE  Got(t, i)'
<1>1. PICK k \in 1 .. Len(sub[t].sent) : sub[t].sent[k] = i
  BY DEF Got
<1>2. CASE sub'[t].sent = sub[t].sent
  BY <1>1, <1>2 DEF Got
<1>3. ASSUME NEW v \in 1 .. Len(log), sub'[t].sent = Append(sub[t].sent, v)
      PROVE  Got(t, i)'
  <2>1. k \in 1 .. Len(sub'[t].sent) /\ sub'[t].sent[k] = i
    BY <1>1, <1>3, Types
  <2>2. QED
    BY <2>1 DEF Got
<1>4. CASE CatchUp(t)
  <2>1. CASE CatchUpSend(t)
    <3>1. PICK v \in sub[t].snap : sub'[t].sent = Append(sub[t].sent, v)
      BY <1>4, <2>1, CatchUpFields
    <3>2. v \in 1 .. Len(log)
      BY Types
    <3>3. QED
      BY <1>3, <3>1, <3>2
  <2>2. QED
    BY <1>2, <1>4, <2>1, CatchUpFields
<1>5. CASE ~CatchUp(t)
  <2>1. ASSUME NEW p \in Pushers, PublishSend(p) PROVE Got(t, i)'
    <3>1. push[p].val \in 1 .. Len(log)
      BY <2>1, TargetOf
    <3>2. sub'[t].sent = Append(sub[t].sent, push[p].val) \/ sub'[t].sent = sub[t].sent
      BY <2>1, SendFields
    <3>3. QED
      BY <1>2, <1>3, <3>1, <3>2
  <2>2. QED
    BY <1>2, <1>5, <2>1, CatchUpKept
<1>6. QED
  BY <1>4, <1>5

\* What a pusher has not begun to tell stays untold while another has the mutex.
LEMMA UntoldKept ==
  ASSUME TypeOK, Next, NEW i, Untold(i), mutex # None
  PROVE  Untold(i)'
<1>1. PICK p \in Pushers : push[p].val = i /\ push[p].pc = "lock"
  BY DEF Untold
<1>2. push'[p] = push[p]
  <2>1. ASSUME NEW q \in Pushers, Stamp(q) \/ PutValue(q) \/ Publish(q) PROVE push'[p] = push[p]
    <3>1. q # p
      BY <1>1, <2>1 DEF Stamp, PutValue, Publish, PublishLock, PublishSend, PublishUnlock
    <3>2. QED
      BY <2>1, <3>1, PushFields
  <2>2. ASSUME NEW s \in Subs, Subscribe(s) \/ CatchUp(s) \/ Stream(s) PROVE push' = push
    BY <2>2 DEF Subscribe, CatchUp, CatchUpLock, CatchUpSend, CatchUpBlock, CatchUpAgain,
                CatchUpSwitch, Stream, Receive, Sent, Unsubscribe, Drain
  <2>3. QED
    BY <2>1, <2>2 DEF Next
<1>3. QED
  BY <1>1, <1>2 DEF Untold

\* A value that is for a listed subscriber stays on its way until it is sent.
LEMMA InFlightKept ==
  ASSUME TypeOK, FlowInv, MutexMatchesFlags, ListInv, hub = "up", Next, hub' = "up",
         NEW t \in Subs, Listed(t), NEW i \in 1 .. Len(log), log[i].name = sub[t].name,
         InFlight(i, t), ~Got(t, i)',
         \A k \in At(t, sub[t].name) : log[i].at >= since[sub[t].name][k]
  PROVE  InFlight(i, t)'
<1>1. PICK p \in Pushers :
        /\ push[p].val = i
        /\ \/ push[p].pc = "lock"
           \/ push[p].pc = "send" /\ \E k \in At(t, push[p].to) : push[p].idx <= k
  BY DEF InFlight
<1>2. /\ push[p].to = sub[t].name /\ push[p].at = log[i].at /\ push[p].to \in DOMAIN list
      /\ At(t, push[p].to) # {}
  <2>1. log[push[p].val].name = push[p].to /\ log[push[p].val].at = push[p].at
    BY <1>1 DEF FlowInv, PusherFlow
  <2>2. sub[t].name \in DOMAIN list
    BY DEF ListInv, InList
  <2>3. At(t, sub[t].name) # {}
    BY <2>2 DEF ListInv, InList
  <2>4. QED
    BY <1>1, <2>1, <2>2, <2>3
<1>3. ASSUME NEW q \in Pushers, Stamp(q) \/ PutValue(q) \/ Publish(q) PROVE InFlight(i, t)'
  <2>1. \A n \in DOMAIN list : At(t, n)' = At(t, n)
    <3>1. list' = list
      BY <1>3 DEF Stamp, PutValue, Publish, PublishLock, PublishSend, PublishUnlock
    <3>2. QED
      BY <3>1 DEF At
  <2>2. CASE q # p
    <3>1. push'[p] = push[p]
      BY <1>3, <2>2, PushFields
    <3>2. QED
      BY <1>1, <1>2, <2>1, <3>1 DEF InFlight
  <2>3. CASE PublishLock(p) /\ q = p
    <3>1. push'[p].pc = "send" /\ push'[p].idx = 1 /\ push'[p].val = i /\ push'[p].to = push[p].to
      BY <1>1, <1>3, <2>3, PushFields DEF Publish
    <3>2. PICK k : k \in At(t, push[p].to)
      BY <1>2
    <3>3. 1 <= k
      BY <3>2 DEF At
    <3>4. k \in At(t, push[p].to)'
      BY <1>2, <2>1, <3>1, <3>2
    <3>5. QED
      BY <3>1, <3>3, <3>4 DEF InFlight
  <2>4. CASE PublishSend(p) /\ q = p
    <3>1. /\ push'[p].pc = "send" /\ push'[p].idx = push[p].idx + 1 /\ push'[p].val = i
          /\ push'[p].to = push[p].to /\ push[p].pc = "send"
      BY <1>1, <2>4, PushFields DEF Publish, PublishSend
    <3>2. PICK k \in At(t, push[p].to) : push[p].idx <= k
      BY <1>1, <3>1
    <3>3. k \in 1 .. Len(list[push[p].to]) /\ list[push[p].to][k] = t /\ push[p].idx \in Nat
      BY <3>2, Types DEF At
    <3>4. ASSUME k = push[p].idx PROVE FALSE
      <4>1. t = Target(p) /\ Wanted(p)
        BY <1>2, <3>2, <3>3, <3>4 DEF Target, Wanted
      <4>2. sub'[t].sent = Append(sub[t].sent, i)
        BY <1>1, <2>4, <4>1, SendFields
      <4>3. sub[t].sent \in Seq(1 .. Len(log)) /\ Len(sub[t].sent) \in Nat
        BY Types
      <4>4. Len(sub[t].sent) + 1 \in 1 .. Len(sub'[t].sent) /\ sub'[t].sent[Len(sub[t].sent) + 1] = i
        BY <4>2, <4>3
      <4>5. QED
        BY <4>4 DEF Got
    <3>5. push[p].idx + 1 <= k
      BY <3>2, <3>3, <3>4
    <3>6. k \in At(t, push[p].to)'
      BY <1>2, <2>1, <3>1, <3>2
    <3>7. QED
      BY <3>1, <3>5, <3>6 DEF InFlight
  <2>5. CASE PublishUnlock(p) /\ q = p
    <3>1. push[p].pc = "send" /\ push[p].idx > Len(list[push[p].to]) /\ push[p].idx \in Nat
      BY <2>5, Types DEF PublishUnlock
    <3>2. PICK k \in At(t, push[p].to) : push[p].idx <= k
      BY <1>1, <3>1
    <3>3. list[push[p].to] \in Seq(Subs) /\ k \in 1 .. Len(list[push[p].to])
      BY <1>2, <3>2 DEF At, TypeOK
    <3>4. QED
      BY <3>1, <3>2, <3>3
  <2>6. QED
    BY <1>1, <1>3, <2>2, <2>3, <2>4, <2>5 DEF Stamp, PutValue, Publish
<1>4. ASSUME NEW s \in Subs, Subscribe(s) \/ CatchUp(s) \/ Stream(s) PROVE InFlight(i, t)'
  <2>1. push' = push
    BY <1>4 DEF Subscribe, CatchUp, CatchUpLock, CatchUpSend, CatchUpBlock, CatchUpAgain,
                CatchUpSwitch, Stream, Receive, Sent, Unsubscribe, Drain
  <2>2. CASE CatchUpSwitch(s) \/ Unsubscribe(s)
    <3>1. push[p].pc # "send"
      <4>1. CASE CatchUpSwitch(s)
        <5>1. mutex = s
          BY <4>1 DEF CatchUpSwitch, MutexMatchesFlags
        <5>2. s # p
          BY ConstantsAssumption
        <5>3. QED
          BY <5>1, <5>2 DEF MutexMatchesFlags
      <4>2. CASE Unsubscribe(s)
        <5>1. mutex = None /\ None # p
          BY <4>2, ConstantsAssumption DEF Unsubscribe
        <5>2. QED
          BY <5>1 DEF MutexMatchesFlags
      <4>3. QED
        BY <2>2, <4>1, <4>2
    <3>2. QED
      BY <1>1, <2>1, <3>1 DEF InFlight
  <2>3. CASE ~(CatchUpSwitch(s) \/ Unsubscribe(s))
    <3>1. list' = list
      BY <1>4, <2>3 DEF Subscribe, CatchUp, CatchUpLock, CatchUpSend, CatchUpBlock,
                        CatchUpAgain, Stream, Receive, Sent, Drain
    <3>2. QED
      BY <1>1, <2>1, <3>1 DEF InFlight, At
  <2>4. QED
    BY <2>2, <2>3
<1>5. QED
  BY <1>3, <1>4 DEF Next

\* A value that has just been stored is untold, and later than all that those
\* who want it were replayed.
LEMMA CaughtUpNew ==
  ASSUME TypeOK, FlowInv, ListInv, ReachedInv, NEW t \in Subs,
         NEW p \in Pushers, PutValue(p), NEW i, i = Len(log) + 1, Wants(t, i)'
  PROVE  CaughtUp(t, i)'
<1>1. i = Len(log) + 1
  OBVIOUS
<1>2. /\ Len(log') = i /\ Len(log) \in Nat /\ i \in Nat
      /\ \A j \in 1 .. Len(log) : j \in 1 .. Len(log') /\ log'[j] = log[j] /\ j < i
      /\ sub' = sub /\ list' = list /\ since' = since
  BY <1>1, LogGrows, Types DEF PutValue
<1>3. /\ log'[i].name = sub[t].name /\ log'[i].at >= sub[t].start
      /\ \A j \in 1 .. Len(log) : log[j].name = sub[t].name => log[j].at < log'[i].at
      /\ log'[i].at \in Nat \ {0}
  <2>1. /\ i \in 1 .. Len(log') /\ log'[i].name = sub'[t].name
        /\ log'[i].at >= sub'[t].start /\ InOrder(i)'
    BY <1>1, <1>2 DEF Wants
  <2>2. ASSUME NEW j \in 1 .. Len(log), log[j].name = sub[t].name PROVE log[j].at < log'[i].at
    <3>1. j \in 1 .. Len(log') \ {i} /\ log'[j].name = log'[i].name /\ j < i
      BY <1>2, <2>1, <2>2
    <3>2. log'[j].at < log'[i].at
      <4>1. InOrder(i)'
        BY <2>1
      <4>2. \A l \in 1 .. Len(log') \ {i} : log'[l].name = log'[i].name =>
              IF l < i THEN log'[l].at < log'[i].at ELSE log'[l].at # log'[i].at
        BY <1>1, <1>2, <4>1 DEF InOrder
      <4>3. QED
        BY <3>1, <4>2
    <3>3. QED
      BY <1>2, <3>2
  <2>3. log'[i].at \in Nat \ {0}
    <3>1. log'[i].at = push[p].at
      BY <1>1, LogGrows
    <3>2. QED
      BY <3>1, Types DEF PutValue, FlowInv, PusherFlow
  <2>4. QED
    BY <1>2, <2>1, <2>2, <2>3
<1>4. \A x \in Nat : ReachedBy(t, x) => x < log'[i].at
  BY <1>3 DEF ReachedBy
<1>5. Reached(t) /\ sub[t].lastAt \in Nat /\ sub[t].start \in Nat
  BY Types DEF ReachedInv
<1>6. push'[p].val = i /\ push'[p].pc = "lock"
  BY <1>1, PushFields
<1>7. sub[t].catchUp = "lock" => log'[i].at >= sub[t].lastAt
  <2>1. CASE sub[t].catchUp = "lock" /\ ReachedBy(t, sub[t].lastAt - 1)
    <3>1. PICK j \in 1 .. Len(log) : log[j].name = sub[t].name /\ log[j].at = sub[t].lastAt - 1
      BY <2>1 DEF ReachedBy
    <3>2. sub[t].lastAt - 1 < log'[i].at
      BY <1>3, <3>1
    <3>3. QED
      BY <1>3, <1>5, <3>2
  <2>2. QED
    BY <1>3, <1>5, <2>1 DEF Reached
<1>8. ASSUME sub[t].catchUp \in {"replay", "blocked"}
      PROVE  /\ sub[t].lastAt < log'[i].at
             /\ \A j \in sub[t].snap : log'[j].at < log'[i].at
  <2>1. sub[t].lastAt < log'[i].at
    BY <1>3, <1>4, <1>5, <1>8 DEF Reached
  <2>2. \A j \in sub[t].snap : j \in 1 .. Len(log) /\ log[j].name = sub[t].name
    BY <1>8, Types DEF FlowInv, SubFlow
  <2>3. QED
    BY <1>2, <1>3, <2>1, <2>2
<1>9. ASSUME Listed(t), NEW k \in At(t, sub[t].name)
      PROVE  log'[i].at >= since[sub[t].name][k]
  <2>1. sub[t].name \in DOMAIN list
    BY <1>9 DEF ListInv, InList
  <2>2. since[sub[t].name] \in Seq(Nat) /\ k \in 1 .. Len(since[sub[t].name])
    BY <2>1, <1>9 DEF At, TypeOK, ListInv
  <2>3. PICK x \in Nat : x = since[sub[t].name][k]
    BY <2>2
  <2>4. x = 1 \/ ReachedBy(t, x - 1)
    BY <1>5, <1>9, <2>3 DEF Reached
  <2>5. CASE ReachedBy(t, x - 1)
    <3>1. PICK j \in 1 .. Len(log) : log[j].name = sub[t].name /\ log[j].at = x - 1
      BY <2>5 DEF ReachedBy
    <3>2. x - 1 < log'[i].at
      BY <1>3, <3>1
    <3>3. QED
      BY <1>3, <2>3, <3>2
  <2>6. QED
    BY <1>3, <2>3, <2>4, <2>5
<1>10. Untold(i)' /\ InFlight(i, t)'
  BY <1>6 DEF Untold, InFlight
<1>11. At(t, sub[t].name)' = At(t, sub[t].name) /\ (Listed(t)' <=> Listed(t))
  BY <1>2 DEF At, Listed
<1>12. QED
  BY <1>2, <1>7, <1>8, <1>9, <1>10, <1>11 DEF CaughtUp

\* A round of a catch-up: all that is wanted and later than the last round is
\* replayed or untold.
LEMMA CaughtUpRound ==
  ASSUME TypeOK, FlowInv, MutexMatchesFlags, ListInv, ReachedInv, hub = "up", Next,
         NEW t \in Subs, CatchUp(t), NEW i \in 1 .. Len(log), Wants(t, i), ~Got(t, i)',
         CaughtUp(t, i)
  PROVE  CaughtUp(t, i)'
<1>1. UNCHANGED <<log, push>>
  BY DEF CatchUp, CatchUpLock, CatchUpSend, CatchUpBlock, CatchUpAgain, CatchUpSwitch
<1>2. /\ sub[t].lastAt \in Nat /\ log[i].at \in Nat \ {0} /\ sub[t].snap \subseteq 1 .. Len(log)
      /\ \A j \in 1 .. Len(log) : log[j].at \in Nat
      /\ log[i].name = sub[t].name /\ InOrder(i) /\ Len(log) \in Nat
  BY Types DEF Wants
<1>3. Untold(i)' <=> Untold(i)
  BY <1>1 DEF Untold
<1>4. CASE CatchUpLock(t)
  <2>1. /\ sub'[t].catchUp = "replay" /\ sub'[t].snap = Replay(sub[t].name, sub[t].lastAt)
    BY <1>4, CatchUpFields
  <2>2. log[i].at >= sub[t].lastAt
    BY <1>4 DEF CatchUpLock, CaughtUp
  <2>3. ASSUME NEW j \in i + 1 .. Len(log), log[j].name = sub[t].name PROVE log[j].at # log[i].at
    <3>1. j \in 1 .. Len(log) \ {i} /\ ~(j < i)
      BY <1>2
    <3>2. QED
      BY <1>2, <2>3, <3>1 DEF InOrder
  <2>4. i \in Replay(sub[t].name, sub[t].lastAt)
    BY <1>2, <2>2, <2>3 DEF Replay
  <2>5. QED
    BY <2>1, <2>4 DEF CaughtUp, Listed
<1>5. CASE CatchUpSend(t)
  <2>1. PICK v \in sub[t].snap :
          /\ sub'[t].catchUp = "replay" /\ sub'[t].locked = sub[t].locked
          /\ sub'[t].lastAt = log[v].at /\ sub'[t].snap = sub[t].snap \ {v}
          /\ sub'[t].sent = Append(sub[t].sent, v)
    BY <1>5, CatchUpFields
  <2>2. v # i
    <3>1. ASSUME v = i PROVE FALSE
      <4>1. sub[t].sent \in Seq(1 .. Len(log)) /\ Len(sub[t].sent) \in Nat
        BY Types
      <4>2. /\ Len(sub[t].sent) + 1 \in 1 .. Len(sub'[t].sent)
            /\ sub'[t].sent[Len(sub[t].sent) + 1] = i
        BY <2>1, <3>1, <4>1
      <4>3. QED
        BY <4>2 DEF Got
    <3>2. QED
      BY <3>1
  <2>3. sub[t].catchUp \in {"replay", "blocked"}
    BY <1>5 DEF CatchUpSend
  <2>4. ASSUME i \notin sub'[t].snap
        PROVE  /\ sub'[t].lastAt < log[i].at
               /\ \A j \in sub'[t].snap : log[j].at < log[i].at
               /\ sub'[t].locked => Untold(i)
    <3>1. i \notin sub[t].snap
      BY <2>1, <2>2, <2>4
    <3>2. QED
      BY <2>1, <2>3, <3>1 DEF CaughtUp
  <2>5. QED
    BY <1>1, <1>3, <2>1, <2>4 DEF CaughtUp, Listed
<1>6. CASE CatchUpBlock(t)
  <2>1. /\ sub'[t].catchUp = "blocked" /\ sub'[t].locked = FALSE
        /\ sub'[t].lastAt = sub[t].lastAt /\ sub'[t].snap = sub[t].snap
        /\ sub[t].catchUp = "replay"
    BY <1>6, CatchUpFields DEF CatchUpBlock
  <2>2. QED
    BY <1>1, <2>1 DEF CaughtUp, Listed
<1>7. CASE CatchUpAgain(t)
  <2>1. /\ sub'[t].catchUp = "lock" /\ sub'[t].lastAt = sub[t].lastAt + 1
        /\ sub[t].catchUp = "replay" /\ sub[t].snap = {}
    BY <1>7, CatchUpFields DEF CatchUpAgain
  <2>2. sub[t].lastAt < log[i].at
    BY <2>1 DEF CaughtUp
  <2>3. log[i].at >= sub[t].lastAt + 1
    BY <1>2, <2>2
  <2>4. QED
    BY <1>1, <2>1, <2>3 DEF CaughtUp, Listed
<1>8. CASE CatchUpSwitch(t)
  <2>1. /\ sub'[t].catchUp = "done" /\ sub'[t].name = sub[t].name
        /\ sub[t].catchUp = "replay" /\ sub[t].snap = {} /\ sub[t].locked
    BY <1>8, CatchUpFields DEF CatchUpSwitch
  <2>2. sub[t].lastAt < log[i].at /\ Untold(i)
    BY <2>1 DEF CaughtUp
  <2>3. InFlight(i, t)'
    BY <1>1, <2>2 DEF InFlight, Untold
  <2>4. PICK n \in DOMAIN list' : n = sub[t].name
    BY <1>8, SwitchPlaces
  <2>5. At(t, n)' = {Len(list'[n])}
    <3>1. ASSUME n \in DOMAIN list PROVE At(t, n) = {}
      BY <2>1, <3>1 DEF ListInv, InList, Listed
    <3>2. At(t, n)' = (IF n \in DOMAIN list THEN At(t, n) ELSE {}) \cup {Len(list'[n])}
      BY <1>8, <2>4, SwitchPlaces
    <3>3. QED
      BY <3>1, <3>2
  <2>6. since'[n][Len(list'[n])] = sub[t].lastAt + 1
    BY <1>8, <2>4, SwitchPlaces
  <2>7. log[i].at >= sub[t].lastAt + 1
    BY <1>2, <2>2
  <2>8. \A k \in At(t, n)' : log[i].at >= since'[n][k]
    BY <2>5, <2>6, <2>7
  <2>9. QED
    BY <1>1, <2>1, <2>3, <2>4, <2>8 DEF CaughtUp
<1>9. QED
  BY <1>4, <1>5, <1>6, <1>7, <1>8 DEF CatchUp

LEMMA CaughtUpStep ==
  ASSUME TypeOK, FlowInv, MutexMatchesFlags, ListInv, ReachedInv, CaughtUpInv, hub = "up", Next
  PROVE  CaughtUpInv'
<1>1. SUFFICES ASSUME hub' = "up", NEW t \in Subs, NEW i \in 1 .. Len(log'),
                      Wants(t, i)', ~Got(t, i)'
               PROVE  CaughtUp(t, i)'
  BY DEF CaughtUpInv
<1>2. CASE i \notin 1 .. Len(log)
  <2>1. PICK p \in Pushers : PutValue(p)
    <3>1. log' # log
      BY <1>2
    <3>2. QED
      BY <3>1 DEF Next, Stamp, Publish, PublishLock, PublishSend, PublishUnlock, Subscribe, CatchUp,
                  CatchUpLock, CatchUpSend, CatchUpBlock, CatchUpAgain, CatchUpSwitch, Stream,
                  Receive, Sent, Unsubscribe, Drain
  <2>2. i = Len(log) + 1
    <3>1. Len(log') = Len(log) + 1 /\ Len(log) \in Nat
      BY <2>1, LogGrows, Types
    <3>2. QED
      BY <1>2, <3>1
  <2>3. QED
    BY <1>1, <2>1, <2>2, CaughtUpNew
<1>3. CASE i \in 1 .. Len(log) /\ Subscribe(t)
  <2>1. sub'[t].catchUp = "lock" /\ sub'[t].lastAt = sub'[t].start
    BY <1>3, SubscribeFields
  <2>2. log'[i].at >= sub'[t].start
    BY <1>1 DEF Wants
  <2>3. QED
    BY <2>1, <2>2 DEF CaughtUp, Listed
<1>4. CASE i \in 1 .. Len(log) /\ ~Subscribe(t)
  <2>1. /\ Wants(t, i) /\ log'[i] = log[i]
        /\ sub'[t].name = sub[t].name /\ sub'[t].start = sub[t].start
    BY <1>1, <1>4, WantsBefore
  <2>2. ~Got(t, i)
    BY <1>1, <1>4, GotBefore
  <2>3. CaughtUp(t, i)
    BY <1>4, <2>1, <2>2 DEF CaughtUpInv
  <2>4. CASE CatchUp(t)
    BY <1>1, <1>4, <2>1, <2>3, <2>4, CaughtUpRound
  <2>5. CASE ~CatchUp(t)
    <3>1. /\ sub'[t].catchUp = sub[t].catchUp /\ sub'[t].lastAt = sub[t].lastAt
          /\ sub'[t].locked = sub[t].locked /\ sub'[t].snap = sub[t].snap
          /\ sub[t].closed => sub'[t].closed
      BY <1>4, <2>5, CatchUpKept
    <3>2. \A j \in sub[t].snap : log'[j] = log[j]
      BY LogKept, Types
    <3>3. ASSUME sub[t].catchUp \in {"replay", "blocked"}, sub[t].locked, Untold(i)
          PROVE  Untold(i)'
      <4>1. mutex = t /\ t # None
        BY <3>3, ConstantsAssumption DEF MutexMatchesFlags
      <4>2. QED
        BY <3>3, <4>1, UntoldKept
    <3>4. ASSUME Listed(t)'
          PROVE  InFlight(i, t)' /\ \A k \in At(t, sub[t].name)' : log'[i].at >= since'[sub[t].name][k]
      <4>1. Listed(t)
        BY <3>1, <3>4 DEF Listed
      <4>2. InFlight(i, t) /\ \A k \in At(t, sub[t].name) : log[i].at >= since[sub[t].name][k]
        BY <2>3, <4>1 DEF CaughtUp
      <4>3. log[i].name = sub[t].name
        BY <2>1 DEF Wants
      <4>4. InFlight(i, t)'
        BY <1>1, <1>4, <4>1, <4>2, <4>3, InFlightKept
      <4>5. PICK n \in DOMAIN list : n = sub[t].name
        BY <4>1 DEF ListInv, InList
      <4>6. \A k \in At(t, n)' : \E j \in At(t, n) : since'[n][k] = since[n][j]
        BY <2>5, PlacesKept DEF CatchUp
      <4>7. QED
        BY <2>1, <4>2, <4>4, <4>5, <4>6
    <3>5. QED
      BY <2>1, <2>3, <3>1, <3>2, <3>3, <3>4 DEF CaughtUp
  <2>6. QED
    BY <2>4, <2>5
<1>5. QED
  BY <1>2, <1>3, <1>4

-----------------------------------------------------------------------------
(* The order of what is sent.                                                *)

\* What a channel holds when one more has been sent into it.
LEMMA OneMoreSent ==
  ASSUME TypeOK, NEW t \in Subs, NEW v \in 1 .. Len(log),
         sub'[t].sent = Append(sub[t].sent, v)
  PROVE  \E n \in Nat :
           /\ Len(sub[t].sent) = n /\ Len(sub'[t].sent) = n + 1
           /\ \A k \in 1 .. n : sub'[t].sent[k] = sub[t].sent[k] /\ sub[t].sent[k] \in 1 .. Len(log)
           /\ sub'[t].sent[n + 1] = v
<1>1. PICK q \in Seq(1 .. Len(log)) : q = sub[t].sent
  BY Types
<1>2. PICK n \in Nat : n = Len(q)
  BY <1>1
<1>3. /\ Len(Append(q, v)) = n + 1 /\ Append(q, v)[n + 1] = v
      /\ \A k \in 1 .. n : Append(q, v)[k] = q[k] /\ q[k] \in 1 .. Len(log)
  BY <1>1, <1>2
<1>4. QED
  BY <1>1, <1>2, <1>3

LEMMA LatestStep ==
  ASSUME TypeOK, FlowInv, LatestInv, hub = "up", Next
  PROVE  LatestInv'
<1>1. SUFFICES ASSUME NEW p \in Pushers, push'[p].pc \in {"lock", "send"},
                      NEW j \in 1 .. Len(log'), log'[j].by = p
               PROVE  j <= push'[p].val
  BY DEF LatestInv
<1>2. CASE PutValue(p)
  <2>1. push'[p].val = Len(log) + 1 /\ Len(log') = Len(log) + 1 /\ Len(log) \in Nat
    BY <1>2, PushFields, LogGrows, Types
  <2>2. QED
    BY <2>1
<1>3. CASE ~PutValue(p)
  <2>1. push'[p].val = push[p].val /\ push[p].pc \in {"lock", "send"}
    <3>1. ASSUME NEW q \in Pushers, Stamp(q) \/ PutValue(q) \/ Publish(q)
          PROVE  push'[p].val = push[p].val /\ push[p].pc \in {"lock", "send"}
      <4>1. CASE q # p
        <5>1. push'[p] = push[p]
          BY <3>1, <4>1, PushFields
        <5>2. QED
          BY <1>1, <5>1
      <4>2. CASE q = p
        <5>1. ~Stamp(p)
          BY <1>1, PushFields
        <5>2. Publish(p)
          BY <1>3, <3>1, <4>2, <5>1
        <5>3. push[p].pc \in {"lock", "send"}
          BY <5>2 DEF Publish, PublishLock, PublishSend, PublishUnlock
        <5>4. QED
          BY <5>2, <5>3, PushFields
      <4>3. QED
        BY <4>1, <4>2
    <3>2. ASSUME NEW s \in Subs, Subscribe(s) \/ CatchUp(s) \/ Stream(s) PROVE push' = push
      BY <3>2 DEF Subscribe, CatchUp, CatchUpLock, CatchUpSend, CatchUpBlock, CatchUpAgain,
                  CatchUpSwitch, Stream, Receive, Sent, Unsubscribe, Drain
    <3>3. QED
      BY <1>1, <3>1, <3>2 DEF Next
  <2>2. j \in 1 .. Len(log) /\ log[j].by = p
    <3>1. CASE \E q \in Pushers : PutValue(q)
      <4>1. PICK q \in Pushers : PutValue(q) /\ q # p
        BY <1>3, <3>1
      <4>2. /\ Len(log') = Len(log) + 1 /\ log'[Len(log) + 1].by = q /\ Len(log) \in Nat
            /\ \A i \in 1 .. Len(log) : log'[i] = log[i]
        BY <4>1, LogGrows, Types
      <4>3. j # Len(log) + 1
        BY <1>1, <4>1, <4>2
      <4>4. j \in 1 .. Len(log)
        BY <4>2, <4>3
      <4>5. QED
        BY <1>1, <4>2, <4>4
    <3>2. CASE ~\E q \in Pushers : PutValue(q)
      <4>1. log' = log
        BY <3>2 DEF Next, Stamp, Publish, PublishLock, PublishSend, PublishUnlock, Subscribe, CatchUp,
                    CatchUpLock, CatchUpSend, CatchUpBlock, CatchUpAgain, CatchUpSwitch, Stream,
                    Receive, Sent, Unsubscribe, Drain
      <4>2. QED
        BY <1>1, <4>1
    <3>3. QED
      BY <3>1, <3>2
  <2>3. QED
    BY <2>1, <2>2 DEF LatestInv
<1>4. QED
  BY <1>2, <1>3

\* What is on its way to a subscriber was so before, but for a new value.
LEMMA InFlightBefore ==
  ASSUME TypeOK, FlowInv, MutexMatchesFlags, hub = "up", Next,
         NEW t \in Subs, NEW i \in 1 .. Len(log), InFlight(i, t)'
  PROVE  InFlight(i, t)
<1>1. PICK p \in Pushers :
        /\ push'[p].val = i
        /\ \/ push'[p].pc = "lock"
           \/ push'[p].pc = "send" /\ \E k \in At(t, push[p].to)' : push'[p].idx <= k
  BY DEF InFlight
<1>2. ASSUME NEW q \in Pushers, Stamp(q) \/ PutValue(q) \/ Publish(q) PROVE InFlight(i, t)
  <2>1. list' = list
    BY <1>2 DEF Stamp, PutValue, Publish, PublishLock, PublishSend, PublishUnlock
  <2>2. CASE q # p
    <3>1. push'[p] = push[p]
      BY <1>2, <2>2, PushFields
    <3>2. At(t, push[p].to)' = At(t, push[p].to)
      BY <2>1, <3>1 DEF At
    <3>3. QED
      BY <1>1, <3>1, <3>2 DEF InFlight
  <2>3. CASE q = p /\ PutValue(p)
    <3>1. push'[p].val = Len(log) + 1 /\ Len(log) \in Nat
      BY <2>3, PushFields, Types
    <3>2. QED
      BY <1>1, <3>1
  <2>4. CASE q = p /\ PublishLock(p)
    <3>1. push[p].val = i /\ push[p].pc = "lock"
      BY <1>1, <2>4, PushFields DEF Publish, PublishLock
    <3>2. QED
      BY <3>1 DEF InFlight
  <2>5. CASE q = p /\ PublishSend(p)
    <3>1. /\ push[p].val = i /\ push[p].pc = "send" /\ push'[p].to = push[p].to
          /\ push'[p].idx = push[p].idx + 1 /\ push[p].idx \in Nat /\ push'[p].pc = "send"
      BY <1>1, <2>5, PushFields, Types DEF Publish, PublishSend
    <3>2. At(t, push[p].to)' = At(t, push[p].to)
      BY <2>1, <3>1 DEF At
    <3>3. PICK k \in At(t, push[p].to) : push'[p].idx <= k
      BY <1>1, <3>1, <3>2
    <3>4. k \in Int
      BY <3>3 DEF At
    <3>5. push[p].idx <= k
      BY <3>1, <3>3, <3>4
    <3>6. QED
      BY <3>1, <3>3, <3>5 DEF InFlight
  <2>6. QED
    <3>1. CASE Stamp(p) /\ q = p
      BY <1>1, <3>1, PushFields
    <3>2. CASE PublishUnlock(p) /\ q = p
      BY <1>1, <3>2, PushFields DEF Publish
    <3>3. QED
      BY <1>2, <2>2, <2>3, <2>4, <2>5, <3>1, <3>2 DEF Publish
<1>3. ASSUME NEW s \in Subs, Subscribe(s) \/ CatchUp(s) \/ Stream(s) PROVE InFlight(i, t)
  <2>1. push' = push
    BY <1>3 DEF Subscribe, CatchUp, CatchUpLock, CatchUpSend, CatchUpBlock, CatchUpAgain,
                CatchUpSwitch, Stream, Receive, Sent, Unsubscribe, Drain
  <2>2. CASE CatchUpSwitch(s) \/ Unsubscribe(s)
    <3>1. mutex # p
      <4>1. mutex = s \/ mutex = None
        BY <2>2 DEF CatchUpSwitch, Unsubscribe, MutexMatchesFlags
      <4>2. s # p /\ None # p
        BY ConstantsAssumption
      <4>3. QED
        BY <4>1, <4>2
    <3>2. push[p].pc # "send"
      BY <3>1 DEF MutexMatchesFlags
    <3>3. QED
      BY <1>1, <2>1, <3>2 DEF InFlight
  <2>3. CASE ~(CatchUpSwitch(s) \/ Unsubscribe(s))
    <3>1. list' = list
      BY <1>3, <2>3 DEF Subscribe, CatchUp, CatchUpLock, CatchUpSend, CatchUpBlock,
                        CatchUpAgain, Stream, Receive, Sent, Drain
    <3>2. QED
      BY <1>1, <2>1, <3>1 DEF InFlight, At
  <2>4. QED
    BY <2>2, <2>3
<1>4. QED
  BY <1>2, <1>3 DEF Next

\* A subscriber whose channel and catch-up a step leaves alone.
LEMMA OrderKept ==
  ASSUME TypeOK, FlowInv, MutexMatchesFlags, hub = "up", Next, NEW t \in Subs,
         ~Subscribe(t), ~CatchUp(t), sub'[t].sent = sub[t].sent,
         Rising(t), Ordered(t), Counted(t)
  PROVE  (Rising(t) /\ Ordered(t) /\ Counted(t))'
<1>1. /\ sub'[t].catchUp = sub[t].catchUp /\ sub'[t].lastAt = sub[t].lastAt
      /\ sub'[t].snap = sub[t].snap /\ (sub[t].closed => sub'[t].closed)
  BY CatchUpKept
<1>2. /\ \A k \in 1 .. Len(sub[t].sent) :
           sub[t].sent[k] \in 1 .. Len(log) /\ log'[sub[t].sent[k]] = log[sub[t].sent[k]]
      /\ \A j \in sub[t].snap : log'[j] = log[j]
  <2>1. \A k \in 1 .. Len(sub[t].sent) : sub[t].sent[k] \in 1 .. Len(log)
    BY Types
  <2>2. \A j \in sub[t].snap : j \in 1 .. Len(log)
    BY Types
  <2>3. \A i \in 1 .. Len(log) : log'[i] = log[i]
    BY LogKept
  <2>4. QED
    BY <2>1, <2>2, <2>3
<1>3. Rising(t)'
  <2>1. CASE sub[t].catchUp = "lock"
    BY <1>1, <1>2, <2>1 DEF Rising
  <2>2. CASE sub[t].catchUp \in {"replay", "blocked"}
    <3>1. \A i, j \in sub[t].snap : log'[i].at = log'[j].at => i = j
      BY <1>2, <2>2 DEF Rising
    <3>2. \A k \in 1 .. Len(sub[t].sent) :
            /\ sub[t].lastAt = 0 \/ log'[sub[t].sent[k]].at <= sub[t].lastAt
            /\ \A j \in sub[t].snap : log'[sub[t].sent[k]].at < log'[j].at
      BY <1>2, <2>2 DEF Rising
    <3>3. QED
      BY <1>1, <2>2, <3>1, <3>2 DEF Rising
  <2>3. QED
    BY <1>1, <2>1, <2>2 DEF Rising
<1>4. Ordered(t)'
  <2>1. PICK c : c = sub[t].sent
    OBVIOUS
  <2>2. ASSUME NEW k \in 1 .. Len(c), NEW l \in 1 .. Len(c),
               k < l, log'[c[k]].by = log'[c[l]].by, c[l] < c[k]
        PROVE  log'[c[l]].at >= log'[c[k]].at
    <3>1. log'[c[k]] = log[c[k]] /\ log'[c[l]] = log[c[l]]
      BY <1>2, <2>1
    <3>2. log[c[l]].at >= log[c[k]].at
      BY <2>1, <2>2, <3>1 DEF Ordered
    <3>3. QED
      BY <3>1, <3>2
  <2>3. QED
    BY <2>1, <2>2 DEF Ordered
<1>5. ASSUME NEW i \in 1 .. Len(log')
      PROVE  /\ Twice(t, i)'
             /\ sub'[t].catchUp # "done" => Once(t, i)'
             /\ (hub = "up" /\ Listed(t) /\ InFlight(i, t))' => Once(t, i)'
  <2>1. /\ Twice(t, i)' <=> Twice(t, i)
        /\ Once(t, i)' <=> Once(t, i)
    BY DEF Twice, Once
  <2>2. CASE i \in 1 .. Len(log)
    <3>1. Listed(t)' => Listed(t)
      BY <1>1 DEF Listed
    <3>2. InFlight(i, t)' => InFlight(i, t)
      BY <2>2, InFlightBefore
    <3>3. QED
      BY <1>1, <2>1, <2>2, <3>1, <3>2 DEF Counted
  <2>3. CASE i \notin 1 .. Len(log)
    <3>1. \A k \in 1 .. Len(sub[t].sent) : sub[t].sent[k] # i
      BY <1>2, <2>3
    <3>2. Once(t, i) /\ Twice(t, i)
      BY <3>1 DEF Once, Twice
    <3>3. QED
      BY <2>1, <3>2
  <2>4. QED
    BY <2>2, <2>3
<1>6. QED
  BY <1>3, <1>4, <1>5 DEF Counted

\* One step of SensorPublish's loop sends the last value of its pusher, which the
\* subscriber has got once at most, and goes past the subscriber's only place.
LEMMA OrderPublish ==
  ASSUME TypeOK, FlowInv, MutexMatchesFlags, ListInv, LatestInv, hub = "up", Next,
         NEW p \in Pushers, PublishSend(p), Wanted(p), NEW t \in Subs, t = Target(p),
         Ordered(t), Counted(t)
  PROVE  (Rising(t) /\ Ordered(t) /\ Counted(t))'
<1>1. PICK v \in 1 .. Len(log) : v = push[p].val
  BY TargetOf
<1>2. sub'[t].sent = Append(sub[t].sent, v)
  BY <1>1, SendFields
<1>3. PICK n \in Nat :
        /\ Len(sub[t].sent) = n /\ Len(sub'[t].sent) = n + 1
        /\ \A k \in 1 .. n : sub'[t].sent[k] = sub[t].sent[k] /\ sub[t].sent[k] \in 1 .. Len(log)
        /\ sub'[t].sent[n + 1] = v
  BY <1>2, OneMoreSent
<1>4. UNCHANGED <<log, list>> /\ push[p].pc = "send"
  BY DEF PublishSend
<1>5. PICK c, e : c = sub[t].sent /\ e = sub'[t].sent
  OBVIOUS
<1>6. log[v].by = p /\ \A j \in 1 .. Len(log) : log[j].by = p => j <= v
  BY <1>1, <1>4 DEF FlowInv, PusherFlow, LatestInv
<1>7. /\ Listed(t) /\ push[p].to = sub[t].name /\ push[p].to \in DOMAIN list
      /\ push[p].idx \in At(t, push[p].to)
      /\ \A k \in At(t, push[p].to) : k = push[p].idx
  <2>1. push[p].to \in DOMAIN list /\ push[p].idx \in At(t, push[p].to)
    BY TargetOf
  <2>2. QED
    BY <2>1 DEF ListInv, InList
<1>8. Once(t, v)
  <2>1. push[p].idx <= push[p].idx
    BY Types
  <2>2. InFlight(v, t)
    BY <1>1, <1>4, <1>7, <2>1 DEF InFlight
  <2>3. QED
    BY <1>7, <2>2 DEF Counted
<1>9. sub'[t].catchUp = "done"
  BY <1>7, SendFields DEF Listed
<1>10. Rising(t)'
  BY <1>9 DEF Rising
<1>11. ASSUME NEW k \in 1 .. n + 1, NEW l \in 1 .. n + 1, k < l, log[e[k]].by = log[e[l]].by,
              e[l] < e[k]
       PROVE  log[e[l]].at >= log[e[k]].at
  <2>1. k \in 1 .. n /\ e[k] = c[k] /\ c[k] \in 1 .. Len(log)
    <3>1. k \in 1 .. n
      BY <1>11
    <3>2. QED
      BY <1>3, <1>5, <3>1
  <2>2. l # n + 1
    <3>1. ASSUME l = n + 1 PROVE FALSE
      <4>1. e[l] = v
        BY <1>3, <1>5, <3>1
      <4>2. c[k] <= v
        BY <1>6, <1>11, <2>1, <4>1
      <4>3. QED
        BY <1>11, <2>1, <4>1, <4>2
    <3>2. QED
      BY <3>1
  <2>3. l \in 1 .. n /\ e[l] = c[l]
    <3>1. l \in 1 .. n
      BY <2>2
    <3>2. QED
      BY <1>3, <1>5, <3>1
  <2>4. log[c[k]].by = log[c[l]].by /\ c[l] < c[k] => log[c[l]].at >= log[c[k]].at
    <3>1. \A x, y \in 1 .. Len(sub[t].sent) :
            x < y /\ log[sub[t].sent[x]].by = log[sub[t].sent[y]].by
              /\ sub[t].sent[y] < sub[t].sent[x]
              => log[sub[t].sent[y]].at >= log[sub[t].sent[x]].at
      BY DEF Ordered
    <3>2. k \in 1 .. Len(sub[t].sent) /\ l \in 1 .. Len(sub[t].sent) /\ k < l
      BY <1>3, <1>11, <2>1, <2>3
    <3>3. QED
      BY <1>5, <3>1, <3>2
  <2>5. QED
    BY <1>11, <2>1, <2>3, <2>4
<1>12. Ordered(t)'
  <2>1. \A k, l \in 1 .. n + 1 :
          k < l /\ log[e[k]].by = log[e[l]].by /\ e[l] < e[k] => log[e[l]].at >= log[e[k]].at
    BY <1>11
  <2>2. QED
    BY <1>3, <1>4, <1>5, <2>1 DEF Ordered
<1>13. ASSUME NEW i \in 1 .. Len(log), i # v
       PROVE  Twice(t, i)' /\ (InFlight(i, t)' => Once(t, i)')
  <2>1. \A k \in 1 .. n + 1 : e[k] = i => k \in 1 .. n /\ c[k] = i
    BY <1>3, <1>5, <1>13
  <2>2. Twice(t, i) /\ (InFlight(i, t)' => Once(t, i))
    BY <1>7, InFlightBefore DEF Counted
  <2>3. Twice(t, i)'
    <3>1. \A k, l, m \in 1 .. n : c[k] = i /\ c[l] = i /\ c[m] = i => k = l \/ l = m \/ k = m
      BY <1>3, <1>5, <2>2 DEF Twice
    <3>2. \A k, l, m \in 1 .. n + 1 : e[k] = i /\ e[l] = i /\ e[m] = i => k = l \/ l = m \/ k = m
      BY <2>1, <3>1
    <3>3. QED
      BY <1>3, <1>5, <3>2 DEF Twice
  <2>4. ASSUME InFlight(i, t)' PROVE Once(t, i)'
    <3>1. \A k, l \in 1 .. n : c[k] = i /\ c[l] = i => k = l
      BY <1>3, <1>5, <2>2, <2>4 DEF Once
    <3>2. \A k, l \in 1 .. n + 1 : e[k] = i /\ e[l] = i => k = l
      BY <2>1, <3>1
    <3>3. QED
      BY <1>3, <1>5, <3>2 DEF Once
  <2>5. QED
    BY <2>3, <2>4
<1>14. Twice(t, v)'
  <2>1. \A k, l \in 1 .. n + 1 : e[k] = v /\ e[l] = v => k = l \/ k = n + 1 \/ l = n + 1
    <3>1. \A k \in 1 .. n + 1 : k # n + 1 => k \in 1 .. n /\ e[k] = c[k]
      BY <1>3, <1>5
    <3>2. \A k, l \in 1 .. n : c[k] = v /\ c[l] = v => k = l
      BY <1>3, <1>5, <1>8 DEF Once
    <3>3. QED
      BY <3>1, <3>2
  <2>2. QED
    BY <1>3, <1>5, <2>1 DEF Twice
<1>15. ~InFlight(v, t)'
  <2>1. SUFFICES ASSUME NEW q \in Pushers, push'[q].val = v,
                        \/ push'[q].pc = "lock"
                        \/ push'[q].pc = "send" /\ \E k \in At(t, push[q].to)' : push'[q].idx <= k
                 PROVE  FALSE
    BY DEF InFlight
  <2>2. CASE q # p
    <3>1. push'[q] = push[q]
      BY <2>2, PushFields DEF Publish
    <3>2. log[v].by = q
      BY <2>1, <3>1 DEF FlowInv, PusherFlow
    <3>3. QED
      BY <1>6, <2>2, <3>2
  <2>3. CASE q = p
    <3>1. /\ push'[p].pc = "send" /\ push'[p].idx = push[p].idx + 1 /\ push'[p].to = push[p].to
          /\ push[p].idx \in Nat
      BY <1>4, PushFields, Types DEF Publish
    <3>2. At(t, push[p].to)' = At(t, push[p].to)
      BY <1>4, <3>1 DEF At
    <3>3. push[p].idx + 1 <= push[p].idx
      BY <1>7, <2>1, <2>3, <3>1, <3>2
    <3>4. QED
      BY <3>1, <3>3
  <2>4. QED
    BY <2>2, <2>3
<1>16. Counted(t)'
  BY <1>4, <1>9, <1>13, <1>14, <1>15 DEF Counted
<1>17. QED
  BY <1>10, <1>12, <1>16

\* A round of a catch-up sends the values in the order of their times, after
\* those of the rounds before.
LEMMA OrderRound ==
  ASSUME TypeOK, FlowInv, NEW t \in Subs, Reached(t), CatchUp(t),
         Rising(t), Ordered(t), Counted(t)
  PROVE  (Rising(t) /\ Ordered(t) /\ Counted(t))'
<1>1. UNCHANGED log
  BY DEF CatchUp, CatchUpLock, CatchUpSend, CatchUpBlock, CatchUpAgain, CatchUpSwitch
<1>2. /\ sub[t].lastAt \in Nat /\ sub[t].snap \subseteq 1 .. Len(log) /\ Len(log) \in Nat
      /\ \A j \in 1 .. Len(log) : log[j].at \in Nat \ {0}
      /\ \A k \in 1 .. Len(sub[t].sent) : sub[t].sent[k] \in 1 .. Len(log)
  BY Types
<1>3. sub[t].catchUp # "done" /\ \A i \in 1 .. Len(log) : Twice(t, i) /\ Once(t, i)
  BY DEF CatchUp, CatchUpLock, CatchUpSend, CatchUpBlock, CatchUpAgain, CatchUpSwitch, Counted
<1>4. CASE CatchUpSend(t)
  <2>1. PICK v \in sub[t].snap :
          /\ \A j \in sub[t].snap : log[v].at <= log[j].at
          /\ sub'[t].catchUp = "replay" /\ sub'[t].lastAt = log[v].at
          /\ sub'[t].snap = sub[t].snap \ {v} /\ sub'[t].sent = Append(sub[t].sent, v)
    BY <1>4, CatchUpFields
  <2>2. v \in 1 .. Len(log) /\ sub[t].catchUp \in {"replay", "blocked"}
    BY <1>2, <1>4 DEF CatchUpSend
  <2>3. PICK n \in Nat :
          /\ Len(sub[t].sent) = n /\ Len(sub'[t].sent) = n + 1
          /\ \A k \in 1 .. n : sub'[t].sent[k] = sub[t].sent[k] /\ sub[t].sent[k] \in 1 .. Len(log)
          /\ sub'[t].sent[n + 1] = v
    BY <2>1, <2>2, OneMoreSent
  <2>4. PICK c, e : c = sub[t].sent /\ e = sub'[t].sent
    OBVIOUS
  <2>5. ASSUME NEW k \in 1 .. n
        PROVE  e[k] = c[k] /\ c[k] \in 1 .. Len(log) /\ log[c[k]].at < log[v].at
    BY <2>1, <2>2, <2>3, <2>4 DEF Rising
  <2>6. \A k \in 1 .. n + 1 : k = n + 1 \/ k \in 1 .. n
    BY <2>3
  <2>7. Rising(t)'
    <3>1. \A i, j \in sub'[t].snap : log[i].at = log[j].at => i = j
      BY <2>1, <2>2 DEF Rising
    <3>2. ASSUME NEW k \in 1 .. n + 1
          PROVE  /\ log[e[k]].at <= log[v].at
                 /\ \A j \in sub'[t].snap : log[e[k]].at < log[j].at
      <4>1. log[e[k]].at \in Nat /\ log[e[k]].at <= log[v].at
        <5>1. CASE k = n + 1
          BY <1>2, <2>2, <2>3, <2>4, <5>1
        <5>2. CASE k \in 1 .. n
          <6>1. log[c[k]].at \in Nat /\ log[v].at \in Nat
            BY <1>2, <2>2, <2>5, <5>2
          <6>2. QED
            BY <2>5, <5>2, <6>1
        <5>3. QED
          BY <2>6, <5>1, <5>2
      <4>2. ASSUME NEW j \in sub'[t].snap PROVE log[v].at < log[j].at
        <5>1. j \in sub[t].snap /\ j # v
          BY <2>1
        <5>2. log[v].at # log[j].at
          BY <2>2, <5>1 DEF Rising
        <5>3. QED
          BY <1>2, <2>1, <5>1, <5>2
      <4>3. \A j \in sub'[t].snap : log[j].at \in Nat
        BY <1>2, <2>1
      <4>4. QED
        BY <1>2, <2>2, <4>1, <4>2, <4>3
    <3>3. QED
      BY <1>1, <2>1, <2>3, <2>4, <3>1, <3>2 DEF Rising
  <2>8. Ordered(t)'
    <3>1. ASSUME NEW k \in 1 .. n + 1, NEW l \in 1 .. n + 1, k < l, log[e[k]].by = log[e[l]].by,
                 e[l] < e[k]
          PROVE  log[e[l]].at >= log[e[k]].at
      <4>1. k \in 1 .. n
        BY <2>3, <3>1
      <4>2. CASE l = n + 1
        <5>1. e[l] = v /\ e[k] = c[k] /\ log[c[k]].at < log[v].at
          BY <2>3, <2>4, <2>5, <4>1, <4>2
        <5>2. log[c[k]].at \in Nat /\ log[v].at \in Nat
          BY <1>2, <2>2, <2>5, <4>1
        <5>3. QED
          BY <5>1, <5>2
      <4>3. CASE l \in 1 .. n
        BY <2>3, <2>4, <2>5, <3>1, <4>1, <4>3 DEF Ordered
      <4>4. QED
        BY <2>6, <4>2, <4>3
    <3>2. QED
      BY <1>1, <2>3, <2>4, <3>1 DEF Ordered
  <2>9. ASSUME NEW i \in 1 .. Len(log) PROVE Once(t, i)' /\ Twice(t, i)'
    <3>1. \A k \in 1 .. n : c[k] # v
      BY <1>2, <2>2, <2>5
    <3>2. \A k, l \in 1 .. n : c[k] = i /\ c[l] = i => k = l
      BY <1>3, <2>3, <2>4 DEF Once
    <3>3. \A k, l \in 1 .. n + 1 : e[k] = i /\ e[l] = i => k = l
      <4>1. ASSUME NEW k \in 1 .. n + 1 PROVE (k = n + 1 /\ e[k] = v) \/ (k \in 1 .. n /\ e[k] # v /\ e[k] = c[k])
        BY <2>3, <2>4, <2>5, <2>6, <3>1
      <4>2. QED
        BY <3>2, <4>1
    <3>4. QED
      BY <2>3, <2>4, <3>3 DEF Once, Twice
  <2>10. Counted(t)'
    BY <1>1, <2>9 DEF Counted
  <2>11. QED
    BY <2>7, <2>8, <2>10
<1>5. CASE ~CatchUpSend(t)
  <2>1. sub'[t].sent = sub[t].sent
    BY <1>5, CatchUpFields
  <2>2. Ordered(t)' /\ Counted(t)'
    <3>1. Ordered(t)'
      BY <1>1, <2>1 DEF Ordered
    <3>2. \A i \in 1 .. Len(log) : Once(t, i)' /\ Twice(t, i)'
      BY <1>3, <2>1 DEF Once, Twice
    <3>3. QED
      BY <1>1, <3>1, <3>2 DEF Counted
  <2>3. Rising(t)'
    <3>1. CASE CatchUpLock(t)
      <4>1. /\ sub'[t].catchUp = "replay" /\ sub'[t].lastAt = 0 /\ sub[t].catchUp = "lock"
            /\ sub'[t].snap = Replay(sub[t].name, sub[t].lastAt)
        BY <3>1, CatchUpFields DEF CatchUpLock
      <4>2. PICK r : r = Replay(sub[t].name, sub[t].lastAt)
        OBVIOUS
      <4>3. \A j \in r : /\ j \in 1 .. Len(log) /\ log[j].name = sub[t].name
                         /\ log[j].at >= sub[t].lastAt
                         /\ \A i \in j + 1 .. Len(log) :
                              log[i].name = sub[t].name => log[i].at # log[j].at
        BY <4>2 DEF Replay
      <4>4. ASSUME NEW i \in r, NEW j \in r, log[i].at = log[j].at PROVE i = j
        <5>1. i \in 1 .. Len(log) /\ j \in 1 .. Len(log)
          BY <4>3
        <5>2. ~(i < j)
          BY <4>3, <4>4, <5>1
        <5>3. ~(j < i)
          BY <4>3, <4>4, <5>1
        <5>4. QED
          BY <5>1, <5>2, <5>3
      <4>5. ASSUME NEW k \in 1 .. Len(sub[t].sent), NEW j \in r
            PROVE  log[sub[t].sent[k]].at < log[j].at
        <5>1. log[sub[t].sent[k]].at < sub[t].lastAt
          BY <4>1 DEF Rising
        <5>2. log[j].at >= sub[t].lastAt /\ log[j].at \in Nat /\ log[sub[t].sent[k]].at \in Nat
          BY <1>2, <4>3
        <5>3. QED
          BY <1>2, <5>1, <5>2
      <4>6. QED
        BY <1>1, <2>1, <4>1, <4>2, <4>4, <4>5 DEF Rising
    <3>2. CASE CatchUpBlock(t)
      <4>1. /\ sub'[t].catchUp = "blocked" /\ sub[t].catchUp = "replay"
            /\ sub'[t].lastAt = sub[t].lastAt /\ sub'[t].snap = sub[t].snap
        BY <3>2, CatchUpFields DEF CatchUpBlock
      <4>2. QED
        BY <1>1, <2>1, <4>1 DEF Rising
    <3>3. CASE CatchUpAgain(t)
      <4>1. /\ sub'[t].catchUp = "lock" /\ sub'[t].lastAt = sub[t].lastAt + 1
            /\ sub[t].catchUp = "replay" /\ ~sub[t].locked
        BY <3>3, CatchUpFields DEF CatchUpAgain
      <4>2. sub[t].lastAt # 0
        BY <4>1 DEF Reached
      <4>3. \A k \in 1 .. Len(sub[t].sent) : log[sub[t].sent[k]].at <= sub[t].lastAt
        BY <4>1, <4>2 DEF Rising
      <4>4. \A k \in 1 .. Len(sub[t].sent) : log[sub[t].sent[k]].at < sub[t].lastAt + 1
        BY <1>2, <4>3
      <4>5. QED
        BY <1>1, <2>1, <4>1, <4>4 DEF Rising
    <3>4. CASE CatchUpSwitch(t)
      <4>1. sub'[t].catchUp = "done"
        BY <3>4, CatchUpFields
      <4>2. QED
        BY <4>1 DEF Rising
    <3>5. QED
      BY <1>5, <3>1, <3>2, <3>3, <3>4 DEF CatchUp
  <2>4. QED
    BY <2>2, <2>3
<1>6. QED
  BY <1>4, <1>5

LEMMA OrderStep ==
  ASSUME TypeOK, FlowInv, MutexMatchesFlags, ListInv, ReachedInv, OrderInv, hub = "up", Next
  PROVE  OrderInv'
<1>1. LatestInv /\ LatestInv'
  BY LatestStep DEF OrderInv
<1>2. ASSUME NEW t \in Subs PROVE (Rising(t) /\ Ordered(t) /\ Counted(t))'
  <2>1. Rising(t) /\ Ordered(t) /\ Counted(t) /\ Reached(t)
    BY DEF OrderInv, ReachedInv
  <2>2. CASE Subscribe(t)
    <3>1. sub'[t].sent = <<>> /\ sub'[t].catchUp = "lock"
      BY <2>2, SubscribeFields
    <3>2. Len(sub'[t].sent) = 0 /\ 1 .. 0 = {}
      BY <3>1
    <3>3. Rising(t)' /\ Ordered(t)'
      BY <3>1, <3>2 DEF Rising, Ordered
    <3>4. \A i : Once(t, i)' /\ Twice(t, i)'
      BY <3>2 DEF Once, Twice
    <3>5. QED
      BY <3>3, <3>4 DEF Counted
  <2>3. CASE CatchUp(t)
    BY <2>1, <2>3, OrderRound
  <2>4. CASE ~Subscribe(t) /\ ~CatchUp(t)
    <3>1. CASE sub'[t].sent = sub[t].sent
      BY <2>1, <2>4, <3>1, OrderKept
    <3>2. CASE sub'[t].sent # sub[t].sent
      <4>1. PICK p \in Pushers : PublishSend(p) /\ t = Target(p)
        BY <2>4, <3>2, CatchUpKept
      <4>2. Wanted(p)
        BY <3>2, <4>1, SendFields
      <4>3. QED
        BY <1>1, <2>1, <4>1, <4>2, OrderPublish
    <3>3. QED
      BY <3>1, <3>2
  <2>5. QED
    BY <2>2, <2>3, <2>4
<1>3. QED
  BY <1>1, <1>2 DEF OrderInv

-----------------------------------------------------------------------------
(* The theorems.                                                             *)

LEMMA SensorInit == Init => SensorInv
<1>1. SUFFICES ASSUME Init PROVE SensorInv
  OBVIOUS
<1>2. /\ push \in [Pushers -> {[to |-> n, pc |-> "idle", at |-> 0, val |-> 0, idx |-> 1] : n \in Sensors}]
      /\ now = 0 /\ log = <<>> /\ mutex = None /\ list = <<>> /\ since = <<>> /\ hub = "up"
      /\ sub = [s \in Subs |-> Fresh]
  BY <1>1 DEF Init
<1>3. \A p \in Pushers : \E n \in Sensors :
        push[p] = [to |-> n, pc |-> "idle", at |-> 0, val |-> 0, idx |-> 1]
  BY <1>2
<1>4. ASSUME NEW p \in Pushers PROVE push[p] \in Pushing /\ push[p].pc = "idle"
  <2>1. PICK n \in Sensors : push[p] = [to |-> n, pc |-> "idle", at |-> 0, val |-> 0, idx |-> 1]
    BY <1>3
  <2>2. PICK z \in Nat, v \in 0 .. Len(log), o \in Nat \ {0} : z = 0 /\ v = 0 /\ o = 1
    <3>1. Len(log) = 0 /\ 0 \in 0 .. 0
      BY <1>2
    <3>2. QED
      BY <3>1
  <2>3. push[p] = [to |-> n, pc |-> "idle", at |-> z, val |-> v, idx |-> o]
    BY <2>1, <2>2
  <2>4. QED
    BY <2>3 DEF Pushing
<1>5. \A s \in Subs : sub[s] = Fresh
  BY <1>2
<1>6. Fresh \in Subscription
  <2>1. <<>> \in Seq(1 .. Len(log)) /\ {} \in SUBSET (1 .. Len(log)) /\ 0 \in StartAts \cup {0}
    OBVIOUS
  <2>2. QED
    BY <2>1 DEF Fresh, Subscription
<1>7. /\ Fresh.stream = "none" /\ Fresh.catchUp = "none" /\ Fresh.closed = FALSE
      /\ Fresh.sent = <<>> /\ Fresh.taken = 0
  BY DEF Fresh
<1>8. DOMAIN list = {} /\ DOMAIN since = {} /\ Len(log) = 0 /\ 1 .. Len(log) = {}
  BY <1>2
<1>9. TypeOK
  <2>1. push \in [Pushers -> Pushing]
    BY <1>2, <1>4
  <2>2. sub \in [Subs -> Subscription]
    BY <1>2, <1>6
  <2>3. \A s \in Subs : Len(sub[s].sent) - sub[s].taken \in 0 .. Cap
    BY <1>5, <1>7, ConstantsAssumption
  <2>4. QED
    BY <1>2, <1>8, <2>1, <2>2, <2>3 DEF TypeOK
<1>10. FlowInv
  <2>1. \A p \in Pushers : PusherFlow(p)
    BY <1>4 DEF PusherFlow
  <2>2. \A s \in Subs : SubFlow(s)
    BY <1>5, <1>7 DEF SubFlow
  <2>3. QED
    BY <2>1, <2>2 DEF FlowInv
<1>11. MutexMatchesFlags
  BY <1>2, <1>4, <1>5, <1>7, ConstantsAssumption DEF MutexMatchesFlags
<1>12. ListInv
  BY <1>5, <1>7, <1>8 DEF ListInv, InList, Listed
<1>13. ReachedInv
  BY <1>5, <1>7 DEF ReachedInv, Reached, Listed
<1>14. CaughtUpInv
  BY <1>8 DEF CaughtUpInv
<1>15. OrderInv
  <2>1. \A s \in Subs : Rising(s) /\ Ordered(s)
    BY <1>5, <1>7 DEF Rising, Ordered
  <2>2. QED
    BY <1>4, <1>8, <2>1 DEF OrderInv, LatestInv, Counted
<1>16. QED
  BY <1>9, <1>10, <1>11, <1>12, <1>13, <1>14, <1>15 DEF SensorInv

LEMMA SensorStep == SensorInv /\ [Next]_vars => SensorInv'
<1>1. SUFFICES ASSUME SensorInv, [Next]_vars PROVE SensorInv'
  OBVIOUS
<1>2. TypeOK /\ FlowInv /\ MutexMatchesFlags /\ ListInv /\ ReachedInv /\ CaughtUpInv /\ OrderInv
  BY <1>1 DEF SensorInv
<1>3. CASE Next
  <2>1. hub = "up"
    BY <1>3 DEF Next
  <2>2. TypeOK' /\ FlowInv'
    <3>1. ASSUME NEW p \in Pushers, Stamp(p) \/ PutValue(p) \/ Publish(p) PROVE TypeOK' /\ FlowInv'
      BY <1>2, <2>1, <3>1, TypeStepPush, FlowStepPush
    <3>2. ASSUME NEW s \in Subs, Subscribe(s) \/ CatchUp(s) \/ Stream(s) PROVE TypeOK' /\ FlowInv'
      BY <1>2, <2>1, <3>2, TypeStepSubscribe, TypeStepCatchUp, TypeStepStream, FlowStepSub
    <3>3. QED
      BY <1>3, <3>1, <3>2 DEF Next
  <2>3. MutexMatchesFlags' /\ ListInv'
    BY <1>2, <1>3, <2>1, MutexStep, ListStep
  <2>4. ReachedInv' /\ CaughtUpInv' /\ OrderInv'
    BY <1>2, <1>3, <2>1, ReachedStep, CaughtUpStep, OrderStep
  <2>5. QED
    BY <2>2, <2>3, <2>4 DEF SensorInv
<1>4. CASE UNCHANGED vars
  <2>1. UNCHANGED <<now, log, push, mutex, list, since, sub, hub>>
    BY <1>4 DEF vars
  <2>2. TypeOK'
    BY <1>2, <2>1 DEF TypeOK, Value, Pushing, Subscription
  <2>3. FlowInv'
    BY <1>2, <2>1 DEF FlowInv, PusherFlow, SubFlow
  <2>4. MutexMatchesFlags'
    BY <1>2, <2>1 DEF MutexMatchesFlags
  <2>5. ListInv'
    BY <1>2, <2>1 DEF ListInv, InList, At, Listed
  <2>6. ReachedInv'
    BY <1>2, <2>1 DEF ReachedInv, Reached, ReachedBy, At, Listed
  <2>7. CaughtUpInv'
    <3>1. \A s \in Subs : \A i : Wants(s, i)' /\ ~Got(s, i)' => Wants(s, i) /\ ~Got(s, i)
      BY <2>1 DEF Wants, InOrder, Got
    <3>2. \A s \in Subs : \A i : CaughtUp(s, i) => CaughtUp(s, i)'
      BY <2>1 DEF CaughtUp, Listed, InFlight, Untold, At
    <3>3. QED
      BY <1>2, <2>1, <3>1, <3>2 DEF CaughtUpInv
  <2>8. OrderInv'
    <3>1. LatestInv'
      BY <1>2, <2>1 DEF OrderInv, LatestInv
    <3>2. \A s \in Subs : Rising(s)' /\ Ordered(s)'
      BY <1>2, <2>1 DEF OrderInv, Rising, Ordered
    <3>3. \A s \in Subs : Counted(s)'
      <4>1. ASSUME NEW s \in Subs, NEW i \in 1 .. Len(log')
            PROVE  /\ Twice(s, i)'
                   /\ sub'[s].catchUp # "done" => Once(s, i)'
                   /\ (hub = "up" /\ Listed(s) /\ InFlight(i, s))' => Once(s, i)'
        <5>1. i \in 1 .. Len(log) /\ Counted(s)
          BY <1>2, <2>1 DEF OrderInv
        <5>2. /\ Twice(s, i) /\ (sub[s].catchUp # "done" => Once(s, i))
              /\ hub = "up" /\ Listed(s) /\ InFlight(i, s) => Once(s, i)
          BY <5>1 DEF Counted
        <5>3. /\ Twice(s, i) => Twice(s, i)'
              /\ Once(s, i) => Once(s, i)'
              /\ InFlight(i, s)' => InFlight(i, s)
              /\ Listed(s)' => Listed(s)
          BY <2>1 DEF Twice, Once, InFlight, At, Listed
        <5>4. sub'[s].catchUp = sub[s].catchUp /\ hub' = hub
          BY <2>1
        <5>5. QED
          BY <5>2, <5>3, <5>4
      <4>2. QED
        BY <4>1 DEF Counted
    <3>4. QED
      BY <3>1, <3>2, <3>3 DEF OrderInv
  <2>9. QED
    BY <2>2, <2>3, <2>4, <2>5, <2>6, <2>7, <2>8 DEF SensorInv
<1>5. QED
  BY <1>1, <1>3, <1>4

LEMMA SensorAlways == Spec => []SensorInv
<1>1. Init => SensorInv
  BY SensorInit
<1>2. SensorInv /\ [Next]_vars => SensorInv'
  BY SensorStep
<1>3. QED
  BY <1>1, <1>2, PTL DEF Spec

\* The goroutines of SensorPublish and catchUpSensorSubscribe keep their variables
\* and channels in range, in any order of their steps.
THEOREM SensorTypes == Spec => []TypeOK
<1>1. SensorInv => TypeOK
  BY DEF SensorInv
<1>2. QED
  BY <1>1, SensorAlways, PTL

\* sensorSubscriberMutex is held by whoever the flags of the goroutines say.
THEOREM SensorMutex == Spec => []MutexMatchesFlags
<1>1. SensorInv => MutexMatchesFlags
  BY DEF SensorInv
<1>2. QED
  BY <1>1, SensorAlways, PTL

\* The maps of addSensorSubscriber and removeSensorSubscriber stay parallel, and a
\* channel is in the list of its sensor once, from its catch-up's end until it is
\* closed.
THEOREM SensorLists == Spec => []ListsMatchChannels
<1>1. ASSUME SensorInv PROVE ListsMatchChannels
  <2>1. ListInv
    BY <1>1 DEF SensorInv
  <2>2. ASSUME NEW s \in Subs, NEW n \in DOMAIN list
        PROVE  Cardinality(At(s, n)) =
                 IF n = sub[s].name /\ sub[s].catchUp = "done" /\ ~sub[s].closed THEN 1 ELSE 0
    <3>1. /\ At(s, n) # {} <=> Listed(s) /\ n = sub[s].name
          /\ \A i, j \in At(s, n) : i = j
      BY <2>1 DEF ListInv, InList
    <3>2. CASE At(s, n) = {}
      <4>1. Cardinality(At(s, n)) = 0
        BY <3>2, FS_EmptySet
      <4>2. QED
        BY <3>1, <3>2, <4>1 DEF Listed
    <3>3. CASE At(s, n) # {}
      <4>1. PICK k : At(s, n) = {k}
        BY <3>1, <3>3
      <4>2. Cardinality({k}) = 1
        BY FS_Singleton
      <4>3. QED
        BY <3>1, <3>3, <4>1, <4>2 DEF Listed
    <3>4. QED
      BY <3>2, <3>3
  <2>3. QED
    BY <2>1, <2>2 DEF ListsMatchChannels, ListInv, InList
<1>2. SensorInv => ListsMatchChannels
  BY <1>1
<1>3. QED
  BY <1>2, SensorAlways, PTL

\* Between the replay of catchUpSensorSubscribe and the real time of SensorPublish
\* no value falls that a subscriber asked for.
THEOREM NoValueLost == Spec => []NothingLost
<1>1. ASSUME SensorInv PROVE NothingLost
  <2>1. CaughtUpInv
    BY <1>1 DEF SensorInv
  <2>2. SUFFICES ASSUME hub = "up", NEW s \in Subs, Listed(s), NEW i \in 1 .. Len(log),
                        Wants(s, i), ~InFlight(i, s)
                 PROVE  Got(s, i)
    BY DEF NothingLost, Listed, Wants, Got
  <2>3. QED
    BY <2>1, <2>2 DEF CaughtUpInv, CaughtUp
<1>2. SensorInv => NothingLost
  BY <1>1
<1>3. QED
  BY <1>2, SensorAlways, PTL

\* A set no three elements of which differ has at most two.
LEMMA AtMostTwo ==
  ASSUME NEW S, NEW k \in S, \A x, y, z \in S : x = y \/ y = z \/ x = z
  PROVE  Cardinality(S) <= 2
<1>1. IsFiniteSet({k}) /\ Cardinality({k}) = 1
  BY FS_Singleton, ZenonT(30)
<1>2. \A l : Cardinality({k} \cup {l})
               = IF l \in {k} THEN Cardinality({k}) ELSE Cardinality({k}) + 1
  BY <1>1, FS_AddElement, ZenonT(30)
<1>3. PICK l \in S : S = {k} \cup {l}
  <2>1. CASE S = {k}
    BY <2>1
  <2>2. CASE S # {k}
    <3>1. PICK l \in S : l # k
      BY <2>2
    <3>2. \A x \in S : x = k \/ x = l
      BY <3>1
    <3>3. QED
      BY <3>1, <3>2
  <2>3. QED
    BY <2>1, <2>2
<1>4. PICK c : c = Cardinality({k} \cup {l})
  OBVIOUS
<1>5. c = 1 \/ c = 1 + 1
  BY <1>1, <1>2, <1>4, ZenonT(30)
<1>6. c <= 2
  BY <1>5
<1>7. Cardinality(S) = c
  BY <1>3, <1>4, ZenonT(30)
<1>8. QED
  BY <1>6, <1>7, ZenonT(30)

\* Whatever two goroutines of SensorPublish and a catch-up interleave, a channel
\* gets the values of one pusher in their order, and none of them a third time.
THEOREM PushersStayInOrder == Spec => []PushersInOrder
<1>1. ASSUME SensorInv PROVE PushersInOrder
  <2>1. TypeOK /\ FlowInv /\ OrderInv
    BY <1>1 DEF SensorInv
  <2>2. ASSUME NEW s \in Subs, NEW k \in 1 .. Len(sub[s].sent)
        PROVE  Cardinality({l \in 1 .. Len(sub[s].sent) : sub[s].sent[l] = sub[s].sent[k]}) <= 2
    <3>1. PICK i \in 1 .. Len(log) : i = sub[s].sent[k]
      BY <2>1, Types
    <3>2. PICK S : S = {l \in 1 .. Len(sub[s].sent) : sub[s].sent[l] = i}
      OBVIOUS
    <3>3. \A x, y, z \in S : x = y \/ y = z \/ x = z
      BY <2>1, <3>2 DEF OrderInv, Counted, Twice
    <3>4. k \in S
      BY <3>1, <3>2
    <3>5. Cardinality(S) <= 2
      BY <3>3, <3>4, AtMostTwo, ZenonT(30)
    <3>6. QED
      BY <3>1, <3>2, <3>5, ZenonT(30)
  <2>3. \A s \in Subs : SubFlow(s) /\ Ordered(s)
    BY <2>1 DEF FlowInv, OrderInv
  <2>4. QED
    BY <2>2, <2>3 DEF PushersInOrder, SubFlow, Ordered
<1>2. SensorInv => PushersInOrder
  BY <1>1
<1>3. QED
  BY <1>2, SensorAlways, PTL
=================================================================================
