-------------------------- MODULE RFSubscribe_proofs --------------------------
(* Proofs that the invariants of RFSubscribeProps hold for every number of    *)
(* subscriptions and messages and every channel capacity; and, if no two      *)
(* messages carry the same time stamp, that a subscription has no gap, repeats *)
(* at most one message and implements RFStream.                               *)
EXTENDS RFSubscribeProps, SequenceTheorems, TLAPS

-----------------------------------------------------------------------------
(* The inductive invariant behind the safety properties.                    *)

\* The life of a subscription: its catch-up, its place in the list, its channel.
SubscriptionInv(s) ==
  /\ (stream[s] = "none") <=> (catchUp[s] = "none")
  /\ Listed(s) <=> (catchUp[s] = "done" /\ ~closed[s])
  /\ closed[s] => catchUp[s] = "done"
  /\ catchUp[s] # "none" => start[s] \in StartAts
  /\ catchUp[s] = "none" => sent[s] = <<>>
  /\ catchUp[s] = "blocked" => snap[s] # {} /\ ~locked[s]

\* Independent of the clock: who is in the list, and who holds the mutex.
SafetyInv ==
  /\ TypeOK
  /\ ListsParallel
  /\ MutexMatchesFlags
  /\ pub # "idle" => log # <<>>
  /\ \A s \in Subs : SubscriptionInv(s)

-----------------------------------------------------------------------------
\* What cutting one element out of a sequence leaves: RFUnsubscribe's slices.
LEMMA RemoveAtProperties ==
  ASSUME NEW S, NEW q \in Seq(S), NEW k \in 1 .. Len(q)
  PROVE  /\ RemoveAt(q, k) \in Seq(S)
         /\ Len(RemoveAt(q, k)) = Len(q) - 1
         /\ \A j \in 1 .. Len(q) - 1 :
              RemoveAt(q, k)[j] = IF j < k THEN q[j] ELSE q[j + 1]
<1> DEFINE a == SubSeq(q, 1, k - 1)
           b == SubSeq(q, k + 1, Len(q))
<1>1. a \in Seq(S) /\ Len(a) = k - 1 /\ \A j \in 1 .. k - 1 : a[j] = q[j]
  <2>1. \A j \in 1 .. k - 1 : q[j] \in S
    OBVIOUS
  <2>2. QED
    BY <2>1, SubSeqProperties, 1 \in Int, k - 1 \in Int
<1>2. b \in Seq(S) /\ Len(b) = Len(q) - k /\ \A j \in 1 .. Len(q) - k : b[j] = q[k + j]
  <2>1. \A j \in k + 1 .. Len(q) : q[j] \in S
    OBVIOUS
  <2>2. k + 1 \in Int /\ Len(q) \in Int /\ k \in Int
    OBVIOUS
  <2>3. /\ b \in Seq(S)
        /\ Len(b) = IF k + 1 <= Len(q) THEN Len(q) - (k + 1) + 1 ELSE 0
        /\ \A j \in 1 .. Len(q) - (k + 1) + 1 : b[j] = q[k + 1 + j - 1]
    BY <2>1, <2>2, SubSeqProperties
  <2>4. QED
    BY <2>2, <2>3
<1>3. RemoveAt(q, k) = a \o b
  BY DEF RemoveAt
<1> HIDE DEF a, b
<1>4. /\ a \o b \in Seq(S)
      /\ Len(a \o b) = Len(a) + Len(b)
      /\ \A j \in 1 .. Len(a) + Len(b) :
           (a \o b)[j] = IF j <= Len(a) THEN a[j] ELSE b[j - Len(a)]
  BY <1>1, <1>2, ConcatProperties
<1>5. k \in 1 .. Len(q) /\ Len(q) \in Nat
  OBVIOUS
<1>6. ASSUME NEW j \in 1 .. Len(q) - 1
      PROVE  (a \o b)[j] = IF j < k THEN q[j] ELSE q[j + 1]
  <2>1. j \in 1 .. Len(a) + Len(b) /\ Len(a) = k - 1
    BY <1>1, <1>2, <1>5
  <2>2. CASE j < k
    <3>1. (a \o b)[j] = a[j]
      BY <1>4, <1>5, <2>1, <2>2
    <3>2. QED
      BY <1>1, <1>5, <2>2, <3>1
  <2>3. CASE ~(j < k)
    <3> DEFINE i == j - Len(a)
    <3>1. (a \o b)[j] = b[i]
      BY <1>4, <1>5, <2>1, <2>3
    <3>2. i \in 1 .. Len(q) - k /\ k + i = j + 1
      BY <1>5, <2>1, <2>3
    <3>3. b[i] = q[k + i]
      BY <1>2, <3>2
    <3>4. QED
      BY <2>3, <3>1, <3>2, <3>3
  <2>4. QED
    BY <2>2, <2>3
<1>7. QED
  BY <1>1, <1>2, <1>3, <1>4, <1>5, <1>6

\* Receiving and delivering only move the counters of one channel.
LEMMA TypeStepStream ==
  ASSUME TypeOK, NEW s \in Subs, Receive(s) \/ SendOK(s) \/ Drain(s)
  PROVE  TypeOK'
<1>1. /\ taken \in [Subs -> Nat] /\ got \in [Subs -> Nat]
      /\ \A t \in Subs : Len(sent[t]) \in Nat
      /\ \A t \in Subs : ChannelOK(t)
      /\ Cap \in Nat
  BY ConstantsAssumption DEF TypeOK
<1>2. ASSUME Receive(s)
      PROVE  /\ taken' \in [Subs -> Nat] /\ got' \in [Subs -> Nat]
             /\ \A t \in Subs : ChannelOK(t)'
  BY <1>1, <1>2 DEF ChannelOK, Receive
<1>3. ASSUME SendOK(s)
      PROVE  /\ taken' \in [Subs -> Nat] /\ got' \in [Subs -> Nat]
             /\ \A t \in Subs : ChannelOK(t)'
  BY <1>1, <1>3 DEF ChannelOK, SendOK
<1>4. ASSUME Drain(s)
      PROVE  /\ taken' \in [Subs -> Nat] /\ got' \in [Subs -> Nat]
             /\ \A t \in Subs : ChannelOK(t)'
  BY <1>1, <1>4 DEF ChannelOK, Drain
<1>5. stream' \in [Subs -> {"none", "recv", "send", "unsubscribe", "drain", "done"}]
  BY DEF TypeOK, Receive, SendOK, Drain
<1>6. UNCHANGED <<log, pub, idx, mutex, listVars, start, catchUpVars, sent, closed>>
  BY DEF Receive, SendOK, Drain
<1>7. QED
  BY <1>2, <1>3, <1>4, <1>5, <1>6 DEF TypeOK, listVars, catchUpVars

\* A send into a channel with room keeps the channel in its bounds.
LEMMA EnqueueProperties ==
  ASSUME TypeOK, NEW s \in Subs, NEW n \in 1 .. Len(log),
         ~Full(s), Enqueue(s, n), UNCHANGED <<log, taken, got>>
  PROVE  /\ sent' \in [Subs -> Seq(1 .. Len(log))]
         /\ sent'[s] = Append(sent[s], n)
         /\ Len(sent'[s]) = Len(sent[s]) + 1
         /\ sent'[s][Len(sent'[s])] = n
         /\ \A i \in 1 .. Len(sent[s]) : sent'[s][i] = sent[s][i]
         /\ \A t \in Subs \ {s} : sent'[t] = sent[t]
         /\ \A t \in Subs : ChannelOK(t)'
<1>1. /\ sent \in [Subs -> Seq(1 .. Len(log))]
      /\ taken \in [Subs -> Nat] /\ got \in [Subs -> Nat]
      /\ \A t \in Subs : ChannelOK(t)
  BY DEF TypeOK
<1>2. sent[s] \in Seq(1 .. Len(log))
  BY <1>1
<1>2a. Cap \in Nat /\ \A t \in Subs : Len(sent[t]) \in Nat
  <2>1. Cap \in Nat
    BY ConstantsAssumption
  <2>2. ASSUME NEW t \in Subs PROVE Len(sent[t]) \in Nat
    <3>1. sent[t] \in Seq(1 .. Len(log))
      BY <1>1
    <3>2. QED
      BY <3>1
  <2>3. QED
    BY <2>1, <2>2
<1>3. /\ sent'[s] = Append(sent[s], n)
      /\ \A t \in Subs \ {s} : sent'[t] = sent[t]
  BY <1>1 DEF Enqueue
<1>4. /\ sent'[s] \in Seq(1 .. Len(log))
      /\ Len(sent'[s]) = Len(sent[s]) + 1
      /\ \A i \in 1 .. Len(sent[s]) : sent'[s][i] = sent[s][i]
      /\ sent'[s][Len(sent[s]) + 1] = n
  BY <1>2, <1>3, AppendProperties
<1>5. sent' \in [Subs -> Seq(1 .. Len(log))]
  BY <1>1, <1>2, <1>3, <1>4 DEF Enqueue
<1>6. ASSUME NEW t \in Subs
      PROVE  ChannelOK(t)'
  <2>1. CASE t = s
    BY <1>1, <1>2a, <1>4, <2>1 DEF ChannelOK, Full
  <2>2. CASE t # s
    BY <1>1, <1>2a, <1>3, <2>2 DEF ChannelOK
  <2>3. QED
    BY <2>1, <2>2
<1>7. QED
  BY <1>3, <1>4, <1>5, <1>6

\* PutRFMessage: a new time stamp is above 0 and no message sent becomes dangling.
LEMMA TypeStepPut ==
  ASSUME TypeOK, PutMessage
  PROVE  TypeOK'
<1>1. /\ log \in Seq(Nat \ {0}) /\ Len(log) \in Nat
      /\ sent \in [Subs -> Seq(1 .. Len(log))]
      /\ snap \in [Subs -> SUBSET (1 .. Len(log))]
  BY DEF TypeOK
<1>2. log' \in Seq(Nat \ {0}) /\ Len(log') = Len(log) + 1
  <2>1. Now \in Nat \ {0}
    BY <1>1 DEF Now
  <2>2. PICK d \in Ticks : log' = Append(log, Now + d)
    BY DEF PutMessage
  <2>3. Now + d \in Nat \ {0}
    BY <2>1, ConstantsAssumption
  <2>4. QED
    BY <1>1, <2>2, <2>3, AppendProperties
<1>3. sent \in [Subs -> Seq(1 .. Len(log'))]
  <2>1. \A t \in Subs : sent[t] \in Seq(1 .. Len(log'))
    BY <1>1, <1>2, SeqMonotonic, 1 .. Len(log) \subseteq 1 .. Len(log')
  <2>2. QED
    BY <1>1, <2>1
<1>4. snap \in [Subs -> SUBSET (1 .. Len(log'))]
  BY <1>1, <1>2
<1>5. \A s \in Subs : ChannelOK(s)'
  BY DEF TypeOK, ChannelOK, PutMessage, streamVars
<1>6. QED
  BY <1>2, <1>3, <1>4, <1>5 DEF TypeOK, PutMessage, listVars, catchUpVars, streamVars

\* One round of RFPublish's loop keeps the types and the capacity of the channel.
LEMMA TypeStepPublishSend ==
  ASSUME TypeOK, log # <<>>, PublishSend
  PROVE  TypeOK'
<1>1. /\ log \in Seq(Nat \ {0}) /\ list \in Seq(Subs) /\ idx \in Nat \ {0}
      /\ idx + 1 \in Nat \ {0} /\ idx <= Len(list)
  BY DEF TypeOK, PublishSend
<1>2. Len(log) \in 1 .. Len(log) /\ list[idx] \in Subs
  BY <1>1
<1>3. UNCHANGED <<log, pub, mutex, listVars, start, catchUpVars, streamVars, closed>>
  BY DEF PublishSend
<1>4. idx' \in Nat \ {0}
  BY <1>1 DEF PublishSend
<1>5. CASE Wanted(idx)
  <2>1. ~Full(list[idx]) /\ Enqueue(list[idx], Len(log))
    BY <1>5 DEF PublishSend
  <2>2. /\ sent' \in [Subs -> Seq(1 .. Len(log))]
        /\ \A t \in Subs : ChannelOK(t)'
    BY <1>2, <1>3, <2>1, EnqueueProperties DEF streamVars
  <2>3. QED
    BY <1>3, <1>4, <2>2 DEF TypeOK, listVars, catchUpVars, streamVars
<1>6. CASE ~Wanted(idx)
  <2>1. UNCHANGED sent
    BY <1>6 DEF PublishSend
  <2>2. QED
    BY <1>3, <1>4, <2>1 DEF TypeOK, ChannelOK, listVars, catchUpVars, streamVars
<1>7. QED
  BY <1>5, <1>6

\* RFSubscribe: a new request starts from a clean subscription.
LEMMA TypeStepSubscribe ==
  ASSUME TypeOK, NEW s \in Subs, Subscribe(s)
  PROVE  TypeOK'
<1>1. /\ start' \in [Subs -> StartAts \cup {NotSubscribed}]
      /\ lastAt' \in [Subs -> Nat]
  BY ConstantsAssumption DEF TypeOK, Subscribe
<1>2. /\ catchUp' \in [Subs -> {"none", "lock", "replay", "blocked", "done"}]
      /\ stream' \in [Subs -> {"none", "recv", "send", "unsubscribe", "drain", "done"}]
  BY DEF TypeOK, Subscribe
<1>3. UNCHANGED <<log, pub, idx, mutex, listVars, locked, snap, taken, got, sent, closed>>
  BY DEF Subscribe
<1>4. QED
  BY <1>1, <1>2, <1>3 DEF TypeOK, ChannelOK, listVars

\* Every step of catchUpRFSubscribe keeps the types and the capacity of the channel.
LEMMA TypeStepCatchUp ==
  ASSUME TypeOK, NEW s \in Subs, CatchUp(s)
  PROVE  TypeOK'
<1>1. CASE CatchUpLock(s)
  <2>1. /\ snap' \in [Subs -> SUBSET (1 .. Len(log))]
        /\ lastAt' \in [Subs -> Nat]
        /\ locked' \in [Subs -> BOOLEAN]
        /\ mutex' \in Subs \cup {None, Publisher}
        /\ catchUp' \in [Subs -> {"none", "lock", "replay", "blocked", "done"}]
    BY <1>1 DEF TypeOK, CatchUpLock, Replay
  <2>2. QED
    BY <1>1, <2>1 DEF TypeOK, ChannelOK, CatchUpLock, listVars, streamVars
<1>2. CASE CatchUpSend(s)
  <2>1. PICK n \in snap[s] : NextReplayed(s, n) /\ ReplayOne(s, n)
    BY <1>2 DEF CatchUpSend
  <2>2. n \in 1 .. Len(log) /\ log[n] \in Nat
    BY <2>1 DEF TypeOK
  <2>3. UNCHANGED <<log, taken, got>> /\ ~Full(s) /\ Enqueue(s, n)
    BY <2>1 DEF ReplayOne, streamVars
  <2>4. sent' \in [Subs -> Seq(1 .. Len(log))] /\ \A t \in Subs : ChannelOK(t)'
    BY <2>2, <2>3, EnqueueProperties
  <2>5. /\ snap' \in [Subs -> SUBSET (1 .. Len(log))]
        /\ lastAt' \in [Subs -> Nat]
        /\ catchUp' \in [Subs -> {"none", "lock", "replay", "blocked", "done"}]
    BY <2>1, <2>2 DEF TypeOK, ReplayOne
  <2>6. QED
    BY <2>1, <2>4, <2>5 DEF TypeOK, ReplayOne, listVars, streamVars
<1>3. CASE CatchUpBlock(s)
  BY <1>3 DEF TypeOK, ChannelOK, CatchUpBlock, listVars, streamVars
<1>4. CASE CatchUpAgain(s)
  <2>1. /\ lastAt' \in [Subs -> Nat]
        /\ catchUp' \in [Subs -> {"none", "lock", "replay", "blocked", "done"}]
    BY <1>4 DEF TypeOK, CatchUpAgain, ResumeAt
  <2>2. QED
    BY <1>4, <2>1 DEF TypeOK, ChannelOK, CatchUpAgain, listVars, streamVars
<1>5. CASE CatchUpSwitch(s)
  <2>1. /\ list' \in Seq(Subs)
        /\ since' \in Seq(Nat)
        /\ catchUp' \in [Subs -> {"none", "lock", "replay", "blocked", "done"}]
        /\ mutex' \in Subs \cup {None, Publisher}
    <3>1. lastAt[s] + 1 \in Nat
      BY DEF TypeOK
    <3>2. list' \in Seq(Subs) /\ since' \in Seq(Nat)
      BY <1>5, <3>1, AppendProperties DEF TypeOK, CatchUpSwitch, ResumeAt
    <3>3. QED
      BY <1>5, <3>2 DEF TypeOK, CatchUpSwitch
  <2>2. QED
    BY <1>5, <2>1 DEF TypeOK, ChannelOK, CatchUpSwitch, streamVars
<1>6. QED
  BY <1>1, <1>2, <1>3, <1>4, <1>5 DEF CatchUp

\* Cutting a subscriber out of the two parallel slices.
LEMMA CloseAndRemoveProperties ==
  ASSUME TypeOK, ListsParallel, NEW s \in Subs, NEW k \in 1 .. Len(list),
         list[k] = s, CloseAndRemove(s)
  PROVE  /\ list' = RemoveAt(list, k) /\ since' = RemoveAt(since, k)
         /\ list' \in Seq(Subs) /\ since' \in Seq(Nat)
         /\ Len(list') = Len(list) - 1 /\ Len(since') = Len(list) - 1
         /\ \A j \in 1 .. Len(list) - 1 :
              /\ list'[j] = IF j < k THEN list[j] ELSE list[j + 1]
              /\ since'[j] = IF j < k THEN since[j] ELSE since[j + 1]
         /\ closed' = [closed EXCEPT ![s] = TRUE]
<1>1. list \in Seq(Subs) /\ since \in Seq(Nat) /\ Len(list) = Len(since)
  BY DEF TypeOK, ListsParallel
<1>2. PICK i \in 1 .. Len(list) : /\ list[i] = s
                                  /\ list' = RemoveAt(list, i)
                                  /\ since' = RemoveAt(since, i)
                                  /\ closed' = [closed EXCEPT ![s] = TRUE]
  BY DEF CloseAndRemove
<1>3. i = k
  BY <1>2 DEF ListsParallel
<1>4. /\ list' = RemoveAt(list, k) /\ since' = RemoveAt(since, k)
      /\ closed' = [closed EXCEPT ![s] = TRUE]
  BY <1>2, <1>3
<1>5. /\ list' \in Seq(Subs) /\ Len(list') = Len(list) - 1
      /\ \A j \in 1 .. Len(list) - 1 : list'[j] = IF j < k THEN list[j] ELSE list[j + 1]
  BY <1>1, <1>4, RemoveAtProperties
<1>6. /\ since' \in Seq(Nat) /\ Len(since') = Len(list) - 1
      /\ \A j \in 1 .. Len(list) - 1 : since'[j] = IF j < k THEN since[j] ELSE since[j + 1]
  <2>1. since \in Seq(Nat) /\ k \in 1 .. Len(since)
    BY <1>1
  <2>2. /\ RemoveAt(since, k) \in Seq(Nat)
        /\ Len(RemoveAt(since, k)) = Len(since) - 1
        /\ \A j \in 1 .. Len(since) - 1 :
             RemoveAt(since, k)[j] = IF j < k THEN since[j] ELSE since[j + 1]
    BY <2>1, RemoveAtProperties
  <2>3. QED
    BY <1>1, <1>4, <2>2
<1>7. QED
  BY <1>4, <1>5, <1>6

\* RFUnsubscribe only shortens the slices and closes a channel.
LEMMA TypeStepUnsubscribe ==
  ASSUME TypeOK, ListsParallel, NEW s \in Subs, Unsubscribe(s)
  PROVE  TypeOK'
<1>1. /\ list' \in Seq(Subs) /\ since' \in Seq(Nat)
      /\ closed' \in [Subs -> BOOLEAN]
  <2>1. CASE Listed(s)
    <3>1. PICK k \in 1 .. Len(list) : list[k] = s
      BY <2>1 DEF Listed
    <3>2. QED
      BY <3>1, CloseAndRemoveProperties DEF Unsubscribe, TypeOK
  <2>2. CASE ~Listed(s)
    BY <2>2 DEF Listed, Unsubscribe, CloseAndRemove, TypeOK
  <2>3. QED
    BY <2>1, <2>2
<1>2. stream' \in [Subs -> {"none", "recv", "send", "unsubscribe", "drain", "done"}]
  BY DEF TypeOK, Unsubscribe
<1>3. UNCHANGED <<log, pub, idx, mutex, start, catchUpVars, taken, got, sent>>
  BY DEF Unsubscribe
<1>4. QED
  BY <1>1, <1>2, <1>3 DEF TypeOK, ChannelOK, catchUpVars

\* TypeOK is preserved by every step.
LEMMA TypeStep ==
  ASSUME TypeOK, ListsParallel, pub # "idle" => log # <<>>, [Next]_vars
  PROVE  TypeOK'
<1>1. CASE PutMessage
  BY <1>1, TypeStepPut
<1>2. CASE PublishLock
  BY <1>2 DEF TypeOK, ChannelOK, PublishLock, listVars, catchUpVars, streamVars
<1>3. CASE PublishSend
  BY <1>3, TypeStepPublishSend DEF PublishSend
<1>4. CASE PublishUnlock
  BY <1>4 DEF TypeOK, ChannelOK, PublishUnlock, listVars, catchUpVars, streamVars
<1>5. ASSUME NEW s \in Subs, Subscribe(s)
      PROVE  TypeOK'
  BY <1>5, TypeStepSubscribe
<1>6. ASSUME NEW s \in Subs, CatchUp(s)
      PROVE  TypeOK'
  BY <1>6, TypeStepCatchUp
<1>7. ASSUME NEW s \in Subs, Stream(s)
      PROVE  TypeOK'
  <2>1. CASE Receive(s) \/ SendOK(s) \/ Drain(s)
    BY <2>1, TypeStepStream
  <2>2. CASE Unsubscribe(s)
    BY <2>2, TypeStepUnsubscribe
  <2>3. CASE SendError(s) \/ DrainEnd(s)
    BY <2>3 DEF TypeOK, ChannelOK, SendError, DrainEnd, listVars, catchUpVars
  <2>4. QED
    BY <1>7, <2>1, <2>2, <2>3 DEF Stream
<1>8. CASE UNCHANGED vars
  BY <1>8 DEF TypeOK, ChannelOK, vars, listVars, catchUpVars, streamVars
<1>9. QED
  BY <1>1, <1>2, <1>3, <1>4, <1>5, <1>6, <1>7, <1>8 DEF Next, Publish

\* The part of SafetyInv above the types.
Discipline ==
  /\ ListsParallel
  /\ MutexMatchesFlags
  /\ pub # "idle" => log # <<>>
  /\ \A s \in Subs : SubscriptionInv(s)

\* RFPublish takes and gives back the mutex and leaves the slices alone.
LEMMA DisciplineStepPublish ==
  ASSUME TypeOK, Discipline, PutMessage \/ Publish
  PROVE  Discipline'
<1>1. UNCHANGED <<list, since, catchUp, locked, snap, start, stream, closed>>
  BY DEF PutMessage, Publish, PublishLock, PublishSend, PublishUnlock,
         listVars, catchUpVars, streamVars
<1>2. ListsParallel' /\ \A s \in Subs : Listed(s)' = Listed(s)
  BY <1>1 DEF Discipline, ListsParallel, Listed
<1>3. pub' # "idle" => log' # <<>>
  BY DEF Discipline, TypeOK, PutMessage, Publish, PublishLock, PublishSend, PublishUnlock
<1>4. MutexMatchesFlags'
  <2>1. ASSUME PutMessage PROVE MutexMatchesFlags'
    BY <1>1, <2>1 DEF Discipline, MutexMatchesFlags, PutMessage
  <2>2. ASSUME PublishLock PROVE MutexMatchesFlags'
    BY <1>1, <2>2, ConstantsAssumption DEF Discipline, MutexMatchesFlags, PublishLock
  <2>3. ASSUME PublishSend PROVE MutexMatchesFlags'
    BY <1>1, <2>3 DEF Discipline, MutexMatchesFlags, PublishSend
  <2>4. ASSUME PublishUnlock PROVE MutexMatchesFlags'
    BY <1>1, <2>4, ConstantsAssumption DEF Discipline, MutexMatchesFlags, PublishUnlock
  <2>5. QED
    BY <2>1, <2>2, <2>3, <2>4 DEF Publish
<1>5. ASSUME NEW s \in Subs, catchUp[s] = "none"
      PROVE  sent'[s] = sent[s]
  <2>1. CASE PublishSend /\ Wanted(idx)
    <3>1. /\ idx \in 1 .. Len(list)
          /\ list[idx] \in Subs
          /\ sent' = [sent EXCEPT ![list[idx]] = Append(@, Len(log))]
      <4>1. list \in Seq(Subs) /\ idx \in Nat \ {0} /\ idx <= Len(list)
        BY <2>1 DEF PublishSend, TypeOK
      <4>2. sent' = [sent EXCEPT ![list[idx]] = Append(@, Len(log))]
        BY <2>1 DEF PublishSend, Enqueue
      <4>3. QED
        BY <4>1, <4>2
    <3>2. Listed(list[idx])
      BY <3>1 DEF Listed
    <3>3. s # list[idx]
      BY <1>5, <3>1, <3>2 DEF Discipline, SubscriptionInv
    <3>4. QED
      BY <3>1, <3>3 DEF TypeOK
  <2>2. CASE ~(PublishSend /\ Wanted(idx))
    BY <2>2 DEF PutMessage, Publish, PublishLock, PublishSend, PublishUnlock
  <2>3. QED
    BY <2>1, <2>2
<1>6. ASSUME NEW s \in Subs
      PROVE  SubscriptionInv(s)'
  BY <1>1, <1>2, <1>5 DEF Discipline, SubscriptionInv
<1>7. QED
  BY <1>2, <1>3, <1>4, <1>6 DEF Discipline

\* A new request is in neither slice and does not hold the mutex.
LEMMA DisciplineStepSubscribe ==
  ASSUME TypeOK, Discipline, NEW s \in Subs, Subscribe(s)
  PROVE  Discipline'
<1>1. UNCHANGED <<log, pub, mutex, list, since, locked, snap, sent, closed>>
  BY DEF Subscribe, listVars
<1>2. /\ catchUp[s] = "none" /\ catchUp'[s] = "lock" /\ stream'[s] = "recv"
      /\ start'[s] \in StartAts
      /\ \A t \in Subs \ {s} : /\ catchUp'[t] = catchUp[t] /\ stream'[t] = stream[t]
                               /\ start'[t] = start[t]
  BY DEF TypeOK, Discipline, SubscriptionInv, Subscribe
<1>3. /\ ListsParallel' /\ \A t \in Subs : Listed(t)' = Listed(t)
      /\ pub' # "idle" => log' # <<>>
  BY <1>1 DEF Discipline, ListsParallel, Listed
<1>4. MutexMatchesFlags'
  BY <1>1, <1>2 DEF Discipline, MutexMatchesFlags
<1>5. ASSUME NEW t \in Subs
      PROVE  SubscriptionInv(t)'
  BY <1>1, <1>2, <1>3 DEF Discipline, SubscriptionInv
<1>6. QED
  BY <1>3, <1>4, <1>5 DEF Discipline

\* catchUpRFSubscribe gives the mutex back exactly when "locked" says it has it,
\* and appends a channel that was in neither slice.
LEMMA DisciplineStepCatchUp ==
  ASSUME TypeOK, Discipline, NEW s \in Subs, CatchUp(s)
  PROVE  Discipline'
<1>1. UNCHANGED <<log, pub, start, stream, closed>>
  BY DEF CatchUp, CatchUpLock, CatchUpSend, CatchUpBlock, CatchUpAgain, CatchUpSwitch,
         ReplayOne, streamVars
<1>2. s # None /\ s # Publisher /\ s \in Subs
  BY ConstantsAssumption
<1>3. \A t \in Subs \ {s} :
        /\ catchUp'[t] = catchUp[t] /\ locked'[t] = locked[t] /\ snap'[t] = snap[t]
        /\ sent'[t] = sent[t]
  BY DEF CatchUp, CatchUpLock, CatchUpSend, CatchUpBlock, CatchUpAgain, CatchUpSwitch,
         ReplayOne, Enqueue, TypeOK
<1>4. stream[s] # "none" /\ catchUp[s] # "done" /\ catchUp[s] # "none" /\ ~closed[s]
      /\ ~Listed(s) /\ start[s] \in StartAts
  BY DEF Discipline, SubscriptionInv, CatchUp, CatchUpLock, CatchUpSend, CatchUpBlock,
         CatchUpAgain, CatchUpSwitch
<1>5. CASE CatchUpSwitch(s)
  <2>1. list \in Seq(Subs) /\ since \in Seq(Nat) /\ ResumeAt(s) \in Nat
    BY DEF TypeOK, ResumeAt
  <2>2. /\ Len(list') = Len(list) + 1 /\ Len(since') = Len(since) + 1
        /\ list'[Len(list) + 1] = s
        /\ \A i \in 1 .. Len(list) : list'[i] = list[i]
    BY <1>5, <2>1, AppendProperties DEF CatchUpSwitch
  <2>3. \A i \in 1 .. Len(list) : list[i] # s
    BY <1>4 DEF Listed
  <2>4. ListsParallel'
    BY <2>1, <2>2, <2>3 DEF Discipline, ListsParallel
  <2>5. Listed(s)' /\ \A t \in Subs \ {s} : Listed(t)' = Listed(t)
    BY <2>1, <2>2 DEF Listed
  <2>6. catchUp'[s] = "done" /\ mutex = s /\ mutex' = None
    BY <1>5 DEF CatchUpSwitch, TypeOK, Discipline, MutexMatchesFlags
  <2>7. MutexMatchesFlags'
    BY <1>1, <1>2, <1>3, <2>6, ConstantsAssumption DEF Discipline, MutexMatchesFlags
  <2>8. ASSUME NEW t \in Subs
        PROVE  SubscriptionInv(t)'
    BY <1>1, <1>3, <1>4, <2>5, <2>6 DEF Discipline, SubscriptionInv
  <2>9. QED
    BY <1>1, <2>4, <2>7, <2>8 DEF Discipline
<1>6. CASE ~CatchUpSwitch(s)
  <2>1. UNCHANGED <<list, since>>
    BY <1>6 DEF CatchUp, CatchUpLock, CatchUpSend, CatchUpBlock, CatchUpAgain, ReplayOne,
                listVars
  <2>2. ListsParallel' /\ \A t \in Subs : Listed(t)' = Listed(t)
    BY <2>1 DEF Discipline, ListsParallel, Listed
  <2>3. /\ catchUp'[s] \in {"lock", "replay", "blocked"}
        /\ catchUp'[s] = "blocked" => snap'[s] # {} /\ ~locked'[s]
    BY <1>6 DEF CatchUp, CatchUpLock, CatchUpSend, CatchUpBlock, CatchUpAgain, ReplayOne, TypeOK
  <2>4. MutexMatchesFlags'
    <3>1. ASSUME CatchUpLock(s) PROVE MutexMatchesFlags'
      BY <1>1, <1>2, <1>3, <3>1, ConstantsAssumption
      DEF Discipline, MutexMatchesFlags, CatchUpLock, TypeOK
    <3>2. ASSUME CatchUpSend(s) PROVE MutexMatchesFlags'
      BY <1>1, <1>2, <1>3, <3>2
      DEF Discipline, MutexMatchesFlags, CatchUpSend, ReplayOne, TypeOK
    <3>3. ASSUME CatchUpBlock(s) PROVE MutexMatchesFlags'
      BY <1>1, <1>2, <1>3, <3>3, ConstantsAssumption
      DEF Discipline, MutexMatchesFlags, CatchUpBlock, TypeOK
    <3>4. ASSUME CatchUpAgain(s) PROVE MutexMatchesFlags'
      BY <1>1, <1>2, <1>3, <3>4 DEF Discipline, MutexMatchesFlags, CatchUpAgain, TypeOK
    <3>5. QED
      BY <1>6, <3>1, <3>2, <3>3, <3>4 DEF CatchUp
  <2>5. ASSUME NEW t \in Subs
        PROVE  SubscriptionInv(t)'
    BY <1>1, <1>3, <1>4, <2>2, <2>3 DEF Discipline, SubscriptionInv
  <2>6. QED
    BY <1>1, <2>2, <2>4, <2>5 DEF Discipline
<1>7. QED
  BY <1>5, <1>6

\* The streaming goroutine closes only a channel that it takes out of the slices.
LEMMA DisciplineStepStream ==
  ASSUME TypeOK, Discipline, NEW s \in Subs, Stream(s)
  PROVE  Discipline'
<1>1. UNCHANGED <<log, pub, mutex, start, catchUp, locked, snap, sent>>
  BY DEF Stream, Receive, SendOK, SendError, Unsubscribe, Drain, DrainEnd, catchUpVars
<1>2. /\ stream[s] # "none" /\ stream'[s] # "none"
      /\ \A t \in Subs \ {s} : stream'[t] = stream[t]
  BY DEF Stream, Receive, SendOK, SendError, Unsubscribe, Drain, DrainEnd, TypeOK
<1>3. MutexMatchesFlags' /\ (pub' # "idle" => log' # <<>>)
  BY <1>1 DEF Discipline, MutexMatchesFlags
<1>4. CASE Unsubscribe(s) /\ Listed(s)
  <2>1. PICK k \in 1 .. Len(list) : list[k] = s
    BY <1>4 DEF Listed
  <2>2. /\ list' \in Seq(Subs) /\ since' \in Seq(Nat)
        /\ Len(list') = Len(list) - 1 /\ Len(since') = Len(list) - 1
        /\ \A j \in 1 .. Len(list) - 1 :
             list'[j] = IF j < k THEN list[j] ELSE list[j + 1]
        /\ closed' = [closed EXCEPT ![s] = TRUE]
    BY <1>4, <2>1, CloseAndRemoveProperties DEF Discipline, Unsubscribe
  <2>3. list \in Seq(Subs) /\ Len(list) \in Nat /\ k \in 1 .. Len(list)
    BY DEF TypeOK
  <2>4. \A i, j \in 1 .. Len(list) : list[i] = list[j] => i = j
    BY DEF Discipline, ListsParallel
  <2>5. ListsParallel'
    <3>1. ASSUME NEW i \in 1 .. Len(list'), NEW j \in 1 .. Len(list'), list'[i] = list'[j]
          PROVE  i = j
      <4> DEFINE f(n) == IF n < k THEN n ELSE n + 1
      <4>1. /\ f(i) \in 1 .. Len(list) /\ f(j) \in 1 .. Len(list)
            /\ list'[i] = list[f(i)] /\ list'[j] = list[f(j)]
        BY <2>2, <2>3
      <4>2. f(i) = f(j)
        BY <2>4, <3>1, <4>1
      <4>3. QED
        BY <2>2, <2>3, <4>2
    <3>2. QED
      BY <2>2, <3>1 DEF ListsParallel
  <2>6. ASSUME NEW t \in Subs
        PROVE  Listed(t)' <=> (Listed(t) /\ t # s)
    <3>1. ASSUME Listed(t)' PROVE Listed(t) /\ t # s
      <4>1. PICK i \in 1 .. Len(list) - 1 : list'[i] = t
        BY <2>2, <3>1 DEF Listed
      <4>2. CASE i < k
        BY <2>1, <2>2, <2>3, <2>4, <4>1, <4>2 DEF Listed
      <4>3. CASE ~(i < k)
        <5>1. i + 1 \in 1 .. Len(list) /\ list[i + 1] = t /\ i + 1 # k
          BY <2>2, <2>3, <4>1, <4>3
        <5>2. QED
          BY <2>1, <2>4, <5>1 DEF Listed
      <4>4. QED
        BY <4>2, <4>3
    <3>2. ASSUME Listed(t), t # s PROVE Listed(t)'
      <4>1. PICK i \in 1 .. Len(list) : list[i] = t
        BY <3>2 DEF Listed
      <4>2. CASE i < k
        <5>1. i \in 1 .. Len(list) - 1
          BY <2>3, <4>1, <4>2
        <5>2. list'[i] = list[i]
          BY <2>2, <4>2, <5>1
        <5>3. QED
          BY <2>2, <4>1, <5>1, <5>2 DEF Listed
      <4>3. CASE ~(i < k)
        <5>1. i # k
          BY <2>1, <3>2, <4>1
        <5>2. i - 1 \in 1 .. Len(list) - 1 /\ ~(i - 1 < k) /\ (i - 1) + 1 = i
          BY <2>3, <4>3, <5>1
        <5>3. list'[i - 1] = t
          BY <2>2, <4>1, <5>2
        <5>4. QED
          BY <2>2, <5>2, <5>3 DEF Listed
      <4>4. QED
        BY <4>2, <4>3
    <3>3. QED
      BY <3>1, <3>2
  <2>7. closed'[s] /\ \A t \in Subs \ {s} : closed'[t] = closed[t]
    BY <2>2 DEF TypeOK
  <2>8. ASSUME NEW t \in Subs
        PROVE  SubscriptionInv(t)'
    BY <1>1, <1>2, <1>4, <2>6, <2>7 DEF Discipline, SubscriptionInv
  <2>9. QED
    BY <1>3, <2>5, <2>8 DEF Discipline
<1>5. CASE ~(Unsubscribe(s) /\ Listed(s))
  <2>1. UNCHANGED <<list, since, closed>>
    BY <1>5 DEF Stream, Receive, SendOK, SendError, Unsubscribe, CloseAndRemove, Drain,
                DrainEnd, Listed, listVars
  <2>2. ListsParallel' /\ \A t \in Subs : Listed(t)' = Listed(t)
    BY <2>1 DEF Discipline, ListsParallel, Listed
  <2>3. ASSUME NEW t \in Subs
        PROVE  SubscriptionInv(t)'
    BY <1>1, <1>2, <2>1, <2>2 DEF Discipline, SubscriptionInv
  <2>4. QED
    BY <1>3, <2>2, <2>3 DEF Discipline
<1>6. QED
  BY <1>4, <1>5

\* The types, the parallel slices, the mutex and the life of every
\* subscription: inductive whatever the clock does.
LEMMA SafetyInvInit == Init => SafetyInv
<1> SUFFICES ASSUME Init PROVE SafetyInv
  OBVIOUS
<1>1. TypeOK
  <2>1. log \in Seq(Nat \ {0}) /\ list \in Seq(Subs) /\ since \in Seq(Nat)
    BY DEF Init
  <2>2. sent \in [Subs -> Seq(1 .. Len(log))]
    BY DEF Init
  <2>3. \A s \in Subs : ChannelOK(s)
    BY ConstantsAssumption DEF Init, ChannelOK
  <2>4. QED
    BY <2>1, <2>2, <2>3 DEF Init, TypeOK
<1>2. ListsParallel /\ \A s \in Subs : ~Listed(s)
  BY DEF Init, ListsParallel, Listed
<1>3. MutexMatchesFlags
  BY ConstantsAssumption DEF Init, MutexMatchesFlags
<1>4. \A s \in Subs : SubscriptionInv(s)
  BY <1>2 DEF Init, SubscriptionInv
<1>5. QED
  BY <1>1, <1>2, <1>3, <1>4 DEF Init, SafetyInv

\* Every step of the hub preserves the invariant: one case per goroutine.
LEMMA SafetyInvStep == SafetyInv /\ [Next]_vars => SafetyInv'
<1> SUFFICES ASSUME SafetyInv, [Next]_vars PROVE SafetyInv'
  OBVIOUS
<1>1. TypeOK /\ Discipline
  BY DEF SafetyInv, Discipline
<1>2. TypeOK'
  BY <1>1, TypeStep DEF Discipline
<1>3. CASE PutMessage \/ Publish
  BY <1>1, <1>2, <1>3, DisciplineStepPublish DEF Discipline, SafetyInv
<1>4. ASSUME NEW s \in Subs, Subscribe(s)
      PROVE  SafetyInv'
  BY <1>1, <1>2, <1>4, DisciplineStepSubscribe DEF Discipline, SafetyInv
<1>5. ASSUME NEW s \in Subs, CatchUp(s)
      PROVE  SafetyInv'
  BY <1>1, <1>2, <1>5, DisciplineStepCatchUp DEF Discipline, SafetyInv
<1>6. ASSUME NEW s \in Subs, Stream(s)
      PROVE  SafetyInv'
  BY <1>1, <1>2, <1>6, DisciplineStepStream DEF Discipline, SafetyInv
<1>7. CASE UNCHANGED vars
  <2>1. /\ ListsParallel' /\ MutexMatchesFlags'
        /\ pub' # "idle" => log' # <<>>
        /\ \A s \in Subs : SubscriptionInv(s)'
    BY <1>1, <1>7 DEF Discipline, ListsParallel, MutexMatchesFlags, SubscriptionInv, Listed,
                      vars, listVars, catchUpVars, streamVars
  <2>2. QED
    BY <1>2, <2>1 DEF SafetyInv
<1>8. QED
  BY <1>3, <1>4, <1>5, <1>6, <1>7 DEF Next

\* The invariant holds in every reachable state.
LEMMA SafetyInvariant == Spec => []SafetyInv
  BY SafetyInvInit, SafetyInvStep, PTL DEF Spec

\* Every variable keeps its type and no channel exceeds its capacity.
THEOREM TypeCorrect == Spec => []TypeOK
<1>1. SafetyInv => TypeOK
  BY DEF SafetyInv
<1>2. QED
  BY <1>1, SafetyInvariant, PTL

\* The hub never panics by sending into, or closing, a closed channel of
\* RFSubscribe, for any number of subscriptions that come and go.
THEOREM ClosedChannelsAreLeftAlone == Spec => []NoSendOnClosed
<1>1. SafetyInv => NoSendOnClosed
  BY DEF SafetyInv, SubscriptionInv, NoSendOnClosed
<1>2. QED
  BY <1>1, SafetyInvariant, PTL

\* The Fatalf of RFUnsubscribe and of the catch-up is unreachable: the slices of
\* subscribers and of filters always have the same length and order.
THEOREM ListsStayParallel == Spec => []ListsParallel
<1>1. SafetyInv => ListsParallel
  BY DEF SafetyInv
<1>2. QED
  BY <1>1, SafetyInvariant, PTL

\* rfSubscriberMutex is released by its holder only, and held exactly while the
\* flags of RFPublish and of the catch-up say so.
THEOREM MutexDiscipline == Spec => []MutexMatchesFlags
<1>1. SafetyInv => MutexMatchesFlags
  BY DEF SafetyInv
<1>2. QED
  BY <1>1, SafetyInvariant, PTL

-----------------------------------------------------------------------------
(* The streams.  Their inductive invariants strengthen SafetyInv.            *)

LastSent(s) == sent[s][Len(sent[s])]

\* Message m is behind s: sent already, or older than anything it asked for.
Behind(s, m) == IF sent[s] = <<>> THEN log[m] < start[s] ELSE m <= LastSent(s)

\* How far the messages have been published to the i-th subscriber.
PublishedTo(i) ==
  IF pub = "idle" \/ (pub = "send" /\ idx > i) THEN Len(log) ELSE Len(log) - 1

\* Between two rounds lastAt is right after the last message sent.
BetweenRounds(s) ==
  catchUp[s] = "lock" =>
    lastAt[s] = IF sent[s] = <<>> THEN start[s] ELSE log[LastSent(s)] + 1

\* In a round the iterator has all that is not behind s up to the end n of its
\* snapshot; under the mutex at most a message not yet published is beyond n.
WithinRound(s) ==
  catchUp[s] \in {"replay", "blocked"} =>
    /\ \E n \in 0 .. Len(log) :
         /\ snap[s] = {m \in 1 .. n : ~Behind(s, m)}
         /\ locked[s] => n = Len(log) \/ (n = Len(log) - 1 /\ pub = "lock")
    /\ lastAt[s] = 0 \/ (sent[s] # <<>> /\ lastAt[s] = log[LastSent(s)])
    /\ catchUp[s] = "replay" /\ ~locked[s] => lastAt[s] # 0

\* A listed subscriber has all that was published, and its start excludes
\* nothing that it has not got.
InRealTime(i) ==
  LET s == list[i] IN
  /\ \A m \in 1 .. PublishedTo(i) : Behind(s, m)
  /\ \/ since[i] = 1
     \/ sent[s] # <<>> /\ \E m \in 1 .. LastSent(s) : since[i] = log[m] + 1

LogIncreasing == \A i, j \in 1 .. Len(log) : i < j => log[i] < log[j]

\* With a clock that ticks between any two messages: what each subscription
\* has been sent, and what its goroutine and the publisher will still send.
StreamInv ==
  /\ SafetyInv
  /\ LogIncreasing
  /\ \A s \in Subs : BetweenRounds(s) /\ WithinRound(s)
  /\ \A i \in 1 .. Len(list) : InRealTime(i)
  /\ NoGap

NoRepeat(s) == \A i \in 2 .. Len(sent[s]) : sent[s][i] # sent[s][i - 1]

\* The replay repeats nothing, and the message a listed subscriber is still to be
\* told of may be its first repetition, but no other.
RepeatInv ==
  /\ AtMostOneRepeat
  /\ \A s \in Subs : catchUp[s] # "done" => NoRepeat(s)
  /\ \A i \in 1 .. Len(list) :
       sent[list[i]] # <<>> /\ LastSent(list[i]) > PublishedTo(i) => NoRepeat(list[i])

\* How many of the messages received from its channel a client has got.
DeliveryInv ==
  \A s \in Subs :
    /\ stream[s] = "none" => start[s] = NotSubscribed
    /\ stream[s] \in {"none", "recv"} => taken[s] = got[s]
    /\ stream[s] = "send" => taken[s] = got[s] + 1

-----------------------------------------------------------------------------
\* No two messages are stamped with the same millisecond.
StrictClock == 0 \notin Ticks

\* What TypeOK says of the single elements, as the leaves below need it.
LEMMA Shapes ==
  ASSUME TypeOK
  PROVE  /\ log \in Seq(Nat \ {0}) /\ Len(log) \in Nat
         /\ \A m \in 1 .. Len(log) : log[m] \in Nat \ {0}
         /\ list \in Seq(Subs) /\ Len(list) \in Nat
         /\ since \in Seq(Nat)
         /\ \A i \in 1 .. Len(list) : list[i] \in Subs
         /\ idx \in Nat \ {0}
         /\ \A s \in Subs :
              /\ sent[s] \in Seq(1 .. Len(log)) /\ Len(sent[s]) \in Nat
              /\ \A i \in 1 .. Len(sent[s]) : sent[s][i] \in 1 .. Len(log)
              /\ sent[s] # <<>> => Len(sent[s]) \in 1 .. Len(sent[s])
                                   /\ LastSent(s) \in 1 .. Len(log)
              /\ start[s] \in Int /\ lastAt[s] \in Nat
              /\ snap[s] \subseteq 1 .. Len(log)
<1>1. /\ log \in Seq(Nat \ {0}) /\ Len(log) \in Nat
      /\ \A m \in 1 .. Len(log) : log[m] \in Nat \ {0}
      /\ list \in Seq(Subs) /\ Len(list) \in Nat
      /\ since \in Seq(Nat)
      /\ \A i \in 1 .. Len(list) : list[i] \in Subs
      /\ idx \in Nat \ {0}
  BY DEF TypeOK
<1>2. ASSUME NEW s \in Subs
      PROVE  /\ sent[s] \in Seq(1 .. Len(log)) /\ Len(sent[s]) \in Nat
             /\ \A i \in 1 .. Len(sent[s]) : sent[s][i] \in 1 .. Len(log)
             /\ sent[s] # <<>> => Len(sent[s]) \in 1 .. Len(sent[s])
                                  /\ LastSent(s) \in 1 .. Len(log)
             /\ start[s] \in Int /\ lastAt[s] \in Nat
             /\ snap[s] \subseteq 1 .. Len(log)
  <2>1. sent[s] \in Seq(1 .. Len(log))
    BY DEF TypeOK
  <2>2. start[s] \in Int /\ lastAt[s] \in Nat /\ snap[s] \subseteq 1 .. Len(log)
    <3>1. start[s] \in StartAts \cup {-1}
      BY DEF TypeOK, NotSubscribed
    <3>2. start[s] \in Int
      <4>1. CASE start[s] \in StartAts
        <5>1. start[s] \in Nat
          BY <4>1, ConstantsAssumption, Zenon
        <5>2. QED
          BY <5>1
      <4>2. CASE start[s] = -1
        BY <4>2
      <4>3. QED
        BY <3>1, <4>1, <4>2
    <3>3. QED
      BY <3>2 DEF TypeOK
  <2>3. /\ Len(sent[s]) \in Nat
        /\ \A i \in 1 .. Len(sent[s]) : sent[s][i] \in 1 .. Len(log)
    BY <2>1, LenProperties, ElementOfSeq
  <2>4. sent[s] # <<>> => Len(sent[s]) \in 1 .. Len(sent[s])
    BY <2>1, EmptySeq
  <2>5. QED
    BY <2>1, <2>2, <2>3, <2>4 DEF LastSent
<1>3. QED
  BY <1>1, <1>2

\* What is older than a message that is behind a subscription is behind it too.
LEMMA BehindIsDownward ==
  ASSUME TypeOK, LogIncreasing, NEW s \in Subs,
         NEW n \in 1 .. Len(log), NEW m \in 1 .. n, Behind(s, n)
  PROVE  Behind(s, m)
<1>1. /\ m \in 1 .. Len(log) /\ m \in Int /\ n \in Int /\ m <= n
      /\ log[m] \in Int /\ log[n] \in Int /\ start[s] \in Int
  BY Shapes
<1>2. log[m] <= log[n]
  BY <1>1 DEF LogIncreasing
<1>3. CASE sent[s] = <<>>
  BY <1>1, <1>2, <1>3 DEF Behind
<1>4. CASE sent[s] # <<>>
  <2>1. LastSent(s) \in Int /\ n <= LastSent(s)
    BY <1>4, Shapes DEF Behind
  <2>2. QED
    BY <1>1, <1>4, <2>1 DEF Behind
<1>5. QED
  BY <1>3, <1>4

\* A step that neither sends to s nor changes what is stored keeps what s has.
LEMMA UntouchedStream ==
  ASSUME TypeOK, NEW s \in Subs, sent'[s] = sent[s], start'[s] = start[s],
         Len(log) <= Len(log)', \A m \in 1 .. Len(log) : log'[m] = log[m]
  PROVE  /\ GapFree(s) => GapFree(s)'
         /\ \A m \in 1 .. Len(log) : Behind(s, m)' <=> Behind(s, m)
         /\ LastSent(s)' = LastSent(s)
         /\ sent[s] # <<>> => log'[LastSent(s)] = log[LastSent(s)]
<1>1. LastSent(s)' = LastSent(s)
  BY DEF LastSent
<1>2. \A m \in 1 .. Len(log) : Behind(s, m)' <=> Behind(s, m)
  BY <1>1 DEF Behind
<1>3. ASSUME GapFree(s) PROVE GapFree(s)'
  <2>1. SUFFICES ASSUME NEW i \in 1 .. Len(sent[s])
                 PROVE  IF i = 1
                        THEN \A m \in 1 .. sent[s][1] - 1 : log'[m] < start[s]
                        ELSE sent[s][i] - sent[s][i - 1] \in {0, 1}
    BY DEF GapFree
  <2>2. CASE i = 1
    <3>1. sent[s][1] \in 1 .. Len(log)
      BY <2>2, Shapes
    <3>2. \A m \in 1 .. sent[s][1] - 1 : log[m] < start[s]
      BY <1>3, <2>2 DEF GapFree
    <3>3. Len(log) \in Nat
      BY Shapes
    <3>4. \A m \in 1 .. sent[s][1] - 1 : m \in 1 .. Len(log)
      BY <3>1, <3>3
    <3>5. QED
      BY <2>2, <3>2, <3>4
  <2>3. CASE i # 1
    BY <1>3, <2>3 DEF GapFree
  <2>4. QED
    BY <2>2, <2>3
<1>4. QED
  BY <1>1, <1>2, <1>3, Shapes

\* Sending message n to s leaves no gap if all before n is behind s.
LEMMA SendKeepsGapFree ==
  ASSUME TypeOK, NEW s \in Subs, NEW n \in 1 .. Len(log),
         ~Full(s), Enqueue(s, n), UNCHANGED <<log, start, taken, got>>,
         GapFree(s),
         \A m \in 1 .. n - 1 : Behind(s, m),
         sent[s] # <<>> => LastSent(s) <= n
  PROVE  /\ GapFree(s)'
         /\ sent'[s] # <<>> /\ LastSent(s)' = n
         /\ \A m \in 1 .. Len(log) : Behind(s, m)' <=> m <= n
         /\ \A t \in Subs \ {s} : sent'[t] = sent[t]
<1>1. /\ Len(sent'[s]) = Len(sent[s]) + 1
      /\ sent'[s][Len(sent[s]) + 1] = n
      /\ \A i \in 1 .. Len(sent[s]) : sent'[s][i] = sent[s][i]
      /\ \A t \in Subs \ {s} : sent'[t] = sent[t]
  BY EnqueueProperties
<1>2. Len(sent[s]) \in Nat
  BY Shapes
<1>3. sent'[s] # <<>> /\ LastSent(s)' = n
  BY <1>1, <1>2 DEF LastSent
<1>4. \A m \in 1 .. Len(log) : Behind(s, m)' <=> m <= n
  BY <1>3 DEF Behind
<1>5. ASSUME NEW i \in 1 .. Len(sent'[s])
      PROVE  IF i = 1
             THEN \A m \in 1 .. sent'[s][1] - 1 : log'[m] < start'[s]
             ELSE sent'[s][i] - sent'[s][i - 1] \in {0, 1}
  <2>1. CASE i <= Len(sent[s])
    <3>1. i \in 1 .. Len(sent[s]) /\ 1 \in 1 .. Len(sent[s])
      BY <1>2, <2>1
    <3>2. sent'[s][i] = sent[s][i] /\ sent'[s][1] = sent[s][1]
      BY <1>1, <3>1
    <3>3. i # 1 => i - 1 \in 1 .. Len(sent[s]) /\ sent'[s][i - 1] = sent[s][i - 1]
      BY <1>1, <1>2, <3>1
    <3>4. QED
      BY <3>1, <3>2, <3>3 DEF GapFree
  <2>2. CASE i = Len(sent[s]) + 1 /\ sent[s] = <<>>
    <3>1. i = 1 /\ sent'[s][1] = n
      BY <1>1, <2>2
    <3>2. \A m \in 1 .. n - 1 : log[m] < start[s]
      BY <2>2 DEF Behind
    <3>3. QED
      BY <3>1, <3>2
  <2>3. CASE i = Len(sent[s]) + 1 /\ sent[s] # <<>>
    <3>1. i # 1 /\ i - 1 = Len(sent[s]) /\ i - 1 \in 1 .. Len(sent[s])
      BY <1>2, <2>3, Shapes
    <3>2. sent'[s][i] = n /\ sent'[s][i - 1] = LastSent(s)
      BY <1>1, <2>3, <3>1 DEF LastSent
    <3>3. LastSent(s) \in 1 .. n
      BY <2>3, Shapes
    <3>4. n - 1 <= LastSent(s)
      <4>1. CASE n = 1
        BY <3>3, <4>1
      <4>2. CASE n # 1
        BY <2>3, <4>2 DEF Behind
      <4>3. QED
        BY <4>1, <4>2
    <3>5. n - LastSent(s) \in {0, 1}
      BY <3>3, <3>4
    <3>6. QED
      BY <3>1, <3>2, <3>5
  <2>4. QED
    BY <1>1, <1>2, <2>1, <2>2, <2>3
<1>6. GapFree(s)'
  BY <1>5 DEF GapFree
<1>7. QED
  BY <1>1, <1>3, <1>4, <1>6

-------------------------------------------------------------------------------
(* StreamInv, action by action.                                                *)

\* The part of StreamInv above SafetyInv.
Streams ==
  /\ LogIncreasing
  /\ \A s \in Subs : BetweenRounds(s) /\ WithinRound(s) /\ GapFree(s)
  /\ \A i \in 1 .. Len(list) : InRealTime(i)

\* The log only grows.
LogGrows == Len(log) <= Len(log)' /\ \A m \in 1 .. Len(log) : log'[m] = log[m]

\* A subscription whose catch-up and channel a step leaves alone.
LEMMA UntouchedCatchUp ==
  ASSUME TypeOK, LogGrows, NEW s \in Subs, BetweenRounds(s), WithinRound(s),
         sent'[s] = sent[s], start'[s] = start[s], catchUp'[s] = catchUp[s],
         lastAt'[s] = lastAt[s], locked'[s] = locked[s], snap'[s] = snap[s],
         catchUp[s] \in {"replay", "blocked"} /\ locked[s] =>
           \A n \in 0 .. Len(log) :
             n = Len(log) \/ (n = Len(log) - 1 /\ pub = "lock")
               => n = Len(log') \/ (n = Len(log') - 1 /\ pub' = "lock")
  PROVE  BetweenRounds(s)' /\ WithinRound(s)'
<1>1. /\ \A m \in 1 .. Len(log) : Behind(s, m)' <=> Behind(s, m)
      /\ LastSent(s)' = LastSent(s)
      /\ sent[s] # <<>> => log'[LastSent(s)] = log[LastSent(s)]
  BY UntouchedStream DEF LogGrows
<1>2. Len(log) \in Nat /\ Len(log) <= Len(log')
  BY Shapes DEF LogGrows
<1>3. BetweenRounds(s)'
  BY <1>1 DEF BetweenRounds
<1>4. ASSUME catchUp[s] \in {"replay", "blocked"}
      PROVE  WithinRound(s)'
  <2>1. PICK n \in 0 .. Len(log) :
          /\ snap[s] = {m \in 1 .. n : ~Behind(s, m)}
          /\ locked[s] => n = Len(log) \/ (n = Len(log) - 1 /\ pub = "lock")
    BY <1>4 DEF WithinRound
  <2>2. 1 .. n \subseteq 1 .. Len(log)
    BY <1>2
  <2>3. {m \in 1 .. n : ~Behind(s, m)} = {m \in 1 .. n : ~Behind(s, m)'}
    BY <1>1, <2>2
  <2>4. \E k \in 0 .. Len(log') :
          /\ snap'[s] = {m \in 1 .. k : ~Behind(s, m)'}
          /\ locked'[s] => k = Len(log') \/ (k = Len(log') - 1 /\ pub' = "lock")
    <3>1. n \in 0 .. Len(log')
      BY <1>2, Len(log') \in Int DEF LogGrows
    <3>2. locked[s] => n = Len(log') \/ (n = Len(log') - 1 /\ pub' = "lock")
      BY <1>4, <2>1
    <3>3. QED
      BY <2>1, <2>3, <3>1, <3>2
  <2>5. /\ lastAt'[s] = 0 \/ (sent'[s] # <<>> /\ lastAt'[s] = log'[LastSent(s)'])
        /\ catchUp'[s] = "replay" /\ ~locked'[s] => lastAt'[s] # 0
    BY <1>1, <1>4 DEF WithinRound
  <2>6. QED
    BY <2>4, <2>5 DEF WithinRound
<1>5. CASE catchUp[s] \notin {"replay", "blocked"}
  <2>1. catchUp'[s] \notin {"replay", "blocked"}
    BY <1>5
  <2>2. QED
    BY <1>3, <2>1, Zenon DEF WithinRound
<1>6. QED
  BY <1>3, <1>4, <1>5

\* A listed subscriber that a step neither sends to nor publishes past.
LEMMA UntouchedListed ==
  ASSUME TypeOK, LogGrows, NEW i \in 1 .. Len(list), InRealTime(i),
         NEW s \in Subs, list[i] = s, sent'[s] = sent[s], start'[s] = start[s],
         NEW j \in 1 .. Len(list'), list'[j] = s, since'[j] = since[i],
         PublishedTo(j)' \in Int, PublishedTo(j)' <= PublishedTo(i)
  PROVE  InRealTime(j)'
<1>1. /\ \A m \in 1 .. Len(log) : Behind(s, m)' <=> Behind(s, m)
      /\ LastSent(s)' = LastSent(s)
  BY UntouchedStream DEF LogGrows
<1>2. PublishedTo(i) \in Int /\ PublishedTo(i) <= Len(log) /\ Len(log) \in Nat
  BY Shapes DEF PublishedTo
<1>3. ASSUME NEW m \in 1 .. PublishedTo(j)'
      PROVE  Behind(s, m)'
  <2>1. m \in 1 .. PublishedTo(i) /\ m \in 1 .. Len(log)
    BY <1>2
  <2>2. QED
    BY <1>1, <2>1 DEF InRealTime
<1>4. since'[j] = 1 \/ (sent'[s] # <<>> /\ \E m \in 1 .. LastSent(s)' : since'[j] = log'[m] + 1)
  <2>1. CASE since[i] = 1
    BY <2>1
  <2>2. CASE since[i] # 1
    <3>1. sent[s] # <<>>
      BY <2>2 DEF InRealTime
    <3>2. PICK m \in 1 .. LastSent(s) : since[i] = log[m] + 1
      BY <2>2 DEF InRealTime
    <3>3. m \in 1 .. Len(log)
      <4>1. LastSent(s) \in 1 .. Len(log) /\ Len(log) \in Nat
        BY <3>1, Shapes
      <4>2. QED
        BY <3>2, <4>1
    <3>4. log'[m] = log[m]
      BY <3>3 DEF LogGrows
    <3>5. QED
      BY <1>1, <3>1, <3>2, <3>4
  <2>3. QED
    BY <2>1, <2>2
<1>5. QED
  BY <1>3, <1>4 DEF InRealTime

\* PutRFMessage: a message that is stored but not published is ahead of every stream.
LEMMA StreamStepPut ==
  ASSUME StrictClock, SafetyInv, Streams, PutMessage
  PROVE  Streams'
<1>1. TypeOK /\ pub = "idle" /\ pub' = "lock" /\ Len(log) \in Nat
  BY Shapes DEF SafetyInv, PutMessage
<1>2. /\ Len(log') = Len(log) + 1
      /\ \A m \in 1 .. Len(log) : /\ log'[m] = log[m] /\ log'[m] \in Int
                                  /\ log'[m] < log'[Len(log) + 1]
  <2>1. Now \in Nat \ {0} /\ \A m \in 1 .. Len(log) : log[m] <= Now
    BY <1>1, Shapes DEF Now, Streams, LogIncreasing
  <2>2. PICK d \in Ticks : log' = Append(log, Now + d)
    BY DEF PutMessage
  <2>3. d \in Nat \ {0} /\ Now + d \in Nat \ {0}
    BY <2>1, ConstantsAssumption DEF StrictClock
  <2>4. /\ Len(log') = Len(log) + 1 /\ log'[Len(log) + 1] = Now + d
        /\ \A m \in 1 .. Len(log) : log'[m] = log[m]
    BY <1>1, <2>2, <2>3, Shapes, AppendProperties
  <2>5. QED
    BY <1>1, <2>1, <2>3, <2>4, Shapes
<1>3. LogIncreasing'
  <2>1. ASSUME NEW i \in 1 .. Len(log'), NEW j \in 1 .. Len(log'), i < j
        PROVE  log'[i] < log'[j]
    <3>1. i \in 1 .. Len(log)
      BY <1>1, <1>2, <2>1
    <3>2. CASE j = Len(log) + 1
      BY <1>2, <3>1, <3>2
    <3>3. CASE j # Len(log) + 1
      <4>1. j \in 1 .. Len(log)
        BY <1>1, <1>2, <3>3
      <4>2. QED
        BY <1>2, <2>1, <3>1, <4>1 DEF Streams, LogIncreasing
    <3>4. QED
      BY <3>2, <3>3
  <2>2. QED
    BY <2>1 DEF LogIncreasing
<1>4. LogGrows
  BY <1>1, <1>2 DEF LogGrows
<1>5. UNCHANGED <<list, since, catchUp, lastAt, locked, snap, start, sent>>
  BY DEF PutMessage, listVars, catchUpVars
<1>6. ASSUME NEW s \in Subs
      PROVE  BetweenRounds(s)' /\ WithinRound(s)' /\ GapFree(s)'
  <2>1. BetweenRounds(s) /\ WithinRound(s) /\ GapFree(s)
    BY DEF Streams
  <2>2. \A n \in 0 .. Len(log) :
          n = Len(log) \/ (n = Len(log) - 1 /\ pub = "lock")
            => n = Len(log') \/ (n = Len(log') - 1 /\ pub' = "lock")
    BY <1>1, <1>2
  <2>3. BetweenRounds(s)' /\ WithinRound(s)'
    BY <1>1, <1>4, <1>5, <2>1, <2>2, UntouchedCatchUp
  <2>4. GapFree(s)'
    BY <1>1, <1>4, <1>5, <2>1, UntouchedStream DEF LogGrows
  <2>5. QED
    BY <2>3, <2>4
<1>7. ASSUME NEW i \in 1 .. Len(list)
      PROVE  InRealTime(i)'
  <2>1. PublishedTo(i) = Len(log) /\ PublishedTo(i)' = Len(log)
    BY <1>1, <1>2 DEF PublishedTo
  <2>2. list[i] \in Subs
    BY <1>1, Shapes
  <2>3. i \in 1 .. Len(list') /\ InRealTime(i)
    BY <1>5 DEF Streams
  <2>4. QED
    BY <1>1, <1>4, <1>5, <2>1, <2>2, <2>3, UntouchedListed
<1>8. QED
  BY <1>3, <1>5, <1>6, <1>7 DEF Streams

\* Taking and giving back the mutex: no catch-up holds it then.
LEMMA StreamStepPublishMutex ==
  ASSUME SafetyInv, Streams, PublishLock \/ PublishUnlock
  PROVE  Streams'
<1>1. TypeOK /\ LogGrows /\ Len(log) \in Nat
  BY Shapes DEF SafetyInv, LogGrows, PublishLock, PublishUnlock
<1>2. UNCHANGED <<log, list, since, catchUp, lastAt, locked, snap, start, sent>>
  BY DEF PublishLock, PublishUnlock, listVars, catchUpVars
<1>3. LogIncreasing'
  BY <1>2 DEF Streams, LogIncreasing
<1>4. ASSUME NEW s \in Subs
      PROVE  BetweenRounds(s)' /\ WithinRound(s)' /\ GapFree(s)'
  <2>1. BetweenRounds(s) /\ WithinRound(s) /\ GapFree(s)
    BY DEF Streams
  <2>2. mutex # s
    BY ConstantsAssumption DEF SafetyInv, MutexMatchesFlags, PublishLock, PublishUnlock
  <2>3. ~(catchUp[s] \in {"replay", "blocked"} /\ locked[s])
    BY <2>2 DEF SafetyInv, MutexMatchesFlags
  <2>4. BetweenRounds(s)' /\ WithinRound(s)'
    BY <1>1, <1>2, <2>1, <2>3, UntouchedCatchUp
  <2>5. GapFree(s)'
    BY <1>1, <1>2, <2>1, UntouchedStream DEF LogGrows
  <2>6. QED
    BY <2>4, <2>5
<1>5. ASSUME NEW i \in 1 .. Len(list)
      PROVE  InRealTime(i)'
  <2>1. list[i] \in Subs /\ i \in 1 .. Len(list') /\ InRealTime(i)
    BY <1>1, <1>2, Shapes DEF Streams
  <2>2. PublishedTo(i)' = PublishedTo(i)
    <3>1. CASE PublishLock
      BY <1>2, <3>1 DEF PublishedTo, PublishLock
    <3>2. CASE PublishUnlock
      <4>1. idx > i
        BY <1>1, <3>2, Shapes DEF PublishUnlock
      <4>2. QED
        BY <1>2, <3>2, <4>1 DEF PublishedTo, PublishUnlock
    <3>3. QED
      BY <3>1, <3>2
  <2>3. PublishedTo(i)' \in Int /\ PublishedTo(i)' <= PublishedTo(i)
    BY <1>1, <2>2 DEF PublishedTo
  <2>4. QED
    BY <1>1, <1>2, <2>1, <2>3, UntouchedListed
<1>6. QED
  BY <1>2, <1>3, <1>4, <1>5 DEF Streams

\* One round of RFPublish's loop: the message goes to list[idx], or that
\* subscriber has it from its replay.
LEMMA StreamStepPublishSend ==
  ASSUME SafetyInv, Streams, PublishSend
  PROVE  Streams'
<1> DEFINE n == Len(log)
<1>1. /\ TypeOK /\ LogGrows /\ pub = "send" /\ idx' = idx + 1
      /\ log # <<>> /\ n \in Nat /\ n \in 1 .. Len(log)
      /\ idx \in 1 .. Len(list)
  <2>1. TypeOK /\ log # <<>> /\ pub = "send" /\ idx' = idx + 1 /\ idx <= Len(list)
        /\ UNCHANGED log
    BY DEF SafetyInv, PublishSend
  <2>2. QED
    BY <2>1, Shapes DEF LogGrows
<1>2. UNCHANGED <<log, pub, list, since, catchUp, lastAt, locked, snap, start, taken, got>>
  BY DEF PublishSend, listVars, catchUpVars, streamVars
<1>3. LogIncreasing'
  BY <1>2 DEF Streams, LogIncreasing
<1>4. PICK r \in Subs : r = list[idx]
  BY <1>1, Shapes
<1>5. /\ InRealTime(idx) /\ GapFree(r) /\ catchUp[r] = "done"
      /\ PublishedTo(idx) = n - 1
  BY <1>1, <1>4 DEF Streams, SafetyInv, SubscriptionInv, Listed, PublishedTo
<1>6. /\ \A m \in 1 .. n - 1 : Behind(r, m)
      /\ \/ since[idx] = 1
         \/ sent[r] # <<>> /\ \E m \in 1 .. LastSent(r) : since[idx] = log[m] + 1
  BY <1>4, <1>5 DEF InRealTime
<1>7. \A t \in Subs \ {r} : sent'[t] = sent[t]
  BY <1>1, <1>4 DEF PublishSend, Enqueue, TypeOK
<1>8. /\ GapFree(r)' /\ \A m \in 1 .. n : Behind(r, m)'
      /\ \/ since'[idx] = 1
         \/ sent'[r] # <<>> /\ \E m \in 1 .. LastSent(r)' : since'[idx] = log'[m] + 1
  <2>1. CASE Wanted(idx)
    <3>1. ~Full(r) /\ Enqueue(r, n)
      BY <1>4, <2>1 DEF PublishSend
    <3>2. sent[r] # <<>> => LastSent(r) \in 1 .. n
      BY <1>1, Shapes
    <3>3. /\ GapFree(r)' /\ sent'[r] # <<>> /\ LastSent(r)' = n
          /\ \A m \in 1 .. Len(log) : Behind(r, m)' <=> m <= n
      BY <1>1, <1>2, <1>5, <1>6, <3>1, <3>2, SendKeepsGapFree
    <3>4. since[idx] = 1 \/ \E m \in 1 .. n : since[idx] = log[m] + 1
      <4>1. CASE since[idx] # 1
        <5>1. PICK m \in 1 .. LastSent(r) : since[idx] = log[m] + 1
          BY <1>6, <4>1
        <5>2. m \in 1 .. n
          BY <1>1, <1>6, <3>2, <4>1, <5>1
        <5>3. QED
          BY <5>1, <5>2
      <4>2. QED
        BY <4>1
    <3>5. QED
      BY <1>1, <1>2, <3>3, <3>4
  <2>2. CASE ~Wanted(idx)
    <3>1. UNCHANGED sent /\ log[n] < since[idx]
      <4>1. since[idx] \in Nat
        BY <1>1, Shapes DEF SafetyInv, ListsParallel
      <4>2. log[n] \in Nat
        BY <1>1, Shapes
      <4>3. QED
        BY <2>2, <4>1, <4>2 DEF PublishSend, Wanted
    <3>2. /\ GapFree(r)'
          /\ \A m \in 1 .. Len(log) : Behind(r, m)' <=> Behind(r, m)
          /\ LastSent(r)' = LastSent(r)
      BY <1>1, <1>2, <1>5, <3>1, UntouchedStream DEF LogGrows
    <3>3. sent[r] # <<>> /\ n <= LastSent(r)
      <4>1. log[n] \in Nat \ {0}
        BY <1>1, Shapes
      <4>2. sent[r] # <<>> /\ \E m \in 1 .. LastSent(r) : since[idx] = log[m] + 1
        BY <1>6, <3>1, <4>1
      <4>3. PICK m \in 1 .. LastSent(r) : since[idx] = log[m] + 1
        BY <4>2
      <4>4. LastSent(r) \in 1 .. Len(log) /\ m \in 1 .. Len(log)
        <5>1. LastSent(r) \in 1 .. Len(log) /\ Len(log) \in Nat
          BY <1>1, <4>2, Shapes
        <5>2. QED
          BY <4>3, <5>1
      <4>5. log[m] \in Nat
        BY <1>1, <4>4, Shapes
      <4>6. log[n] < log[m] + 1
        BY <3>1, <4>3
      <4>7. ~(log[m] < log[n])
        BY <4>1, <4>5, <4>6
      <4>8. ~(m < n)
        BY <1>1, <4>4, <4>7 DEF Streams, LogIncreasing
      <4>9. QED
        BY <1>1, <4>2, <4>4, <4>8
    <3>4. \A m \in 1 .. n : Behind(r, m)
      <4>1. LastSent(r) \in Int
        BY <1>1, <3>3, Shapes
      <4>2. QED
        BY <1>1, <3>3, <4>1 DEF Behind
    <3>5. QED
      BY <1>1, <1>2, <1>6, <3>1, <3>2, <3>4
  <2>3. QED
    BY <2>1, <2>2
<1>9. ASSUME NEW s \in Subs
      PROVE  BetweenRounds(s)' /\ WithinRound(s)' /\ GapFree(s)'
  <2>1. CASE s = r
    <3>1. BetweenRounds(s)'
      BY <1>2, <1>5, <2>1 DEF BetweenRounds
    <3>2. catchUp'[s] \notin {"replay", "blocked"}
      BY <1>2, <1>5, <2>1
    <3>3. WithinRound(s)'
      BY <3>2, Zenon DEF WithinRound
    <3>4. QED
      BY <1>8, <2>1, <3>1, <3>3
  <2>2. CASE s # r
    <3>1. BetweenRounds(s) /\ WithinRound(s) /\ GapFree(s) /\ sent'[s] = sent[s]
      BY <1>7, <2>2 DEF Streams
    <3>2. mutex = Publisher
      BY <1>1 DEF SafetyInv, MutexMatchesFlags
    <3>3. ~(catchUp[s] \in {"replay", "blocked"} /\ locked[s])
      BY <3>2, ConstantsAssumption DEF SafetyInv, MutexMatchesFlags
    <3>4. BetweenRounds(s)' /\ WithinRound(s)'
      BY <1>1, <1>2, <3>1, <3>3, UntouchedCatchUp
    <3>5. GapFree(s)'
      BY <1>1, <1>2, <3>1, UntouchedStream DEF LogGrows
    <3>6. QED
      BY <3>4, <3>5
  <2>3. QED
    BY <2>1, <2>2
<1>10. ASSUME NEW i \in 1 .. Len(list)
       PROVE  InRealTime(i)'
  <2>1. CASE i = idx
    <3>1. PublishedTo(i)' = n
      BY <1>1, <1>2, <2>1, Shapes DEF PublishedTo
    <3>2. list'[i] = r
      BY <1>2, <1>4, <2>1
    <3>3. QED
      BY <1>8, <2>1, <3>1, <3>2 DEF InRealTime
  <2>2. CASE i # idx
    <3>1. list[i] \in Subs /\ list[i] # r /\ i \in 1 .. Len(list') /\ InRealTime(i)
      BY <1>1, <1>2, <1>4, <2>2, Shapes DEF Streams, SafetyInv, ListsParallel
    <3>2. idx' > i <=> idx > i
      BY <1>1, <2>2
    <3>3. PublishedTo(i)' \in Int /\ PublishedTo(i)' <= PublishedTo(i)
      BY <1>1, <1>2, <3>2 DEF PublishedTo
    <3>4. QED
      BY <1>1, <1>2, <1>7, <3>1, <3>3, UntouchedListed
  <2>3. QED
    BY <2>1, <2>2
<1>11. QED
  BY <1>2, <1>3, <1>9, <1>10 DEF Streams

\* Steps that concern one subscription s and leave the log, the publisher and
\* the streams of the others alone: what is left to show is about s.
LEMMA StreamStepOfOne ==
  ASSUME SafetyInv, Streams, NEW s \in Subs,
         UNCHANGED <<log, pub>>, pub = "send" => idx' = idx /\ UNCHANGED <<list, since>>,
         \A t \in Subs \ {s} :
           /\ sent'[t] = sent[t] /\ start'[t] = start[t] /\ catchUp'[t] = catchUp[t]
           /\ lastAt'[t] = lastAt[t] /\ locked'[t] = locked[t] /\ snap'[t] = snap[t],
         BetweenRounds(s)' /\ WithinRound(s)' /\ GapFree(s)',
         \A j \in 1 .. Len(list') :
           \/ list'[j] = s /\ InRealTime(j)'
           \/ /\ list'[j] # s
              /\ \E i \in 1 .. Len(list) :
                   /\ list'[j] = list[i] /\ since'[j] = since[i]
                   /\ pub = "send" => i = j
  PROVE  Streams'
<1>1. TypeOK /\ LogGrows /\ Len(log) \in Nat
  BY Shapes DEF SafetyInv, LogGrows
<1>2. LogIncreasing'
  BY DEF Streams, LogIncreasing
<1>3. ASSUME NEW t \in Subs
      PROVE  BetweenRounds(t)' /\ WithinRound(t)' /\ GapFree(t)'
  <2>1. CASE t # s
    <3>1. BetweenRounds(t) /\ WithinRound(t) /\ GapFree(t)
      BY DEF Streams
    <3>2. BetweenRounds(t)' /\ WithinRound(t)'
      BY <1>1, <2>1, <3>1, UntouchedCatchUp
    <3>3. GapFree(t)'
      BY <1>1, <2>1, <3>1, UntouchedStream DEF LogGrows
    <3>4. QED
      BY <3>2, <3>3
  <2>2. QED
    BY <2>1
<1>4. ASSUME NEW j \in 1 .. Len(list'), list'[j] # s
      PROVE  InRealTime(j)'
  <2>1. PICK i \in 1 .. Len(list) : /\ list'[j] = list[i] /\ since'[j] = since[i]
                                    /\ pub = "send" => i = j
    BY <1>4
  <2>2. list[i] \in Subs \ {s} /\ InRealTime(i)
    BY <1>1, <1>4, <2>1, Shapes DEF Streams
  <2>3. PublishedTo(j)' = PublishedTo(i)
    BY <2>1 DEF PublishedTo
  <2>4. PublishedTo(j)' \in Int /\ PublishedTo(j)' <= PublishedTo(i)
    BY <1>1, <2>3 DEF PublishedTo
  <2>5. QED
    BY <1>1, <2>1, <2>2, <2>4, UntouchedListed
<1>5. QED
  BY <1>2, <1>3, <1>4 DEF Streams

\* A new request: nothing was sent yet, so its start time is where to resume.
LEMMA StreamStepSubscribe ==
  ASSUME SafetyInv, Streams, NEW s \in Subs, Subscribe(s)
  PROVE  Streams'
<1>1. /\ UNCHANGED <<log, pub, idx, list, since, sent>>
      /\ \A t \in Subs \ {s} :
           /\ start'[t] = start[t] /\ catchUp'[t] = catchUp[t]
           /\ lastAt'[t] = lastAt[t] /\ locked'[t] = locked[t] /\ snap'[t] = snap[t]
  BY DEF SafetyInv, TypeOK, Subscribe, listVars
<1>2. /\ catchUp'[s] = "lock" /\ lastAt'[s] = start'[s] /\ sent[s] = <<>> /\ ~Listed(s)
  BY DEF SafetyInv, TypeOK, SubscriptionInv, Subscribe
<1>3. BetweenRounds(s)' /\ GapFree(s)'
  BY <1>1, <1>2 DEF BetweenRounds, GapFree
<1>4. WithinRound(s)'
  <2>1. catchUp'[s] \notin {"replay", "blocked"}
    BY <1>2
  <2>2. QED
    BY <2>1, Zenon DEF WithinRound
<1>5. \A j \in 1 .. Len(list) : list[j] # s
  BY <1>2 DEF Listed
<1>6. QED
  BY <1>1, <1>3, <1>4, <1>5, StreamStepOfOne

\* Replayed messages are exactly those not behind s.
LEMMA StreamStepCatchUpLock ==
  ASSUME SafetyInv, Streams, NEW s \in Subs, CatchUpLock(s)
  PROVE  Streams'
<1>1. /\ UNCHANGED <<log, pub, idx, list, since, sent, start>>
      /\ \A t \in Subs \ {s} :
           /\ catchUp'[t] = catchUp[t] /\ lastAt'[t] = lastAt[t]
           /\ locked'[t] = locked[t] /\ snap'[t] = snap[t]
  BY DEF SafetyInv, TypeOK, CatchUpLock, listVars, streamVars
<1>2. /\ TypeOK /\ catchUp[s] = "lock" /\ catchUp'[s] = "replay"
      /\ snap'[s] = Replay(lastAt[s]) /\ lastAt'[s] = 0 /\ locked'[s] = TRUE
  BY DEF SafetyInv, TypeOK, CatchUpLock
<1>3. ~Listed(s)
  BY <1>2 DEF SafetyInv, SubscriptionInv
<1>4. GapFree(s)' /\ \A m \in 1 .. Len(log) : Behind(s, m)' <=> Behind(s, m)
  BY <1>1, <1>2 DEF Streams, GapFree, Behind, LastSent
<1>5. BetweenRounds(s)'
  BY <1>2 DEF BetweenRounds
<1>6. snap'[s] = {m \in 1 .. Len(log) : ~Behind(s, m)}
  <2>1. ASSUME NEW m \in 1 .. Len(log)
        PROVE  /\ \A k \in m + 1 .. Len(log) : log[k] # log[m]
               /\ log[m] >= lastAt[s] <=> ~Behind(s, m)
    <3>1. Len(log) \in Nat /\ \A k \in 1 .. Len(log) : log[k] \in Nat
      BY <1>2, Shapes
    <3>2. ASSUME NEW k \in m + 1 .. Len(log) PROVE log[k] # log[m]
      <4>1. k \in 1 .. Len(log) /\ m < k
        BY <3>1
      <4>2. log[m] < log[k]
        BY <4>1 DEF Streams, LogIncreasing
      <4>3. QED
        BY <3>1, <4>1, <4>2
    <3>3. CASE sent[s] = <<>>
      <4>1. lastAt[s] = start[s] /\ start[s] \in Int
        BY <1>2, <3>3, Shapes DEF Streams, BetweenRounds
      <4>2. QED
        BY <3>1, <3>2, <3>3, <4>1 DEF Behind
    <3>4. CASE sent[s] # <<>>
      <4>1. lastAt[s] = log[LastSent(s)] + 1 /\ LastSent(s) \in 1 .. Len(log)
        BY <1>2, <3>4, Shapes DEF Streams, BetweenRounds
      <4>2. /\ m < LastSent(s) => log[m] < log[LastSent(s)]
            /\ LastSent(s) < m => log[LastSent(s)] < log[m]
        BY <4>1 DEF Streams, LogIncreasing
      <4>3. log[m] >= lastAt[s] <=> LastSent(s) < m
        BY <3>1, <4>1, <4>2
      <4>4. QED
        BY <3>1, <3>2, <3>4, <4>1, <4>3 DEF Behind
    <3>5. QED
      BY <3>3, <3>4
  <2>2. QED
    BY <1>2, <2>1 DEF Replay
<1>7. WithinRound(s)'
  <2>1. {m \in 1 .. Len(log) : ~Behind(s, m)} = {m \in 1 .. Len(log) : ~Behind(s, m)'}
    BY <1>4
  <2>2. Len(log) \in 0 .. Len(log') /\ Len(log) = Len(log')
    BY <1>1, <1>2, Shapes
  <2>3. QED
    BY <1>2, <1>6, <2>1, <2>2 DEF WithinRound
<1>8. \A j \in 1 .. Len(list) : list[j] # s
  BY <1>3 DEF Listed
<1>9. QED
  BY <1>1, <1>4, <1>5, <1>7, <1>8, StreamStepOfOne

\* The iterator's next message is the first that is not behind s.
LEMMA StreamStepCatchUpSend ==
  ASSUME SafetyInv, Streams, NEW s \in Subs, CatchUpSend(s)
  PROVE  Streams'
<1>1. TypeOK /\ Len(log) \in Nat /\ ~Listed(s) /\ catchUp[s] \in {"replay", "blocked"}
  BY Shapes DEF SafetyInv, SubscriptionInv, CatchUpSend
<1>2. PICK n \in snap[s] : NextReplayed(s, n) /\ ReplayOne(s, n)
  BY DEF CatchUpSend
<1>3. /\ UNCHANGED <<log, pub, idx, list, since, start, locked, taken, got>>
      /\ ~Full(s) /\ Enqueue(s, n)
      /\ \A t \in Subs \ {s} :
           catchUp'[t] = catchUp[t] /\ lastAt'[t] = lastAt[t] /\ snap'[t] = snap[t]
  BY <1>1, <1>2 DEF TypeOK, ReplayOne, listVars, streamVars
<1>4. /\ catchUp'[s] = "replay" /\ lastAt'[s] = log[n] /\ snap'[s] = snap[s] \ {n}
  BY <1>1, <1>2 DEF TypeOK, ReplayOne
<1>5. PICK e \in 0 .. Len(log) :
        /\ snap[s] = {m \in 1 .. e : ~Behind(s, m)}
        /\ locked[s] => e = Len(log) \/ (e = Len(log) - 1 /\ pub = "lock")
  BY <1>1 DEF Streams, WithinRound
<1>6. n \in 1 .. e /\ n \in 1 .. Len(log) /\ ~Behind(s, n) /\ log[n] \in Nat \ {0}
  BY <1>1, <1>2, <1>5, Shapes
<1>7. ASSUME NEW m \in 1 .. n - 1
      PROVE  Behind(s, m)
  <2>1. m \in 1 .. e /\ m < n
    BY <1>6
  <2>2. m \notin snap[s]
    BY <1>2, <1>6, <2>1 DEF NextReplayed
  <2>3. QED
    BY <1>5, <2>1, <2>2
<1>8. sent[s] # <<>> => LastSent(s) <= n
  BY <1>1, <1>6, Shapes DEF Behind
<1>9. GapFree(s)
  BY DEF Streams
<1>10. /\ GapFree(s)' /\ sent'[s] # <<>> /\ LastSent(s)' = n
       /\ \A m \in 1 .. Len(log) : Behind(s, m)' <=> m <= n
       /\ \A t \in Subs \ {s} : sent'[t] = sent[t]
  BY <1>1, <1>3, <1>6, <1>7, <1>8, <1>9, SendKeepsGapFree
<1>11. snap'[s] = {m \in 1 .. e : ~Behind(s, m)'}
  <2>1. ASSUME NEW m \in 1 .. e
        PROVE  m \in snap[s] \ {n} <=> ~Behind(s, m)'
    <3>1. m \in 1 .. Len(log) /\ (m < n => m \in 1 .. n - 1)
      BY <1>6
    <3>2. CASE m <= n
      BY <1>5, <1>6, <1>7, <1>10, <3>1, <3>2
    <3>3. CASE m > n
      <4>1. ~Behind(s, m)
        BY <1>1, <1>6, <3>1, <3>3, BehindIsDownward DEF Streams
      <4>2. QED
        BY <1>5, <1>6, <1>10, <3>1, <3>3, <4>1
    <3>4. QED
      BY <1>6, <3>2, <3>3
  <2>2. snap[s] \ {n} \subseteq 1 .. e
    BY <1>5
  <2>3. QED
    BY <1>4, <2>1, <2>2
<1>12. WithinRound(s)'
  <2>1. locked'[s] => e = Len(log') \/ (e = Len(log') - 1 /\ pub' = "lock")
    BY <1>3, <1>5
  <2>2. lastAt'[s] # 0 /\ lastAt'[s] = log'[LastSent(s)']
    BY <1>3, <1>4, <1>6, <1>10
  <2>3. e \in 0 .. Len(log')
    BY <1>3
  <2>4. QED
    BY <1>10, <1>11, <2>1, <2>2, <2>3 DEF WithinRound
<1>13. BetweenRounds(s)'
  BY <1>4 DEF BetweenRounds
<1>14. \A j \in 1 .. Len(list) : list[j] # s
  BY <1>1 DEF Listed
<1>15. QED
  BY <1>3, <1>10, <1>12, <1>13, <1>14, StreamStepOfOne

\* Giving up the mutex in the middle of a round, and going for another round.
LEMMA StreamStepCatchUpWait ==
  ASSUME SafetyInv, Streams, NEW s \in Subs, CatchUpBlock(s) \/ CatchUpAgain(s)
  PROVE  Streams'
<1>1. TypeOK /\ Len(log) \in Nat /\ ~Listed(s) /\ catchUp[s] = "replay"
  BY Shapes DEF SafetyInv, SubscriptionInv, CatchUpBlock, CatchUpAgain
<1>2. /\ UNCHANGED <<log, pub, idx, list, since, start, snap, sent>>
      /\ \A t \in Subs \ {s} :
           catchUp'[t] = catchUp[t] /\ lastAt'[t] = lastAt[t] /\ locked'[t] = locked[t]
  BY <1>1 DEF TypeOK, CatchUpBlock, CatchUpAgain, listVars, streamVars
<1>3. GapFree(s)'
  BY <1>2 DEF Streams, GapFree
<1>4. /\ \A m \in 1 .. Len(log) : Behind(s, m)' <=> Behind(s, m)
      /\ LastSent(s)' = LastSent(s)
  BY <1>2 DEF Behind, LastSent
<1>5. PICK e \in 0 .. Len(log) : snap[s] = {m \in 1 .. e : ~Behind(s, m)}
  BY <1>1 DEF Streams, WithinRound
<1>6. \A j \in 1 .. Len(list) : list[j] # s
  BY <1>1 DEF Listed
<1>7. CASE CatchUpBlock(s)
  <2>1. /\ catchUp'[s] = "blocked" /\ locked'[s] = FALSE /\ lastAt'[s] = lastAt[s]
    BY <1>1, <1>7 DEF TypeOK, CatchUpBlock
  <2>2. snap'[s] = {m \in 1 .. e : ~Behind(s, m)'}
    <3>1. 1 .. e \subseteq 1 .. Len(log)
      BY <1>1
    <3>2. QED
      BY <1>2, <1>4, <1>5, <3>1
  <2>3. lastAt'[s] = 0 \/ (sent'[s] # <<>> /\ lastAt'[s] = log'[LastSent(s)'])
    BY <1>1, <1>2, <1>4, <2>1 DEF Streams, WithinRound
  <2>4. e \in 0 .. Len(log')
    BY <1>2
  <2>5. WithinRound(s)' /\ BetweenRounds(s)'
    BY <2>1, <2>2, <2>3, <2>4 DEF WithinRound, BetweenRounds
  <2>6. QED
    BY <1>2, <1>3, <1>6, <2>5, StreamStepOfOne
<1>8. CASE CatchUpAgain(s)
  <2>1. /\ catchUp'[s] = "lock" /\ lastAt'[s] = lastAt[s] + 1 /\ ~locked[s]
    BY <1>1, <1>8 DEF TypeOK, CatchUpAgain, ResumeAt
  <2>2. sent[s] # <<>> /\ lastAt[s] = log[LastSent(s)]
    BY <1>1, <2>1 DEF Streams, WithinRound
  <2>3. BetweenRounds(s)'
    BY <1>2, <1>4, <2>1, <2>2 DEF BetweenRounds
  <2>4. catchUp'[s] \notin {"replay", "blocked"}
    BY <2>1
  <2>5. WithinRound(s)'
    BY <2>4, Zenon DEF WithinRound
  <2>6. locked'[s] = locked[s] /\ snap'[s] = snap[s]
    BY <1>8 DEF CatchUpAgain
  <2>7. QED
    BY <1>2, <1>3, <1>6, <2>3, <2>5, StreamStepOfOne
<1>9. QED
  BY <1>7, <1>8

\* The end of a round under the mutex: all that was published is behind s, and
\* at most one message is stored but still to be published.
LEMMA StreamStepCatchUpSwitch ==
  ASSUME SafetyInv, Streams, NEW s \in Subs, CatchUpSwitch(s)
  PROVE  Streams'
<1>1. /\ TypeOK /\ Len(log) \in Nat /\ list \in Seq(Subs) /\ since \in Seq(Nat)
      /\ Len(list) = Len(since) /\ Len(list) \in Nat
      /\ ~Listed(s) /\ catchUp[s] = "replay" /\ locked[s] /\ snap[s] = {}
  BY Shapes DEF SafetyInv, SubscriptionInv, ListsParallel, CatchUpSwitch
<1>0. PICK k \in Nat : k = Len(list) + 1
  BY <1>1
<1>2. mutex = s /\ pub # "send"
  BY <1>1, ConstantsAssumption DEF SafetyInv, MutexMatchesFlags
<1>3. /\ UNCHANGED <<log, pub, idx, start, snap, sent, lastAt, locked>>
      /\ catchUp'[s] = "done"
      /\ \A t \in Subs \ {s} : catchUp'[t] = catchUp[t]
  BY <1>1 DEF TypeOK, CatchUpSwitch, streamVars
<1>4. /\ Len(list') = k
      /\ list'[k] = s /\ since'[k] = lastAt[s] + 1
      /\ \A i \in 1 .. Len(list) : list'[i] = list[i] /\ since'[i] = since[i]
  <2>1. lastAt[s] + 1 \in Nat
    BY <1>1, Shapes
  <2>2. list' = Append(list, s) /\ since' = Append(since, lastAt[s] + 1)
    BY DEF CatchUpSwitch, ResumeAt
  <2>3. QED
    BY <1>0, <1>1, <2>1, <2>2, AppendProperties
<1>5. PICK e \in 0 .. Len(log) :
        /\ snap[s] = {m \in 1 .. e : ~Behind(s, m)}
        /\ e = Len(log) \/ (e = Len(log) - 1 /\ pub = "lock")
  BY <1>1 DEF Streams, WithinRound
<1>6. PublishedTo(k)' \in Int /\ PublishedTo(k)' <= e
  BY <1>1, <1>2, <1>3, <1>5 DEF PublishedTo, TypeOK
<1>7. /\ \A m \in 1 .. Len(log) : Behind(s, m)' <=> Behind(s, m)
      /\ LastSent(s)' = LastSent(s) /\ GapFree(s)'
  BY <1>3 DEF Behind, LastSent, GapFree, Streams
<1>8. InRealTime(k)'
  <2>1. ASSUME NEW m \in 1 .. PublishedTo(k)'
        PROVE  Behind(s, m)'
    <3>1. m \in 1 .. e /\ m \in 1 .. Len(log)
      BY <1>1, <1>6
    <3>2. Behind(s, m)
      BY <1>1, <1>5, <3>1
    <3>3. QED
      BY <1>7, <3>1, <3>2
  <2>2. \/ since'[k] = 1
        \/ sent'[s] # <<>> /\ \E m \in 1 .. LastSent(s)' :
                                since'[k] = log'[m] + 1
    <3>1. CASE lastAt[s] = 0
      BY <1>4, <3>1
    <3>2. CASE lastAt[s] # 0
      <4>1. sent[s] # <<>> /\ lastAt[s] = log[LastSent(s)]
        BY <1>1, <3>2 DEF Streams, WithinRound
      <4>2. LastSent(s) \in 1 .. LastSent(s)
        BY <1>1, <4>1, Shapes
      <4>3. QED
        BY <1>3, <1>4, <1>7, <4>1, <4>2
    <3>3. QED
      BY <3>1, <3>2
  <2>3. QED
    BY <1>4, <2>1, <2>2 DEF InRealTime
<1>9. BetweenRounds(s)' /\ WithinRound(s)'
  <2>1. catchUp'[s] \notin {"replay", "blocked"} /\ catchUp'[s] # "lock"
    BY <1>3
  <2>2. QED
    BY <2>1, Zenon DEF WithinRound, BetweenRounds
<1>10. ASSUME NEW j \in 1 .. Len(list')
       PROVE  \/ list'[j] = s /\ InRealTime(j)'
              \/ /\ list'[j] # s
                 /\ \E i \in 1 .. Len(list) : list'[j] = list[i] /\ since'[j] = since[i]
  <2>1. CASE j = k
    BY <1>4, <1>8, <2>1
  <2>2. CASE j # k
    <3>1. j \in 1 .. Len(list)
      BY <1>0, <1>1, <1>4, <2>2
    <3>2. QED
      BY <1>1, <1>4, <3>1 DEF Listed
  <2>3. QED
    BY <2>1, <2>2
<1>11. QED
  BY <1>2, <1>3, <1>7, <1>9, <1>10, StreamStepOfOne

\* Unsubscribing cuts one subscriber out of the list and keeps the order of the
\* others, while nobody is told of a message.
LEMMA StreamPlaces ==
  ASSUME SafetyInv, NEW s \in Subs, Stream(s), NEW j \in 1 .. Len(list')
  PROVE  \E i \in 1 .. Len(list) : /\ list'[j] = list[i] /\ since'[j] = since[i]
                                   /\ pub = "send" => i = j
<1>0. TypeOK /\ Len(list) \in Nat
  BY Shapes DEF SafetyInv
<1>1. CASE Unsubscribe(s) /\ Listed(s)
  <2>1. PICK k \in 1 .. Len(list) : list[k] = s
    BY <1>1 DEF Listed
  <2>2. /\ Len(list') = Len(list) - 1
        /\ \A l \in 1 .. Len(list) - 1 :
             /\ list'[l] = IF l < k THEN list[l] ELSE list[l + 1]
             /\ since'[l] = IF l < k THEN since[l] ELSE since[l + 1]
    BY <1>1, <2>1, CloseAndRemoveProperties DEF SafetyInv, Unsubscribe
  <2>3. pub # "send"
    BY <1>1, ConstantsAssumption DEF SafetyInv, MutexMatchesFlags, Unsubscribe
  <2>4. j \in 1 .. Len(list) /\ j + 1 \in 1 .. Len(list) /\ j \in 1 .. Len(list) - 1
    BY <1>0, <2>2, Shapes
  <2>5. QED
    BY <2>2, <2>3, <2>4
<1>2. CASE ~(Unsubscribe(s) /\ Listed(s))
  <2>1. UNCHANGED <<list, since>>
    BY <1>2 DEF Stream, Receive, SendOK, SendError, Unsubscribe, CloseAndRemove, Drain,
                DrainEnd, Listed, listVars
  <2>2. QED
    BY <2>1
<1>3. QED
  BY <1>1, <1>2

\* Receiving, delivering and draining read the channel only.
LEMMA StreamStepStream ==
  ASSUME SafetyInv, Streams, NEW s \in Subs, Stream(s)
  PROVE  Streams'
<1>1. TypeOK /\ LogGrows /\ Len(log) \in Nat
  BY Shapes DEF SafetyInv, LogGrows, Stream, Receive, SendOK, SendError, Unsubscribe,
     Drain, DrainEnd
<1>2. UNCHANGED <<log, pub, idx, catchUp, lastAt, locked, snap, start, sent>>
  BY DEF Stream, Receive, SendOK, SendError, Unsubscribe, Drain, DrainEnd, catchUpVars
<1>3. LogIncreasing'
  BY <1>2 DEF Streams, LogIncreasing
<1>4. ASSUME NEW t \in Subs
      PROVE  BetweenRounds(t)' /\ WithinRound(t)' /\ GapFree(t)'
  <2>1. BetweenRounds(t) /\ WithinRound(t) /\ GapFree(t)
    BY DEF Streams
  <2>2. BetweenRounds(t)' /\ WithinRound(t)'
    BY <1>1, <1>2, <2>1, UntouchedCatchUp
  <2>3. GapFree(t)'
    BY <1>1, <1>2, <2>1, UntouchedStream DEF LogGrows
  <2>4. QED
    BY <2>2, <2>3
<1>5. ASSUME NEW j \in 1 .. Len(list')
      PROVE  \E i \in 1 .. Len(list) : /\ list'[j] = list[i] /\ since'[j] = since[i]
                                       /\ pub = "send" => i = j
  BY StreamPlaces
<1>6. ASSUME NEW j \in 1 .. Len(list')
      PROVE  InRealTime(j)'
  <2>1. PICK i \in 1 .. Len(list) : /\ list'[j] = list[i] /\ since'[j] = since[i]
                                    /\ pub = "send" => i = j
    BY <1>5
  <2>2. list[i] \in Subs /\ InRealTime(i)
    BY <1>1, <2>1, Shapes DEF Streams
  <2>3. PublishedTo(j)' = PublishedTo(i)
    BY <1>2, <2>1 DEF PublishedTo
  <2>4. PublishedTo(j)' \in Int /\ PublishedTo(j)' <= PublishedTo(i)
    BY <1>1, <2>3 DEF PublishedTo
  <2>5. QED
    BY <1>1, <1>2, <2>1, <2>2, <2>4, UntouchedListed
<1>7. QED
  BY <1>3, <1>4, <1>6 DEF Streams

-------------------------------------------------------------------------------
(* How often a message is sent: RepeatInv, action by action.                   *)

\* One more message repeats at most itself, and only if it is the one sent last.
LEMMA SendRepeats ==
  ASSUME TypeOK, NEW s \in Subs, NEW n \in 1 .. Len(log),
         ~Full(s), Enqueue(s, n), UNCHANGED <<log, taken, got>>
  PROVE  /\ NoRepeat(s) => OneRepeat(s)'
         /\ sent[s] = <<>> \/ LastSent(s) # n =>
              (NoRepeat(s) => NoRepeat(s)') /\ (OneRepeat(s) => OneRepeat(s)')
<1>1. PICK k \in Nat : k = Len(sent[s])
  BY Shapes
<1>2. /\ Len(sent'[s]) = k + 1 /\ sent'[s][k + 1] = n
      /\ \A i \in 1 .. k : sent'[s][i] = sent[s][i]
  BY <1>1, EnqueueProperties
<1>3. ASSUME NEW i \in 2 .. Len(sent'[s]), sent'[s][i] = sent'[s][i - 1]
      PROVE  \/ i \in 2 .. k /\ sent[s][i] = sent[s][i - 1]
             \/ i = k + 1 /\ sent[s] # <<>> /\ LastSent(s) = n
  <2>1. i - 1 \in 1 .. k /\ sent'[s][i - 1] = sent[s][i - 1]
    BY <1>2
  <2>2. CASE i = k + 1
    <3>1. i - 1 = k
      BY <2>2
    <3>2. sent[s][k] = n /\ k # 0
      BY <1>1, <1>2, <1>3, <2>1, <2>2, <3>1
    <3>3. sent[s] # <<>>
      BY <1>1, <3>2
    <3>4. QED
      BY <1>1, <2>2, <3>2, <3>3 DEF LastSent
  <2>3. CASE i # k + 1
    <3>1. i \in 2 .. k /\ i \in 1 .. k
      BY <1>2, <2>3
    <3>2. QED
      BY <1>2, <1>3, <2>1, <3>1
  <2>4. QED
    BY <2>2, <2>3
<1>4. ASSUME NoRepeat(s) PROVE OneRepeat(s)'
  <2>1. \A i \in 2 .. k : sent[s][i] # sent[s][i - 1]
    BY <1>1, <1>4 DEF NoRepeat
  <2>2. \A i \in 2 .. Len(sent'[s]) : sent'[s][i] = sent'[s][i - 1] => i = k + 1
    BY <1>3, <2>1
  <2>3. QED
    BY <2>2 DEF OneRepeat
<1>5. ASSUME sent[s] = <<>> \/ LastSent(s) # n
      PROVE  (NoRepeat(s) => NoRepeat(s)') /\ (OneRepeat(s) => OneRepeat(s)')
  <2>1. \A i \in 2 .. Len(sent'[s]) :
          sent'[s][i] = sent'[s][i - 1] => i \in 2 .. k /\ sent[s][i] = sent[s][i - 1]
    BY <1>3, <1>5
  <2>2. NoRepeat(s) => NoRepeat(s)'
    BY <1>1, <2>1 DEF NoRepeat
  <2>3. OneRepeat(s) => OneRepeat(s)'
    BY <1>1, <2>1 DEF OneRepeat
  <2>4. QED
    BY <2>2, <2>3
<1>6. QED
  BY <1>4, <1>5

\* Without a repetition there is at most one.
LEMMA NoneIsAtMostOne == ASSUME NEW s, NoRepeat(s) PROVE OneRepeat(s)
BY DEF NoRepeat, OneRepeat

\* A subscription to which a step sends nothing.
LEMMA UntouchedRepeats ==
  ASSUME NEW s, sent'[s] = sent[s]
  PROVE  /\ NoRepeat(s)' <=> NoRepeat(s)
         /\ OneRepeat(s)' <=> OneRepeat(s)
         /\ LastSent(s)' = LastSent(s)
BY DEF NoRepeat, OneRepeat, LastSent

\* A step that sends nothing, and after which every place of the list is one it
\* had, or that of a subscriber whose replay has just ended.
LEMMA RepeatKept ==
  ASSUME SafetyInv, RepeatInv,
         UNCHANGED <<log, sent, pub>>, pub = "send" => idx' = idx,
         \A t \in Subs : catchUp'[t] # "done" => catchUp[t] # "done",
         \A j \in 1 .. Len(list') :
           \/ list'[j] \in Subs /\ catchUp[list'[j]] # "done"
           \/ \E i \in 1 .. Len(list) : list'[j] = list[i] /\ (pub = "send" => i = j)
  PROVE  RepeatInv'
<1>1. TypeOK
  BY DEF SafetyInv
<1>2. \A t \in Subs : OneRepeat(t)' /\ (catchUp'[t] # "done" => NoRepeat(t)')
  BY UntouchedRepeats DEF RepeatInv, AtMostOneRepeat
<1>3. ASSUME NEW j \in 1 .. Len(list'), NEW t, t = list'[j],
             sent'[t] # <<>>, LastSent(t)' > PublishedTo(j)'
      PROVE  NoRepeat(t)'
  <2>1. CASE t \in Subs /\ catchUp[t] # "done"
    BY <2>1, UntouchedRepeats DEF RepeatInv
  <2>2. CASE \E i \in 1 .. Len(list) : t = list[i] /\ (pub = "send" => i = j)
    <3>1. PICK i \in 1 .. Len(list) : t = list[i] /\ (pub = "send" => i = j)
      BY <2>2
    <3>2. PublishedTo(j)' = PublishedTo(i)
      BY <3>1 DEF PublishedTo
    <3>3. LastSent(t) > PublishedTo(i) /\ sent[t] # <<>>
      BY <1>3, <3>2, UntouchedRepeats
    <3>4. NoRepeat(t)
      BY <3>1, <3>3 DEF RepeatInv
    <3>5. QED
      BY <3>4, UntouchedRepeats
  <2>3. QED
    BY <1>3, <2>1, <2>2
<1>4. QED
  BY <1>2, <1>3 DEF RepeatInv, AtMostOneRepeat

\* What is published to a subscriber is not older than anything sent to it.
LEMMA RepeatStepBeforeSend ==
  ASSUME SafetyInv, RepeatInv, PutMessage \/ PublishLock \/ PublishUnlock
  PROVE  RepeatInv'
<1>1. /\ TypeOK /\ Len(log) \in Nat /\ idx \in Nat \ {0} /\ Len(list) \in Nat
      /\ \A i \in 1 .. Len(list) : list[i] \in Subs
  BY Shapes DEF SafetyInv
<1>2. UNCHANGED <<list, sent, catchUp>>
  BY DEF PutMessage, PublishLock, PublishUnlock, listVars, catchUpVars
<1>3. \A t \in Subs : OneRepeat(t)' /\ (catchUp'[t] # "done" => NoRepeat(t)')
  BY <1>2, UntouchedRepeats DEF RepeatInv, AtMostOneRepeat
<1>4. ASSUME NEW i \in 1 .. Len(list'), NEW t, t = list'[i],
             sent'[t] # <<>>, LastSent(t)' > PublishedTo(i)'
      PROVE  NoRepeat(t)'
  <2>1. /\ i \in 1 .. Len(list) /\ t = list[i] /\ t \in Subs
        /\ LastSent(t)' = LastSent(t) /\ LastSent(t) \in 1 .. Len(log)
    BY <1>1, <1>2, <1>4, UntouchedRepeats, Shapes
  <2>2. PublishedTo(i)' # Len(log)
    BY <1>1, <1>4, <2>1
  <2>3. ~PutMessage
    <3>1. SUFFICES ASSUME PutMessage PROVE FALSE
      OBVIOUS
    <3>2. pub' = "lock" /\ Len(log') = Len(log) + 1
      <4>1. PICK d \in Ticks : log' = Append(log, Now + d)
        BY <3>1 DEF PutMessage
      <4>2. QED
        BY <1>1, <3>1, <4>1, Shapes, AppendProperties DEF PutMessage
    <3>3. QED
      BY <1>1, <2>2, <3>2 DEF PublishedTo
  <2>4. ~PublishUnlock
    BY <2>2 DEF PublishUnlock, PublishedTo
  <2>5. PublishLock
    BY <2>3, <2>4
  <2>6. PublishedTo(i)' = Len(log) - 1 /\ PublishedTo(i) = Len(log) - 1
    BY <1>1, <2>1, <2>5 DEF PublishLock, PublishedTo
  <2>7. LastSent(t) > PublishedTo(i) /\ sent[t] # <<>>
    BY <1>2, <1>4, <2>1, <2>6
  <2>8. NoRepeat(t)
    BY <2>1, <2>7 DEF RepeatInv
  <2>9. QED
    BY <1>2, <2>8, UntouchedRepeats
<1>5. QED
  BY <1>3, <1>4 DEF RepeatInv, AtMostOneRepeat

\* RFPublish repeats a message only if it is the last of the replay, and then it
\* has told the subscriber of nothing before.
LEMMA RepeatStepPublishSend ==
  ASSUME SafetyInv, RepeatInv, PublishSend
  PROVE  RepeatInv'
<1> DEFINE n == Len(log)
<1>1. /\ TypeOK /\ n \in Nat /\ n \in 1 .. Len(log)
      /\ pub = "send" /\ idx' = idx + 1 /\ idx \in 1 .. Len(list)
      /\ \A i \in 1 .. Len(list) : list[i] \in Subs
  <2>1. TypeOK /\ log # <<>> /\ pub = "send" /\ idx' = idx + 1 /\ idx <= Len(list)
    BY DEF SafetyInv, PublishSend
  <2>2. QED
    BY <2>1, Shapes
<1>2. UNCHANGED <<log, pub, list, catchUp, taken, got>>
  BY DEF PublishSend, listVars, catchUpVars, streamVars
<1>3. PICK r \in Subs : r = list[idx]
  BY <1>1
<1>4. catchUp[r] = "done" /\ PublishedTo(idx) = n - 1
  BY <1>1, <1>3 DEF SafetyInv, SubscriptionInv, Listed, PublishedTo
<1>5. \A t \in Subs \ {r} : sent'[t] = sent[t]
  BY <1>1, <1>3 DEF PublishSend, Enqueue, TypeOK
<1>6. OneRepeat(r)'
  <2>1. CASE Wanted(idx)
    <3>1. ~Full(r) /\ Enqueue(r, n)
      BY <1>3, <2>1 DEF PublishSend
    <3>2. CASE sent[r] # <<>> /\ LastSent(r) = n
      <4>1. LastSent(r) > PublishedTo(idx)
        BY <1>1, <1>4, <3>2
      <4>2. NoRepeat(r)
        BY <1>1, <1>3, <3>2, <4>1 DEF RepeatInv
      <4>3. QED
        BY <1>1, <1>2, <3>1, <4>2, SendRepeats
    <3>3. CASE sent[r] = <<>> \/ LastSent(r) # n
      BY <1>1, <1>2, <3>1, <3>3, SendRepeats DEF RepeatInv, AtMostOneRepeat
    <3>4. QED
      BY <3>2, <3>3
  <2>2. CASE ~Wanted(idx)
    <3>1. sent'[r] = sent[r]
      BY <2>2 DEF PublishSend
    <3>2. QED
      BY <3>1, UntouchedRepeats DEF RepeatInv, AtMostOneRepeat
  <2>3. QED
    BY <2>1, <2>2
<1>7. \A t \in Subs : OneRepeat(t)' /\ (catchUp'[t] # "done" => NoRepeat(t)')
  BY <1>2, <1>4, <1>5, <1>6, UntouchedRepeats DEF RepeatInv, AtMostOneRepeat
<1>8. ASSUME NEW i \in 1 .. Len(list'), NEW t, t = list'[i],
             sent'[t] # <<>>, LastSent(t)' > PublishedTo(i)'
      PROVE  NoRepeat(t)'
  <2>1. i \in 1 .. Len(list) /\ t = list[i] /\ t \in Subs
    BY <1>1, <1>2, <1>8
  <2>2. i # idx
    <3>1. SUFFICES ASSUME i = idx PROVE FALSE
      OBVIOUS
    <3>2. PublishedTo(i)' = n
      BY <1>1, <1>2, <3>1 DEF PublishedTo
    <3>3. LastSent(t)' \in 1 .. n
      <4>1. TypeOK'
        BY <1>1, TypeStepPublishSend
      <4>2. sent'[t] \in Seq(1 .. n)
        BY <1>2, <2>1, <4>1 DEF TypeOK
      <4>3. Len(sent'[t]) \in 1 .. Len(sent'[t])
        BY <1>8, <4>2, EmptySeq
      <4>4. QED
        BY <4>2, <4>3, ElementOfSeq DEF LastSent
    <3>4. QED
      BY <1>1, <1>8, <3>2, <3>3
  <2>3. t # r /\ sent'[t] = sent[t]
    BY <1>1, <1>3, <1>5, <2>1, <2>2 DEF SafetyInv, ListsParallel
  <2>4. PublishedTo(i)' = PublishedTo(i)
    BY <1>1, <1>2, <2>1, <2>2 DEF PublishedTo
  <2>5. LastSent(t) > PublishedTo(i) /\ sent[t] # <<>>
    BY <1>8, <2>3, <2>4, UntouchedRepeats
  <2>6. NoRepeat(t)
    BY <2>1, <2>5 DEF RepeatInv
  <2>7. QED
    BY <2>3, <2>6, UntouchedRepeats
<1>9. QED
  BY <1>7, <1>8 DEF RepeatInv, AtMostOneRepeat

\* A round of the replay starts after the last message sent.
LEMMA RepeatStepCatchUpSend ==
  ASSUME SafetyInv, Streams, RepeatInv, NEW s \in Subs, CatchUpSend(s)
  PROVE  RepeatInv'
<1>1. /\ TypeOK /\ ~Listed(s) /\ catchUp[s] \in {"replay", "blocked"}
      /\ \A i \in 1 .. Len(list) : list[i] \in Subs /\ list[i] # s
  BY Shapes DEF SafetyInv, SubscriptionInv, CatchUpSend, Listed
<1>2. PICK n \in snap[s] : ReplayOne(s, n)
  BY DEF CatchUpSend
<1>3. /\ UNCHANGED <<log, pub, idx, list, taken, got>>
      /\ ~Full(s) /\ Enqueue(s, n)
      /\ catchUp'[s] = "replay"
      /\ \A t \in Subs \ {s} : catchUp'[t] = catchUp[t]
  BY <1>1, <1>2 DEF TypeOK, ReplayOne, listVars, streamVars
<1>4. n \in 1 .. Len(log) /\ ~Behind(s, n)
  BY <1>1, <1>2, Shapes DEF Streams, WithinRound
<1>5. sent[s] = <<>> \/ LastSent(s) # n
  BY <1>1, <1>4, Shapes DEF Behind
<1>6. NoRepeat(s)'
  BY <1>1, <1>3, <1>4, <1>5, SendRepeats DEF RepeatInv
<1>7. \A t \in Subs \ {s} : sent'[t] = sent[t]
  BY <1>1, <1>3, <1>4, EnqueueProperties
<1>8. ASSUME NEW t \in Subs
      PROVE  OneRepeat(t)' /\ (catchUp'[t] # "done" => NoRepeat(t)')
  <2>1. CASE t = s
    BY <1>6, <2>1 DEF NoRepeat, OneRepeat
  <2>2. CASE t # s
    BY <1>3, <1>7, <2>2, UntouchedRepeats DEF RepeatInv, AtMostOneRepeat
  <2>3. QED
    BY <2>1, <2>2
<1>9. ASSUME NEW i \in 1 .. Len(list'), NEW t, t = list'[i],
             sent'[t] # <<>>, LastSent(t)' > PublishedTo(i)'
      PROVE  NoRepeat(t)'
  <2>1. i \in 1 .. Len(list) /\ t = list[i] /\ t \in Subs \ {s} /\ sent'[t] = sent[t]
    BY <1>1, <1>3, <1>7, <1>9
  <2>2. PublishedTo(i)' = PublishedTo(i)
    BY <1>3 DEF PublishedTo
  <2>3. LastSent(t) > PublishedTo(i) /\ sent[t] # <<>>
    BY <1>9, <2>1, <2>2, UntouchedRepeats
  <2>4. NoRepeat(t)
    BY <2>1, <2>3 DEF RepeatInv
  <2>5. QED
    BY <2>1, <2>4, UntouchedRepeats
<1>10. QED
  BY <1>8, <1>9 DEF RepeatInv, AtMostOneRepeat

\* The other steps of a subscription send nothing.
LEMMA RepeatStepOfOne ==
  ASSUME SafetyInv, RepeatInv, NEW s \in Subs,
         Subscribe(s) \/ CatchUpLock(s) \/ CatchUpBlock(s) \/ CatchUpAgain(s)
           \/ CatchUpSwitch(s) \/ Stream(s)
  PROVE  RepeatInv'
<1>1. /\ TypeOK /\ list \in Seq(Subs) /\ Len(list) \in Nat
  BY Shapes DEF SafetyInv
<1>2. UNCHANGED <<log, sent, pub, idx>>
  BY DEF Subscribe, CatchUpLock, CatchUpBlock, CatchUpAgain, CatchUpSwitch, Stream,
     Receive, SendOK, SendError, Unsubscribe, Drain, DrainEnd, streamVars
<1>3. ASSUME NEW t \in Subs, catchUp'[t] # "done"
      PROVE  catchUp[t] # "done"
  <2>1. CASE Stream(s)
    BY <1>3, <2>1 DEF Stream, Receive, SendOK, SendError, Unsubscribe, Drain, DrainEnd,
       catchUpVars
  <2>2. CASE t # s
    BY <1>1, <1>3, <2>1, <2>2 DEF TypeOK, Subscribe, CatchUpLock, CatchUpBlock, CatchUpAgain,
       CatchUpSwitch
  <2>3. CASE Subscribe(t)
    BY <2>3 DEF SafetyInv, SubscriptionInv, Subscribe
  <2>4. CASE CatchUpLock(t) \/ CatchUpBlock(t) \/ CatchUpAgain(t) \/ CatchUpSwitch(t)
    BY <2>4 DEF CatchUpLock, CatchUpBlock, CatchUpAgain, CatchUpSwitch
  <2>5. QED
    BY <2>1, <2>2, <2>3, <2>4
<1>4. ASSUME NEW j \in 1 .. Len(list')
      PROVE  \/ list'[j] \in Subs /\ catchUp[list'[j]] # "done"
             \/ \E i \in 1 .. Len(list) : list'[j] = list[i] /\ (pub = "send" => i = j)
  <2>1. CASE Stream(s)
    BY <2>1, StreamPlaces
  <2>2. CASE CatchUpSwitch(s)
    <3>1. list' = Append(list, s) /\ catchUp[s] = "replay"
      BY <2>2 DEF CatchUpSwitch
    <3>2. CASE j = Len(list) + 1
      BY <1>1, <3>1, <3>2
    <3>3. CASE j # Len(list) + 1
      BY <1>1, <3>1, <3>3
    <3>4. QED
      BY <3>2, <3>3
  <2>3. CASE Subscribe(s) \/ CatchUpLock(s) \/ CatchUpBlock(s) \/ CatchUpAgain(s)
    <3>1. UNCHANGED list
      BY <2>3 DEF Subscribe, CatchUpLock, CatchUpBlock, CatchUpAgain, listVars
    <3>2. QED
      BY <3>1
  <2>4. QED
    BY <2>1, <2>2, <2>3
<1>5. QED
  BY <1>2, <1>3, <1>4, RepeatKept

\* Every step keeps RepeatInv, given what StreamInv says of the replay.
LEMMA RepeatInvStep == StreamInv /\ RepeatInv /\ [Next]_vars => RepeatInv'
<1> SUFFICES ASSUME StreamInv, RepeatInv, [Next]_vars PROVE RepeatInv'
  OBVIOUS
<1>1. SafetyInv /\ Streams
  BY DEF StreamInv, Streams, NoGap
<1>2. CASE PutMessage \/ PublishLock \/ PublishUnlock
  BY <1>1, <1>2, RepeatStepBeforeSend
<1>3. CASE PublishSend
  BY <1>1, <1>3, RepeatStepPublishSend
<1>4. ASSUME NEW s \in Subs, Subscribe(s) \/ CatchUp(s) \/ Stream(s)
      PROVE  RepeatInv'
  <2>1. CASE CatchUpSend(s)
    BY <1>1, <2>1, RepeatStepCatchUpSend
  <2>2. CASE ~CatchUpSend(s)
    BY <1>1, <1>4, <2>2, RepeatStepOfOne DEF CatchUp
  <2>3. QED
    BY <2>1, <2>2
<1>5. CASE UNCHANGED vars
  <2>1. UNCHANGED <<log, sent, pub, idx, list, catchUp>>
    BY <1>5 DEF vars, listVars, catchUpVars
  <2>2. QED
    BY <1>1, <2>1, RepeatKept
<1>6. QED
  BY <1>2, <1>3, <1>4, <1>5 DEF Next, Publish

-------------------------------------------------------------------------------
(* The refinement: what a client has got is a stream of RFStream.              *)

\* The first k elements of a sequence, as the steps below need them.
LEMMA PrefixProperties ==
  ASSUME NEW S, NEW q \in Seq(S), NEW k \in 0 .. Len(q)
  PROVE  /\ SubSeq(q, 1, k) \in Seq(S)
         /\ Len(SubSeq(q, 1, k)) = k
         /\ SubSeq(q, 1, k) = <<>> <=> k = 0
         /\ \A i \in 1 .. k : SubSeq(q, 1, k)[i] = q[i]
<1>1. Len(q) \in Nat /\ k \in Nat /\ \A i \in 1 .. k : q[i] \in S
  BY LenProperties, ElementOfSeq
<1>2. /\ SubSeq(q, 1, k) \in Seq(S)
      /\ Len(SubSeq(q, 1, k)) = IF 1 <= k THEN k - 1 + 1 ELSE 0
      /\ \A i \in 1 .. k - 1 + 1 : SubSeq(q, 1, k)[i] = q[1 + i - 1]
  BY <1>1, SubSeqProperties, 1 \in Int, k \in Int
<1>3. Len(SubSeq(q, 1, k)) = k
  BY <1>1, <1>2
<1>4. \A i \in 1 .. k : SubSeq(q, 1, k)[i] = q[i]
  BY <1>1, <1>2
<1>5. SubSeq(q, 1, k) = <<>> <=> k = 0
  BY <1>2, <1>3, EmptySeq
<1>6. QED
  BY <1>2, <1>3, <1>4, <1>5

\* Delivering one more message of a channel appends it to the client's stream.
LEMMA PrefixGrows ==
  ASSUME NEW S, NEW q \in Seq(S), NEW k \in Nat, k + 1 \in 1 .. Len(q)
  PROVE  SubSeq(q, 1, k + 1) = Append(SubSeq(q, 1, k), q[k + 1])
<1>1. Len(q) \in Nat /\ k \in 0 .. Len(q) /\ k + 1 \in 0 .. Len(q) /\ q[k + 1] \in S
  <2>1. Len(q) \in Nat /\ q[k + 1] \in S
    BY LenProperties, ElementOfSeq
  <2>2. QED
    BY <2>1
<1>2. PICK a \in Seq(S) : /\ a = SubSeq(q, 1, k) /\ Len(a) = k
                          /\ \A i \in 1 .. k : a[i] = q[i]
  <2>1. /\ SubSeq(q, 1, k) \in Seq(S) /\ Len(SubSeq(q, 1, k)) = k
        /\ \A i \in 1 .. k : SubSeq(q, 1, k)[i] = q[i]
    BY <1>1, PrefixProperties, ZenonT(30)
  <2>2. QED
    BY <2>1, ZenonT(30)
<1>3. PICK b \in Seq(S) : /\ b = SubSeq(q, 1, k + 1) /\ Len(b) = k + 1
                          /\ \A i \in 1 .. k + 1 : b[i] = q[i]
  <2>1. /\ SubSeq(q, 1, k + 1) \in Seq(S) /\ Len(SubSeq(q, 1, k + 1)) = k + 1
        /\ \A i \in 1 .. k + 1 : SubSeq(q, 1, k + 1)[i] = q[i]
    BY <1>1, PrefixProperties, ZenonT(30)
  <2>2. QED
    BY <2>1, ZenonT(30)
<1>4. PICK c \in Seq(S) : /\ c = Append(a, q[k + 1]) /\ Len(c) = k + 1
                          /\ \A i \in 1 .. k : c[i] = a[i]
                          /\ c[k + 1] = q[k + 1]
  <2>1. /\ Append(a, q[k + 1]) \in Seq(S)
        /\ Len(Append(a, q[k + 1])) = Len(a) + 1
        /\ \A i \in 1 .. Len(a) : Append(a, q[k + 1])[i] = a[i]
        /\ Append(a, q[k + 1])[Len(a) + 1] = q[k + 1]
    BY <1>1, AppendProperties
  <2>2. QED
    BY <1>2, <2>1
<1>5. \A i \in 1 .. Len(b) : b[i] = c[i]
  BY <1>2, <1>3, <1>4
<1>6. b = c
  BY <1>3, <1>4, <1>5, SeqEqual
<1>7. QED
  BY <1>2, <1>3, <1>4, <1>6

\* Sending into a channel leaves what was delivered from it as it is.
LEMMA PrefixKept ==
  ASSUME NEW S, NEW q \in Seq(S), NEW r \in Seq(S), NEW k \in 0 .. Len(q),
         Len(q) <= Len(r), \A i \in 1 .. Len(q) : r[i] = q[i]
  PROVE  SubSeq(r, 1, k) = SubSeq(q, 1, k)
<1>1. Len(q) \in Nat /\ Len(r) \in Nat /\ k \in 0 .. Len(r)
  BY LenProperties
<1>2. PICK a \in Seq(S) : /\ a = SubSeq(q, 1, k) /\ Len(a) = k
                          /\ \A i \in 1 .. k : a[i] = q[i]
  <2>1. /\ SubSeq(q, 1, k) \in Seq(S) /\ Len(SubSeq(q, 1, k)) = k
        /\ \A i \in 1 .. k : SubSeq(q, 1, k)[i] = q[i]
    BY PrefixProperties
  <2>2. QED
    BY <2>1
<1>3. PICK b \in Seq(S) : /\ b = SubSeq(r, 1, k) /\ Len(b) = k
                          /\ \A i \in 1 .. k : b[i] = r[i]
  <2>1. /\ SubSeq(r, 1, k) \in Seq(S) /\ Len(SubSeq(r, 1, k)) = k
        /\ \A i \in 1 .. k : SubSeq(r, 1, k)[i] = r[i]
    BY <1>1, PrefixProperties
  <2>2. QED
    BY <2>1
<1>4. \A i \in 1 .. Len(b) : b[i] = a[i]
  BY <1>1, <1>2, <1>3
<1>5. QED
  BY <1>2, <1>3, <1>4, SeqEqual

\* How much of its channel a client was given, action by action.
LEMMA DeliveryInvStep ==
  SafetyInv /\ DeliveryInv /\ [Next]_vars => DeliveryInv'
<1> SUFFICES ASSUME SafetyInv, DeliveryInv, [Next]_vars, NEW t \in Subs
             PROVE  /\ stream'[t] = "none" => start'[t] = NotSubscribed
                    /\ stream'[t] \in {"none", "recv"} => taken'[t] = got'[t]
                    /\ stream'[t] = "send" => taken'[t] = got'[t] + 1
  BY DEF DeliveryInv
<1>1. /\ taken \in [Subs -> Nat] /\ got \in [Subs -> Nat]
      /\ stream \in [Subs -> {"none", "recv", "send", "unsubscribe", "drain", "done"}]
      /\ start \in [Subs -> StartAts \cup {NotSubscribed}]
  BY DEF SafetyInv, TypeOK
<1>2. /\ stream[t] = "none" => start[t] = NotSubscribed
      /\ stream[t] \in {"none", "recv"} => taken[t] = got[t]
      /\ stream[t] = "send" => taken[t] = got[t] + 1
  BY DEF DeliveryInv
<1>3. CASE UNCHANGED <<start, stream, taken, got>>
  BY <1>2, <1>3
<1>4. CASE PutMessage \/ Publish \/ UNCHANGED vars
  BY <1>3, <1>4 DEF Publish, PutMessage, PublishLock, PublishSend, PublishUnlock,
     streamVars, vars
<1>5. ASSUME NEW s \in Subs, Subscribe(s) \/ CatchUp(s) \/ Stream(s)
      PROVE  /\ stream'[t] = "none" => start'[t] = NotSubscribed
             /\ stream'[t] \in {"none", "recv"} => taken'[t] = got'[t]
             /\ stream'[t] = "send" => taken'[t] = got'[t] + 1
  <2>1. CASE Subscribe(s)
    <3>1. /\ UNCHANGED <<taken, got>> /\ stream[s] = "none" /\ stream'[s] = "recv"
          /\ \A u \in Subs \ {s} : stream'[u] = stream[u] /\ start'[u] = start[u]
      BY <1>1, <2>1 DEF Subscribe
    <3>2. QED
      BY <1>2, <3>1
  <2>2. CASE CatchUp(s)
    BY <1>3, <2>2 DEF CatchUp, CatchUpLock, CatchUpSend, ReplayOne, CatchUpBlock,
       CatchUpAgain, CatchUpSwitch, streamVars
  <2>3. CASE Receive(s)
    <3>1. /\ UNCHANGED <<start, got>> /\ stream[s] = "recv" /\ stream'[s] = "send"
          /\ taken'[s] = taken[s] + 1
          /\ \A u \in Subs \ {s} : stream'[u] = stream[u] /\ taken'[u] = taken[u]
      BY <1>1, <2>3 DEF Receive
    <3>2. QED
      BY <1>2, <3>1
  <2>4. CASE SendOK(s)
    <3>1. /\ UNCHANGED <<start, taken>> /\ stream'[s] = "recv" /\ got'[s] = taken[s]
          /\ \A u \in Subs \ {s} : stream'[u] = stream[u] /\ got'[u] = got[u]
      BY <1>1, <2>4 DEF SendOK
    <3>2. QED
      BY <1>2, <3>1
  <2>5. CASE SendError(s) \/ Unsubscribe(s) \/ Drain(s) \/ DrainEnd(s)
    <3>1. /\ UNCHANGED <<start, got>>
          /\ stream'[s] \in {"unsubscribe", "drain", "done"}
          /\ \A u \in Subs \ {s} : stream'[u] = stream[u] /\ taken'[u] = taken[u]
      BY <1>1, <2>5 DEF SendError, Unsubscribe, Drain, DrainEnd
    <3>2. QED
      BY <1>2, <3>1
  <2>6. QED
    BY <1>5, <2>1, <2>2, <2>3, <2>4, <2>5 DEF Stream
<1>6. QED
  BY <1>4, <1>5 DEF Next

\* What TypeOK says of the channel that Delivered reads.
LEMMA DeliveredShape ==
  ASSUME TypeOK, NEW s \in Subs
  PROVE  /\ sent[s] \in Seq(1 .. Len(log)) /\ Len(sent[s]) \in Nat
         /\ got[s] \in 0 .. Len(sent[s]) /\ got[s] \in Nat /\ taken[s] \in Nat
         /\ taken[s] <= Len(sent[s])
<1>1. /\ sent[s] \in Seq(1 .. Len(log)) /\ got[s] \in Nat /\ taken[s] \in Nat
      /\ got[s] <= taken[s] /\ taken[s] <= Len(sent[s])
  BY DEF TypeOK, ChannelOK
<1>2. Len(sent[s]) \in Nat
  BY <1>1, LenProperties
<1>3. QED
  BY <1>1, <1>2

\* A step that delivers nothing leaves the clients' streams as they are, although
\* more may have been sent into their channels.
LEMMA DeliveredKept ==
  ASSUME TypeOK, UNCHANGED got,
         \/ UNCHANGED sent
         \/ \E s \in Subs : \E n \in 1 .. Len(log) :
              ~Full(s) /\ Enqueue(s, n) /\ UNCHANGED <<log, taken>>,
         NEW t \in Subs
  PROVE  Delivered(t)' = Delivered(t)
<1>1. CASE sent'[t] = sent[t]
  BY <1>1 DEF Delivered
<1>2. ASSUME NEW s \in Subs, NEW n \in 1 .. Len(log), ~Full(s), Enqueue(s, n),
             UNCHANGED <<log, taken>>
      PROVE  Delivered(t)' = Delivered(t)
  <2>1. CASE t # s
    BY <1>1, <1>2, <2>1, EnqueueProperties
  <2>2. CASE t = s
    <3>1. /\ sent'[t] \in Seq(1 .. Len(log)) /\ Len(sent'[t]) = Len(sent[t]) + 1
          /\ \A i \in 1 .. Len(sent[t]) : sent'[t][i] = sent[t][i]
      BY <1>2, <2>2, EnqueueProperties
    <3>2. sent[t] \in Seq(1 .. Len(log)) /\ got[t] \in 0 .. Len(sent[t])
          /\ Len(sent[t]) <= Len(sent'[t])
      BY <3>1, DeliveredShape
    <3>3. SubSeq(sent'[t], 1, got[t]) = SubSeq(sent[t], 1, got[t])
      BY <3>1, <3>2, PrefixKept
    <3>4. QED
      BY <3>3 DEF Delivered
  <2>3. QED
    BY <2>1, <2>2
<1>3. QED
  BY <1>1, <1>2

\* Nothing that RFStream knows of changes in such a step.
LEMMA PromiseStutter ==
  ASSUME UNCHANGED <<log, start>>, \A t \in Subs : Delivered(t)' = Delivered(t)
  PROVE  UNCHANGED Promise!vars
BY DEF Promise!vars

\* Most steps of the machinery are none of RFStream.
LEMMA PromiseStepQuiet ==
  ASSUME StreamInv,
         \/ Publish
         \/ UNCHANGED vars
         \/ \E s \in Subs : CatchUp(s) \/ (Stream(s) /\ ~SendOK(s))
  PROVE  UNCHANGED Promise!vars
<1>1. TypeOK
  BY DEF StreamInv, SafetyInv
<1>2. UNCHANGED <<log, start, got>>
  BY DEF Publish, PublishLock, PublishSend, PublishUnlock, CatchUp, CatchUpLock,
     CatchUpSend, ReplayOne, CatchUpBlock, CatchUpAgain, CatchUpSwitch, Stream, Receive,
     SendError, Unsubscribe, Drain, DrainEnd, vars, streamVars
<1>3. \/ UNCHANGED sent
      \/ \E s \in Subs : \E n \in 1 .. Len(log) :
           ~Full(s) /\ Enqueue(s, n) /\ UNCHANGED <<log, taken>>
  <2>1. CASE PublishSend /\ Wanted(idx)
    <3>1. /\ ~Full(list[idx]) /\ Enqueue(list[idx], Len(log)) /\ UNCHANGED <<log, taken>>
          /\ pub = "send" /\ idx <= Len(list)
      BY <2>1 DEF PublishSend, streamVars
    <3>2. list[idx] \in Subs /\ Len(log) \in 1 .. Len(log)
      BY <1>1, <3>1, Shapes DEF StreamInv, SafetyInv
    <3>3. QED
      BY <3>1, <3>2
  <2>2. ASSUME NEW s \in Subs, CatchUpSend(s)
        PROVE  \E n \in 1 .. Len(log) :
                 ~Full(s) /\ Enqueue(s, n) /\ UNCHANGED <<log, taken>>
    <3>1. PICK n \in snap[s] : ReplayOne(s, n)
      BY <2>2 DEF CatchUpSend
    <3>2. n \in 1 .. Len(log)
      BY <1>1, <3>1, Shapes
    <3>3. QED
      BY <3>1, <3>2 DEF ReplayOne, streamVars
  <2>3. CASE /\ ~(PublishSend /\ Wanted(idx))
             /\ ~\E s \in Subs : CatchUpSend(s)
    BY <2>3 DEF Publish, PublishLock, PublishSend, PublishUnlock, CatchUp, CatchUpLock,
       CatchUpBlock, CatchUpAgain, CatchUpSwitch, Stream, Receive, SendError,
       Unsubscribe, Drain, DrainEnd, vars
  <2>4. QED
    BY <2>1, <2>2, <2>3
<1>4. \A t \in Subs : Delivered(t)' = Delivered(t)
  BY <1>1, <1>2, <1>3, DeliveredKept
<1>5. QED
  BY <1>2, <1>4, PromiseStutter

\* A Send that succeeds delivers the next message of the channel.
LEMMA PromiseStepDeliver ==
  ASSUME StreamInv, DeliveryInv, NEW s \in Subs, SendOK(s)
  PROVE  Promise!Deliver(s)
<1>1. TypeOK /\ SafetyInv /\ GapFree(s)
  BY DEF StreamInv, SafetyInv, NoGap
<1>2. PICK k \in Nat : k = got[s]
  BY <1>1, DeliveredShape
<1>3. /\ UNCHANGED <<log, start, sent>>
      /\ got'[s] = k + 1 /\ k + 1 \in 1 .. Len(sent[s])
      /\ \A t \in Subs \ {s} : got'[t] = got[t]
  <2>1. stream[s] = "send" /\ got' = [got EXCEPT ![s] = taken[s]]
        /\ UNCHANGED <<log, start, sent>>
    BY DEF SendOK
  <2>2. taken[s] = k + 1 /\ taken[s] <= Len(sent[s]) /\ Len(sent[s]) \in Nat
    BY <1>1, <1>2, <2>1, DeliveredShape DEF DeliveryInv
  <2>3. QED
    BY <1>1, <2>1, <2>2 DEF TypeOK
<1>4. PICK n \in 1 .. Len(log) : n = sent[s][k + 1]
  BY <1>1, <1>3, Shapes
<1>5. start[s] # -1
  <2>1. start[s] \in StartAts
    BY <1>1 DEF SendOK, SafetyInv, SubscriptionInv
  <2>2. QED
    BY <2>1, ConstantsAssumption
<1>6. Delivered(s)' = Append(Delivered(s), n)
  <2>1. SubSeq(sent[s], 1, k + 1) = Append(SubSeq(sent[s], 1, k), sent[s][k + 1])
    BY <1>1, <1>3, DeliveredShape, PrefixGrows
  <2>2. QED
    BY <1>2, <1>3, <1>4, <2>1 DEF Delivered
<1>7. IF Delivered(s) = <<>>
      THEN \A m \in 1 .. n - 1 : log[m] < start[s]
      ELSE n - Delivered(s)[Len(Delivered(s))] \in {0, 1}
  <2>1. /\ Len(Delivered(s)) = k
        /\ Delivered(s) = <<>> <=> k = 0
        /\ \A i \in 1 .. k : Delivered(s)[i] = sent[s][i]
    BY <1>1, <1>2, DeliveredShape, PrefixProperties DEF Delivered
  <2>2. CASE k = 0
    BY <1>1, <1>3, <1>4, <2>1, <2>2 DEF GapFree
  <2>3. CASE k # 0
    <3>1. Delivered(s)[Len(Delivered(s))] = sent[s][k]
      BY <2>1, <2>3
    <3>2. k + 1 # 1 /\ (k + 1) - 1 = k
      BY <2>3
    <3>3. sent[s][k + 1] - sent[s][k] \in {0, 1}
      BY <1>1, <1>3, <3>2 DEF GapFree
    <3>4. QED
      BY <1>4, <2>1, <2>3, <3>1, <3>3
  <2>4. QED
    BY <2>2, <2>3
<1>8. [t \in Subs |-> Delivered(t)'] =
        [[t \in Subs |-> Delivered(t)] EXCEPT ![s] = Append(@, n)]
  <2>1. \A t \in Subs \ {s} : Delivered(t)' = Delivered(t)
    BY <1>3 DEF Delivered
  <2>2. QED
    BY <1>6, <2>1
<1>9. QED
  BY <1>3, <1>4, <1>5, <1>7, <1>8
     DEF Promise!Deliver, Promise!MayFollow, Promise!NotSubscribed

\* Every step of the subscriptions is a step of RFStream, or none of its business.
LEMMA PromiseStep ==
  ASSUME StreamInv, DeliveryInv, [Next]_vars
  PROVE  [Promise!Next]_Promise!vars
<1>1. TypeOK
  BY DEF StreamInv, SafetyInv
<1>2. CASE PutMessage
  <2>1. \A t \in Subs : Delivered(t)' = Delivered(t)
    BY <1>2 DEF PutMessage, Delivered, streamVars
  <2>2. [t \in Subs |-> Delivered(t)'] = [t \in Subs |-> Delivered(t)]
    BY <2>1
  <2>3. Promise!Put
    BY <1>2, <2>2 DEF PutMessage, Promise!Put, Promise!Now, Now
  <2>4. QED
    BY <2>3 DEF Promise!Next
<1>3. ASSUME NEW s \in Subs, Subscribe(s)
      PROVE  Promise!Subscribe(s)
  <2>1. \A t \in Subs : Delivered(t)' = Delivered(t)
    BY <1>3 DEF Subscribe, Delivered
  <2>2. [t \in Subs |-> Delivered(t)'] = [t \in Subs |-> Delivered(t)]
    BY <2>1
  <2>3. start[s] = -1
    BY <1>3 DEF Subscribe, DeliveryInv, NotSubscribed
  <2>4. QED
    BY <1>3, <2>2, <2>3 DEF Subscribe, Promise!Subscribe, Promise!NotSubscribed
<1>4. ASSUME NEW s \in Subs, SendOK(s)
      PROVE  Promise!Deliver(s)
  BY <1>4, PromiseStepDeliver
<1>5. CASE \/ Publish
           \/ UNCHANGED vars
           \/ \E s \in Subs : CatchUp(s) \/ (Stream(s) /\ ~SendOK(s))
  BY <1>5, PromiseStepQuiet
<1>6. QED
  BY <1>2, <1>3, <1>4, <1>5 DEF Next, Promise!Next

-------------------------------------------------------------------------------
\* No message is stored and nobody has subscribed at the start.
LEMMA StreamInvInit == Init => StreamInv
<1> SUFFICES ASSUME Init PROVE StreamInv
  OBVIOUS
<1>1. SafetyInv
  BY SafetyInvInit
<1>2. LogIncreasing /\ NoGap /\ \A i \in 1 .. Len(list) : InRealTime(i)
  BY DEF Init, LogIncreasing, NoGap, GapFree
<1>3. ASSUME NEW s \in Subs
      PROVE  BetweenRounds(s) /\ WithinRound(s)
  <2>1. catchUp[s] \notin {"replay", "blocked"} /\ catchUp[s] # "lock"
    BY DEF Init
  <2>2. QED
    BY <2>1, Zenon DEF WithinRound, BetweenRounds
<1>4. QED
  BY <1>1, <1>2, <1>3 DEF StreamInv

\* Every step preserves the invariant if the clock ticks between two messages.
LEMMA StreamInvStep ==
  ASSUME StrictClock
  PROVE  StreamInv /\ [Next]_vars => StreamInv'
<1> SUFFICES ASSUME StreamInv, [Next]_vars PROVE StreamInv'
  OBVIOUS
<1>1. SafetyInv /\ Streams
  BY DEF StreamInv, Streams, NoGap
<1>2. SafetyInv'
  BY <1>1, SafetyInvStep
<1>3. Streams'
  <2>1. CASE PutMessage
    BY <1>1, <2>1, StreamStepPut
  <2>2. CASE PublishLock \/ PublishUnlock
    BY <1>1, <2>2, StreamStepPublishMutex
  <2>3. CASE PublishSend
    BY <1>1, <2>3, StreamStepPublishSend
  <2>4. ASSUME NEW s \in Subs, Subscribe(s) \/ CatchUp(s) \/ Stream(s)
        PROVE  Streams'
    <3>1. CASE Subscribe(s)
      BY <1>1, <3>1, StreamStepSubscribe
    <3>2. CASE CatchUpLock(s)
      BY <1>1, <3>2, StreamStepCatchUpLock
    <3>3. CASE CatchUpSend(s)
      BY <1>1, <3>3, StreamStepCatchUpSend
    <3>4. CASE CatchUpBlock(s) \/ CatchUpAgain(s)
      BY <1>1, <3>4, StreamStepCatchUpWait
    <3>5. CASE CatchUpSwitch(s)
      BY <1>1, <3>5, StreamStepCatchUpSwitch
    <3>6. CASE Stream(s)
      BY <1>1, <3>6, StreamStepStream
    <3>7. QED
      BY <2>4, <3>1, <3>2, <3>3, <3>4, <3>5, <3>6 DEF CatchUp
  <2>5. CASE UNCHANGED vars
    BY <1>1, <2>5 DEF vars, catchUpVars, streamVars, listVars, Streams, LogIncreasing,
       BetweenRounds, WithinRound, GapFree, InRealTime, Behind, LastSent, PublishedTo
  <2>6. QED
    BY <2>1, <2>2, <2>3, <2>4, <2>5 DEF Next, Publish
<1>4. QED
  BY <1>2, <1>3 DEF StreamInv, Streams, NoGap

\* If no two messages carry the same millisecond, a subscription misses none:
\* through any number of replay rounds, the switch to real time and the
\* publishing of catchUpRFSubscribe and RFPublish, for any channel capacity.
THEOREM StreamsHaveNoGap ==
  ASSUME StrictClock
  PROVE  Spec => []NoGap
<1>1. StreamInv => NoGap
  BY DEF StreamInv
<1>2. QED
  BY <1>1, StreamInvInit, StreamInvStep, PTL DEF Spec

\* If no two messages carry the same millisecond, a subscription gets at most one
\* message twice: the one that was stored, and not yet published, when
\* catchUpRFSubscribe replayed it and joined the list.
THEOREM OneRepeatAtMost ==
  ASSUME StrictClock
  PROVE  Spec => []AtMostOneRepeat
<1>1. Init => RepeatInv
  BY DEF Init, RepeatInv, AtMostOneRepeat, OneRepeat, NoRepeat
<1>2. RepeatInv => AtMostOneRepeat
  BY DEF RepeatInv
<1>3. QED
  BY <1>1, <1>2, StreamInvInit, StreamInvStep, RepeatInvStep, PTL DEF Spec

\* If no two messages carry the same millisecond, the replay rounds, the mutex, the
\* channel and the streaming goroutine together hand a client the stream of
\* RFStream: all messages from its start time on, in order, for any number of
\* subscriptions, any interleaving and any failures of the other clients.
THEOREM SubscriptionsImplementStream ==
  ASSUME StrictClock
  PROVE  Spec => ImplementsStream
<1>1. Init => DeliveryInv
  BY DEF Init, DeliveryInv
<1>2. Init => Promise!Init
  <2> SUFFICES ASSUME Init PROVE Promise!Init
    OBVIOUS
  <2>1. \A s \in Subs : Delivered(s) = <<>>
    BY SubSeqEmpty, 1 \in Int, 0 \in Int, 0 < 1 DEF Init, Delivered
  <2>2. [s \in Subs |-> Delivered(s)] = [s \in Subs |-> <<>>]
    BY <2>1
  <2>3. QED
    BY <2>2 DEF Init, NotSubscribed, Promise!Init, Promise!NotSubscribed
<1>3. StreamInv => SafetyInv
  BY DEF StreamInv
<1>4. StreamInv /\ DeliveryInv /\ [Next]_vars => [Promise!Next]_Promise!vars
  BY PromiseStep
<1>5. QED
  BY <1>1, <1>2, <1>3, <1>4, StreamInvInit, StreamInvStep, DeliveryInvStep, PTL
     DEF Spec, ImplementsStream, Promise!Spec
=============================================================================
