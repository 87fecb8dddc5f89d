------------------------- MODULE SensorSubscribeProps -------------------------
(* What must hold, or is said to hold, of the sensor values in the hub.      *)
EXTENDS SensorSubscribe

Value == [name : Sensors, by : Pushers, at : Nat \ {0}]
Subscription ==
  [name : Sensors \cup {None}, start : StartAts \cup {0},
   catchUp : {"none", "lock", "replay", "blocked", "done"}, lastAt : Nat, locked : BOOLEAN,
   snap : SUBSET (1 .. Len(log)),
   stream : {"none", "recv", "send", "unsubscribe", "drain", "done"},
   sent : Seq(1 .. Len(log)), taken : Nat, closed : BOOLEAN]
Pushing ==
  [to : Sensors, pc : {"idle", "put", "lock", "send"}, at : Nat, val : 0 .. Len(log),
   idx : Nat \ {0}]

\* Every variable has the values the code gives it; in particular no channel of
\* SensorSubscribe ever holds more than its capacity.
TypeOK ==
  /\ now \in Nat /\ log \in Seq(Value)
  /\ push \in [Pushers -> Pushing]
  /\ mutex \in Subs \cup Pushers \cup {None}
  /\ DOMAIN list \subseteq Sensors /\ \A n \in DOMAIN list : list[n] \in Seq(Subs)
  /\ DOMAIN since \subseteq Sensors /\ \A n \in DOMAIN since : since[n] \in Seq(Nat)
  /\ sub \in [Subs -> Subscription]
  /\ \A s \in Subs : Len(sub[s].sent) - sub[s].taken \in 0 .. Cap
  /\ hub \in {"up", "panic", "fatal"}

\* The two maps of addSensorSubscriber and removeSensorSubscriber stay parallel,
\* and a channel is in the list of its own sensor only, exactly from the end of
\* its catch-up until it is closed: neither a publisher nor its catch-up can
\* send into a closed channel.
ListsMatchChannels ==
  /\ DOMAIN list = DOMAIN since
  /\ \A n \in DOMAIN list : Len(list[n]) = Len(since[n])
  /\ \A s \in Subs : \A n \in DOMAIN list :
       Cardinality(At(s, n)) =
         IF n = sub[s].name /\ sub[s].catchUp = "done" /\ ~sub[s].closed THEN 1 ELSE 0
  /\ \A s \in Subs : sub[s].closed => sub[s].catchUp = "done"

\* Publishers and catch-ups of all sensors share one mutex, and release it only
\* if they hold it, though a catch-up may have given it up before.
MutexMatchesFlags ==
  /\ \A p \in Pushers : (mutex = p) <=> (push[p].pc = "send")
  /\ \A s \in Subs :
       (mutex = s) <=> (sub[s].catchUp \in {"replay", "blocked"} /\ sub[s].locked)

\* No other value of the sensor spoils value i: none stored before has a time
\* stamp as late, none stored after has the same.
InOrder(i) ==
  \A j \in 1 .. Len(log) \ {i} : log[j].name = log[i].name =>
    IF j < i THEN log[j].at < log[i].at ELSE log[j].at # log[i].at

\* Value i has been stored and not yet been offered to s by its pusher.
InFlight(i, s) ==
  \E p \in Pushers :
    /\ push[p].val = i
    /\ \/ push[p].pc = "lock"
       \/ push[p].pc = "send" /\ \E k \in At(s, push[p].to) : push[p].idx <= k

\* Once its catch-up is over, a subscriber has been sent all it asked for: no
\* value, of however many pushers, falls between the replay and the real time.
NothingLost ==
  hub = "up" => \A s \in Subs : sub[s].catchUp = "done" /\ ~sub[s].closed =>
    \A i \in 1 .. Len(log) :
      (/\ log[i].name = sub[s].name /\ log[i].at >= sub[s].start
       /\ InOrder(i) /\ ~InFlight(i, s))
      => \E k \in 1 .. Len(sub[s].sent) : sub[s].sent[k] = i

\* A subscriber gets only values of its sensor from its start time on - whatever
\* lastAt its replay restarts with - none more than twice, and those of one pusher
\* in the order of their times even when two pushers interleave.
PushersInOrder ==
  \A s \in Subs : LET c == sub[s].sent IN
    /\ \A k \in 1 .. Len(c) : log[c[k]].name = sub[s].name
    /\ \A k \in 1 .. Len(c) : Cardinality({l \in 1 .. Len(c) : c[l] = c[k]}) <= 2
    /\ \A k, l \in 1 .. Len(c) :
         k < l /\ log[c[k]].by = log[c[l]].by /\ c[l] < c[k] =>
           log[c[l]].at >= log[c[k]].at

-----------------------------------------------------------------------------
(* What the documentation says and the code does not do.                    *)

\* hub/database/sensor_subscribe.go: SensorPublish "stores it in the database
\* and forwards it to all sensorSubscribers" - to none, if there are none.
HubStaysUp == hub = "up"
===============================================================================
