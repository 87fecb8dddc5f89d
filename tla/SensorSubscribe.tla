---------------------------- MODULE SensorSubscribe ----------------------------
(***************************************************************************)
(* The sensor values in the hub (hub/database/sensor_subscribe.go,         *)
(* sensor_data.go and two handlers of hub/chanhandlers.go): like the RF    *)
(* messages, but with lists of subscribers per sensor, made when the first *)
(* one joins, and with a goroutine per client that pushes values.          *)
(*                                                                         *)
(* A value is the position of its Put in log.  A channel is what was ever  *)
(* sent into it and how much of that was read.                             *)
(***************************************************************************)
EXTENDS Integers, Sequences, SequencesExt, FiniteSets, FiniteSetsExt

CONSTANTS
  Sensors,      \* the names of the sensors
  Subs,         \* the subscriptions
  Pushers,      \* the clients that push values
  StartAts,     \* the StartAt values of subscriptions
  ClientTimes,  \* the time stamps a client may give itself
  Cap,          \* the capacity of a subscriber's channel (100 in the code)
  MaxVals,      \* bound on the values pushed
  MayFail,      \* the subscriptions whose connection may break
  None          \* nobody holds the mutex, no sensor

ASSUME ConstantsAssumption ==
  /\ StartAts \subseteq Nat /\ ClientTimes \subseteq Nat \ {0}
  /\ Cap \in Nat \ {0} /\ MaxVals \in Nat
  /\ MayFail \subseteq Subs /\ Pushers \cap Subs = {}
  /\ None \notin Sensors \cup Subs \cup Pushers

VARIABLES
  now,     \* the hub's clock: the last time stamp it gave
  log,     \* the values stored: their sensor, pusher and time stamp
  push,    \* each pusher: its sensor, where it is, its value's time and position,
           \* and the index of SensorPublish's loop
  mutex,   \* the holder of sensorSubscriberMutex
  list,    \* sensorSubscribers: the channels of each sensor that has an entry
  since,   \* sensorSubscriberStart
  sub,     \* each subscription: its request, its two goroutines, its channel
  hub      \* "up", or how it died: "panic" or "fatal"

vars == <<now, log, push, mutex, list, since, sub, hub>>

Fresh ==
  [name |-> None, start |-> 0, catchUp |-> "none", lastAt |-> 0, locked |-> FALSE,
   snap |-> {}, stream |-> "none", sent |-> <<>>, taken |-> 0, closed |-> FALSE]

Init ==
  /\ now = 0 /\ log = <<>>
  /\ push \in [Pushers -> {[to |-> n, pc |-> "idle", at |-> 0, val |-> 0, idx |-> 1] :
                           n \in Sensors}]
  /\ mutex = None
  /\ list = <<>> /\ since = <<>>      \* two empty maps
  /\ sub = [s \in Subs |-> Fresh]
  /\ hub = "up"

-----------------------------------------------------------------------------
(* Helpers.                                                                *)

BugFull(s) == Len(sub[s].sent) - sub[s].taken > Cap
Full(s) == Len(sub[s].sent) - sub[s].taken >= Cap

\* A map with k set to v.
Bind(f, k, v) == [x \in DOMAIN f \cup {k} |-> IF x = k THEN v ELSE f[x]]

\* The values of a sensor, of which the last with a time stamp is kept, from a
\* time on.
BugReplay(name, from) ==
  {i \in 1 .. Len(log) : /\ log[i].at >= from
                         /\ \A j \in i + 1 .. Len(log) : log[j].at # log[i].at}
Replay(name, from) ==
  {i \in 1 .. Len(log) :
     /\ log[i].name = name /\ log[i].at >= from
     /\ \A j \in i + 1 .. Len(log) : log[j].name = name => log[j].at # log[i].at}

\* Where the next round, or the real-time stream, of s starts.
ResumeAt(s) == sub[s].lastAt + 1

\* The subscriber at the index of p's loop, and whether p's value is for it.
Target(p) == list[push[p].to][push[p].idx]
BugWanted(p) == push[p].at > since[push[p].to][push[p].idx]
Wanted(p) == push[p].at >= since[push[p].to][push[p].idx]

-----------------------------------------------------------------------------
(* The goroutine of HandleSensorDataRequest: receive, PutSensorValue.      *)

\* A value comes; the hub stamps it if the client did not.
Stamp(p) ==
  /\ push[p].pc = "idle"
  /\ Len(log) + Cardinality({q \in Pushers : push[q].pc = "put"}) < MaxVals
  /\ \E t \in ClientTimes \cup {now + 1} :
       /\ push' = [push EXCEPT ![p].pc = "put", ![p].at = t]
       /\ now' = IF t > now THEN t ELSE now
  /\ UNCHANGED <<log, mutex, list, since, sub, hub>>

PutValue(p) ==
  /\ push[p].pc = "put"
  /\ log' = Append(log, [name |-> push[p].to, by |-> p, at |-> push[p].at])
  /\ push' = [push EXCEPT ![p].pc = "lock", ![p].val = Len(log')]
  /\ UNCHANGED <<now, mutex, list, since, sub, hub>>

\* SensorPublish; the range over the subscribers of a sensor that never had one
\* follows a nil pointer.
PublishLock(p) ==
  /\ push[p].pc = "lock"
  /\ mutex = None
  /\ mutex' = p
  /\ push' = [push EXCEPT ![p].pc = "send", ![p].idx = 1]
  /\ hub' = IF push[p].to \in DOMAIN list THEN hub ELSE "panic"
  /\ UNCHANGED <<now, log, list, since, sub>>

PublishSend(p) ==
  /\ push[p].pc = "send"
  /\ push[p].idx <= Len(list[push[p].to])
  /\ IF Wanted(p)
     THEN /\ ~Full(Target(p))
          /\ sub' = [sub EXCEPT ![Target(p)].sent = Append(@, push[p].val)]
     ELSE UNCHANGED sub
  /\ push' = [push EXCEPT ![p].idx = @ + 1]
  /\ UNCHANGED <<now, log, mutex, list, since, hub>>

PublishUnlock(p) ==
  /\ push[p].pc = "send"
  /\ push[p].idx > Len(list[push[p].to])
  /\ mutex' = None
  /\ push' = [push EXCEPT ![p].pc = "idle"]
  /\ UNCHANGED <<now, log, list, since, sub, hub>>

-----------------------------------------------------------------------------
(* HandleSensorSubRequest, SensorSubscribe and catchUpSensorSubscribe.     *)

Subscribe(s) ==
  /\ sub[s].stream = "none"
  /\ \E n \in Sensors, t \in StartAts :
       sub' = [sub EXCEPT ![s].name = n, ![s].start = t, ![s].lastAt = t,
                          ![s].catchUp = "lock", ![s].stream = "recv"]
  /\ UNCHANGED <<now, log, push, mutex, list, since, hub>>

CatchUpLock(s) ==
  /\ sub[s].catchUp = "lock"
  /\ mutex = None
  /\ mutex' = s
  /\ sub' = [sub EXCEPT ![s].catchUp = "replay", ![s].locked = TRUE, ![s].lastAt = 0,
                        ![s].snap = Replay(sub[s].name, sub[s].lastAt)]
  /\ UNCHANGED <<now, log, push, list, since, hub>>

\* The next value in the order of the keys, sent at once or after having blocked.
CatchUpSend(s) ==
  /\ sub[s].catchUp \in {"replay", "blocked"}
  /\ ~Full(s)
  /\ \E i \in sub[s].snap :
       /\ \A j \in sub[s].snap : log[i].at <= log[j].at
       /\ sub' = [sub EXCEPT ![s].catchUp = "replay", ![s].lastAt = log[i].at,
                             ![s].snap = @ \ {i}, ![s].sent = Append(@, i)]
  /\ UNCHANGED <<now, log, push, mutex, list, since, hub>>

\* The channel is full: give up the mutex, if it is still held, and block.
BugCatchUpBlock(s) ==
  /\ sub[s].catchUp = "replay" /\ sub[s].snap # {} /\ Full(s)
  /\ sub' = [sub EXCEPT ![s].catchUp = "blocked", ![s].locked = FALSE]
  /\ mutex' = None
  /\ UNCHANGED <<now, log, push, list, since, hub>>
CatchUpBlock(s) ==
  /\ sub[s].catchUp = "replay" /\ sub[s].snap # {} /\ Full(s)
  /\ sub' = [sub EXCEPT ![s].catchUp = "blocked", ![s].locked = FALSE]
  /\ mutex' = IF sub[s].locked THEN None ELSE mutex
  /\ UNCHANGED <<now, log, push, list, since, hub>>

CatchUpAgain(s) ==
  /\ sub[s].catchUp = "replay" /\ sub[s].snap = {} /\ ~sub[s].locked
  /\ sub' = [sub EXCEPT ![s].catchUp = "lock", ![s].lastAt = ResumeAt(s)]
  /\ UNCHANGED <<now, log, push, mutex, list, since, hub>>

\* addSensorSubscriber: the maps get entries for the sensor if there are none.
Joined(map, n, x) == Bind(map, n, IF n \in DOMAIN map THEN Append(map[n], x) ELSE <<x>>)

BugCatchUpSwitch(s) ==
  /\ sub[s].catchUp = "replay" /\ sub[s].snap = {} /\ sub[s].locked
  /\ list' = Joined(list, sub[s].name, s)
  /\ since' = Bind(since, sub[s].name, <<ResumeAt(s)>>)
  /\ mutex' = None
  /\ sub' = [sub EXCEPT ![s].catchUp = "done"]
  /\ UNCHANGED <<now, log, push, hub>>
CatchUpSwitch(s) ==
  /\ sub[s].catchUp = "replay" /\ sub[s].snap = {} /\ sub[s].locked
  /\ list' = Joined(list, sub[s].name, s)
  /\ since' = Joined(since, sub[s].name, ResumeAt(s))
  /\ mutex' = None
  /\ sub' = [sub EXCEPT ![s].catchUp = "done"]
  /\ UNCHANGED <<now, log, push, hub>>

-----------------------------------------------------------------------------
(* The streaming goroutine of HandleSensorSubRequest.                      *)

Receive(s) ==
  /\ sub[s].stream = "recv" /\ sub[s].taken < Len(sub[s].sent)
  /\ sub' = [sub EXCEPT ![s].stream = "send", ![s].taken = @ + 1]
  /\ UNCHANGED <<now, log, push, mutex, list, since, hub>>

Sent(s) ==
  /\ sub[s].stream = "send"
  /\ \E next \in IF s \in MayFail THEN {"recv", "unsubscribe"} ELSE {"recv"} :
       sub' = [sub EXCEPT ![s].stream = next]
  /\ UNCHANGED <<now, log, push, mutex, list, since, hub>>

\* The channel of s in the list of sensor n.
At(s, n) == {i \in 1 .. Len(list[n]) : list[n][i] = s}

\* SensorUnsubscribe looks for the channel in the lists of all sensors, in any
\* order, until it is found.  After each list removeSensorSubscriber compares
\* the length of the list with the number of sensors, and aborts the hub.
Mismatch(n) == Len(list'[n]) # Cardinality(DOMAIN since')

Close(s) ==
  sub' = [sub EXCEPT ![s].stream = "drain",
                     ![s].closed = \E n \in DOMAIN list : At(s, n) # {}]

Unsubscribe(s) ==
  /\ sub[s].stream = "unsubscribe"
  /\ mutex = None
  /\ list' = [n \in DOMAIN list |-> IF At(s, n) = {} THEN list[n]
                                    ELSE RemoveAt(list[n], Min(At(s, n)))]
  /\ since' = [n \in DOMAIN since |-> IF At(s, n) = {} THEN since[n]
                                      ELSE RemoveAt(since[n], Min(At(s, n)))]
  /\ Close(s)
  /\ \E searched \in SUBSET DOMAIN list :
       /\ \/ searched = DOMAIN list
          \/ \E n \in searched : At(s, n) # {}
       /\ hub' = IF \E n \in searched : Mismatch(n) THEN "fatal" ELSE hub
  /\ UNCHANGED <<now, log, push, mutex>>

Drain(s) ==
  /\ sub[s].stream = "drain"
  /\ \/ sub[s].taken < Len(sub[s].sent) /\ sub' = [sub EXCEPT ![s].taken = @ + 1]
     \/ /\ sub[s].taken = Len(sub[s].sent) /\ sub[s].closed
        /\ sub' = [sub EXCEPT ![s].stream = "done"]
  /\ UNCHANGED <<now, log, push, mutex, list, since, hub>>

-----------------------------------------------------------------------------
Publish(p) == PublishLock(p) \/ PublishSend(p) \/ PublishUnlock(p)

CatchUp(s) ==
  CatchUpLock(s) \/ CatchUpSend(s) \/ CatchUpBlock(s) \/ CatchUpAgain(s) \/ CatchUpSwitch(s)

Stream(s) == Receive(s) \/ Sent(s) \/ Unsubscribe(s) \/ Drain(s)

Next ==
  /\ hub = "up"
  /\ \/ \E p \in Pushers : Stamp(p) \/ PutValue(p) \/ Publish(p)
     \/ \E s \in Subs : Subscribe(s) \/ CatchUp(s) \/ Stream(s)

Spec == Init /\ [][Next]_vars
================================================================================
