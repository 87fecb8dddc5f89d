------------------------------ MODULE RFStream ------------------------------
(***************************************************************************)
(* What a subscription to the RF messages promises its client, without     *)
(* goroutines, locks or channels: the hub stores a growing log of          *)
(* messages; a client that subscribed with a start time gets the messages  *)
(* from that time on in the order they were stored, none missing.  A       *)
(* message may come twice in a row, which is what the hub really does at   *)
(* the switch from replay to real time (see RFSubscribe).                  *)
(*                                                                         *)
(* A message is its position in the log; log[n] is its time stamp.         *)
(***************************************************************************)
EXTENDS Integers, Sequences

CONSTANTS
  Subs,      \* the subscriptions
  StartAts,  \* the start times a request may carry
  Ticks,     \* by how much the time may move between two messages
  MaxMsgs    \* bound on the number of messages

VARIABLES
  log,       \* the time stamps of the messages stored so far
  start,     \* the start time of each subscription, or NotSubscribed
  got        \* the messages handed to each client

vars == <<log, start, got>>

NotSubscribed == -1

Init ==
  /\ log = <<>>
  /\ start = [s \in Subs |-> NotSubscribed]
  /\ got = [s \in Subs |-> <<>>]

\* The time of the last message; every time stamp is above 0.
Now == IF log = <<>> THEN 1 ELSE log[Len(log)]

Put ==
  /\ Len(log) < MaxMsgs
  /\ \E d \in Ticks : log' = Append(log, Now + d)
  /\ UNCHANGED <<start, got>>

Subscribe(s) ==
  /\ start[s] = NotSubscribed
  /\ \E t \in StartAts : start' = [start EXCEPT ![s] = t]
  /\ UNCHANGED <<log, got>>

\* Message n may come next: it skips nothing the client asked for.
MayFollow(s, n) ==
  IF got[s] = <<>>
  THEN \A m \in 1 .. n - 1 : log[m] < start[s]
  ELSE n - got[s][Len(got[s])] \in {0, 1}

Deliver(s) ==
  /\ start[s] # NotSubscribed
  /\ \E n \in 1 .. Len(log) :
       /\ MayFollow(s, n)
       /\ got' = [got EXCEPT ![s] = Append(@, n)]
  /\ UNCHANGED <<log, start>>

Next == Put \/ \E s \in Subs : Subscribe(s) \/ Deliver(s)

Spec == Init /\ [][Next]_vars
=============================================================================
