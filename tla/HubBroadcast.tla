------------------------------ MODULE HubBroadcast ------------------------------
(* What the hub promises about the messages it has accepted (and may have        *)
(* acknowledged): every processor handles all of them, in the order they came   *)
(* in, and is never more than Window of them behind, which is all that a crash   *)
(* of the hub can lose.                                                          *)
EXTENDS Naturals, Sequences

CONSTANTS
  Procs,     \* the processors
  Window     \* how far a processor may be behind

VARIABLES
  accepted,  \* number of messages accepted; they are numbered from 1
  handled    \* handled[p]: the messages processor p has handled, in order

vars == <<accepted, handled>>

Init == accepted = 0 /\ handled = [p \in Procs |-> <<>>]

Accept ==
  /\ \A p \in Procs : accepted - Len(handled[p]) < Window
  /\ accepted' = accepted + 1
  /\ UNCHANGED handled

Handle(p) ==
  /\ Len(handled[p]) < accepted
  /\ handled' = [handled EXCEPT ![p] = Append(@, Len(@) + 1)]
  /\ UNCHANGED accepted

Next == Accept \/ \E p \in Procs : Handle(p)

\* What it may do, and that every processor goes on.
Safety == Init /\ [][Next]_vars
Spec == Safety /\ \A p \in Procs : WF_vars(Handle(p))
=================================================================================
