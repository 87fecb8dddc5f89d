---------------------------------- MODULE Boot ----------------------------------
(***************************************************************************)
(* The boot server of the hub (hub/boot_data.go, boot_proto.go and their   *)
(* callers in udpgw.go): a node asks for its type and address, for the     *)
(* size and CRC of its software, then for one chunk after the other.  The  *)
(* Receiver goroutine answers from the configuration and a cache of parsed *)
(* hex files; another goroutine reloads them when files change.  They share*)
(* the maps without a lock.                                                *)
(*                                                                         *)
(* One type of node with its hex file.  A software is a sequence of chunks *)
(* and its CRC is ideal: it tells any two apart.                           *)
(***************************************************************************)
EXTENDS Integers, Sequences, SequencesExt

CONSTANTS
  Versions,    \* the versions of the software that are written to the file
  MaxChanges,  \* bound on the changes of the file
  MaxReloads,  \* bound on the changes of the configuration
  MaxFlight,   \* bound on the packets on their way in one direction
  None         \* no entry, nothing

ASSUME ConstantsAssumption ==
  /\ \A v \in Versions : v \in Seq(Range(v)) \ {<<>>} /\ None \notin Prefixes(v)
  /\ MaxChanges \in Nat /\ MaxReloads \in Nat /\ MaxFlight \in Nat \ {0}

VARIABLES
  disk,     \* the hex file: the chunks, and whether its last line is whole
  writing,  \* the version being written, or None
  changes,  \* the number of changes of the file
  config,   \* what the configuration file has: "none", "pairing" or "both" parts
  reloads,  \* the number of changes of the configuration
  events,   \* the events of the file watcher
  watch,    \* the watcher goroutine: where it is, and what it has read
  pairing,  \* whether the map "nodeType" has an entry for the node
  sketch,   \* whether the map "sketch" has the node's type
  cache,    \* its entry in the map "software"
  recv,     \* the Receiver: where it is, the request, what it has read
  reqs,     \* the requests on their way to the hub
  replies,  \* the replies on their way to the node
  node,     \* the boot loader: whether it knows its type, what it was announced,
            \* the chunks it got, what it installed
  hub,      \* "up", or "dead" of two goroutines in one map
  was,      \* history: what a complete reading of the file could have returned
  early     \* history: the file changed while it was not in the cache

fileVars == <<disk, writing, changes, config, reloads, was, early>>
nodeVars == <<reqs, replies, node>>
maps == <<pairing, sketch, cache>>
vars == <<fileVars, events, watch, maps, recv, nodeVars, hub>>

Init ==
  /\ \E v \in Versions : disk = [sw |-> v, whole |-> TRUE] /\ was = {v}
  /\ writing = None /\ changes = 0
  /\ config = "both" /\ reloads = 0
  /\ events = <<"config">>
  /\ watch = [pc |-> "idle", sw |-> None]
  /\ pairing = FALSE /\ sketch = FALSE /\ cache = None
  /\ recv = [pc |-> "idle", req |-> None, sw |-> None]
  /\ reqs = <<>> /\ replies = <<>>
  /\ node = [paired |-> FALSE, want |-> None, got |-> <<>>, runs |-> None]
  /\ hub = "up" /\ early = FALSE

-----------------------------------------------------------------------------
(* The files.  Every change makes an event.                                *)

Change(d) ==
  /\ disk' = d
  /\ was' = IF d.whole THEN was \cup {d.sw} ELSE was
  /\ early' = (early \/ cache = None)
  /\ events' = Append(events, "hex")
  /\ UNCHANGED <<config, reloads, watch, maps, recv, nodeVars, hub>>

\* A new version, moved into place or written there: then only a part of it is
\* there for a while, which may end within a line.
NewVersion ==
  /\ writing = None /\ changes < MaxChanges
  /\ changes' = changes + 1
  /\ \E v \in Versions \ {disk.sw} :
       \/ Change([sw |-> v, whole |-> TRUE]) /\ UNCHANGED writing
       \/ /\ \E n \in 0 .. Len(v) - 1, w \in BOOLEAN :
               Change([sw |-> SubSeq(v, 1, n), whole |-> w])
          /\ writing' = v

Complete ==
  /\ writing # None
  /\ Change([sw |-> writing, whole |-> TRUE])
  /\ writing' = None
  /\ UNCHANGED changes

EditConfig ==
  /\ reloads < MaxReloads
  /\ reloads' = reloads + 1
  /\ config' \in {"none", "pairing", "both"}
  /\ events' = Append(events, "config")
  /\ UNCHANGED <<disk, writing, changes, was, early, watch, maps, recv, nodeVars,
                 hub>>

\* readHex: a file whose last line is cut off is an error.
BugReadHex == disk.sw
ReadHex == IF disk.whole THEN disk.sw ELSE None

-----------------------------------------------------------------------------
(* The watcher goroutine.                                                  *)

\* An event of the configuration: forget the maps, in the order of the code.
WatchConfig ==
  /\ watch.pc = "idle" /\ events # <<>> /\ Head(events) = "config"
  /\ events' = Tail(events)
  /\ pairing' = FALSE /\ sketch' = FALSE
  /\ watch' = [watch EXCEPT !.pc = "forget"]
  /\ UNCHANGED <<fileVars, cache, recv, nodeVars, hub>>

WatchForget ==
  /\ watch.pc = "forget"
  /\ cache' = None
  /\ watch' = [watch EXCEPT !.pc = "pairing"]
  /\ UNCHANGED <<fileVars, events, pairing, sketch, recv, nodeVars, hub>>

\* readBootConfig: the file is read, and its first part decoded; then the second,
\* if both are there.
WatchPairing ==
  /\ watch.pc = "pairing"
  /\ pairing' = (config # "none")
  /\ watch' = [watch EXCEPT !.pc = IF config = "both" THEN "load" ELSE "idle"]
  /\ UNCHANGED <<fileVars, events, sketch, cache, recv, nodeVars, hub>>

WatchLoad ==
  /\ watch.pc = "load"
  /\ sketch' = TRUE
  /\ watch' = [watch EXCEPT !.pc = "idle"]
  /\ UNCHANGED <<fileVars, events, pairing, cache, recv, nodeVars, hub>>

\* An event of the hex file: read it again if it is in the cache.
BugWatchHex ==
  /\ watch.pc = "idle" /\ events # <<>> /\ Head(events) = "hex"
  /\ events' = Tail(events)
  /\ watch' = [watch EXCEPT !.pc = IF cache = None THEN "read" ELSE "idle"]
  /\ UNCHANGED <<fileVars, maps, recv, nodeVars, hub>>
WatchHex ==
  /\ watch.pc = "idle" /\ events # <<>> /\ Head(events) = "hex"
  /\ events' = Tail(events)
  /\ watch' = [watch EXCEPT !.pc = IF cache # None THEN "read" ELSE "idle"]
  /\ UNCHANGED <<fileVars, maps, recv, nodeVars, hub>>

WatchRead ==
  /\ watch.pc = "read"
  /\ watch' = IF ReadHex = None THEN [watch EXCEPT !.pc = "idle"]
              ELSE [pc |-> "store", sw |-> ReadHex]
  /\ UNCHANGED <<fileVars, events, maps, recv, nodeVars, hub>>

WatchStore ==
  /\ watch.pc = "store"
  /\ cache' = watch.sw
  /\ watch' = [pc |-> "idle", sw |-> None]
  /\ UNCHANGED <<fileVars, events, pairing, sketch, recv, nodeVars, hub>>

-----------------------------------------------------------------------------
(* The Receiver goroutine: Pair; Upgrade and Download with findSoftware.   *)

\* The answer to a pairing request: the node's entry or the default one; zeros, which
\* mean unpaired, while there is neither.
Pair == -2
Entry == IF pairing THEN <<"entry">> ELSE <<>>
PairingReply == [ix |-> Pair, size |-> 0, data |-> Entry]

\* The answer to a request out of the software sw: its size and CRC, or a chunk
\* of it; none to a request beyond its end.
Upgrade == -1
Announcement(sw) == [ix |-> 0, size |-> Len(sw), data |-> sw]
BugChunk(i, sw) == [ix |-> i, size |-> 0, data |-> sw[1]]
Chunk(i, sw) == [ix |-> i, size |-> 0, data |-> sw[i]]

Answer(req, sw) ==
  IF req = Upgrade THEN <<Announcement(sw)>>
  ELSE IF req < Len(sw) THEN <<Chunk(req + 1, sw)>> ELSE <<>>

Send(answer) ==
  replies' = IF Len(replies) < MaxFlight THEN replies \o answer ELSE replies

Reply(sw) ==
  /\ Send(Answer(recv.req, sw))
  /\ recv' = [pc |-> "idle", req |-> None, sw |-> None]

RecvPair ==
  /\ recv.pc = "idle" /\ reqs # <<>> /\ Head(reqs) = Pair
  /\ reqs' = Tail(reqs)
  /\ Send(<<PairingReply>>)
  /\ UNCHANGED <<fileVars, events, watch, maps, recv, node, hub>>

\* Without a sketch there is no reply.
RecvRequest ==
  /\ recv.pc = "idle" /\ reqs # <<>> /\ Head(reqs) # Pair
  /\ reqs' = Tail(reqs)
  /\ recv' = IF sketch THEN [recv EXCEPT !.pc = "lookup", !.req = Head(reqs)] ELSE recv
  /\ UNCHANGED <<fileVars, events, watch, maps, replies, node, hub>>

RecvLookup ==
  /\ recv.pc = "lookup"
  /\ IF cache # None THEN Reply(cache)
     ELSE recv' = [recv EXCEPT !.pc = "read"] /\ UNCHANGED replies
  /\ UNCHANGED <<fileVars, events, watch, maps, reqs, node, hub>>

BugRecvRead ==
  /\ recv.pc = "read"
  /\ recv' = [recv EXCEPT !.pc = "store", !.sw = ReadHex]
  /\ UNCHANGED <<fileVars, events, watch, maps, nodeVars, hub>>
RecvRead ==
  /\ recv.pc = "read"
  /\ recv' = IF ReadHex = None THEN [pc |-> "idle", req |-> None, sw |-> None]
             ELSE [recv EXCEPT !.pc = "store", !.sw = ReadHex]
  /\ UNCHANGED <<fileVars, events, watch, maps, nodeVars, hub>>

RecvStore ==
  /\ recv.pc = "store"
  /\ cache' = recv.sw
  /\ recv' = [recv EXCEPT !.pc = "fetch"]
  /\ UNCHANGED <<fileVars, events, watch, pairing, sketch, nodeVars, hub>>

\* findSoftware looks the software up again; what is not there is empty.
RecvFetch ==
  /\ recv.pc = "fetch"
  /\ Reply(IF cache = None THEN <<>> ELSE cache)
  /\ UNCHANGED <<fileVars, events, watch, maps, reqs, node, hub>>

\* Both goroutines are in the map at once and one writes: Go may stop the hub.
MapRace ==
  /\ \/ watch.pc = "store" /\ recv.pc \in {"lookup", "store", "fetch"}
     \/ watch.pc = "forget" /\ recv.pc = "store"
     \/ watch.pc = "idle" /\ events # <<>> /\ recv.pc = "store"
     \/ /\ recv.pc = "idle" /\ reqs # <<>>
        /\ watch.pc = IF Head(reqs) = Pair THEN "pairing" ELSE "load"
  /\ hub' = "dead"
  /\ UNCHANGED <<fileVars, events, watch, maps, recv, nodeVars>>

-----------------------------------------------------------------------------
(* The boot loader of the node, as the replies are made for it.            *)

\* It asks, and asks again, for what it needs next.
Ask ==
  /\ Len(reqs) < MaxFlight
  /\ reqs' = Append(reqs, IF ~node.paired THEN Pair
                          ELSE IF node.want = None THEN Upgrade ELSE Len(node.got))
  /\ UNCHANGED <<fileVars, events, watch, maps, recv, replies, node, hub>>

\* It takes its type and address, unless they are zero ...
Pairs(r) == r.ix = Pair /\ r.data # <<>>

\* ... the announcement of a software that it does not run.
Announces(r) == r.ix = 0 /\ node.want = None /\ r.size > 0 /\ r.data # node.runs

\* ... and the chunks in their order; with the last it checks the CRC.
Continues(r) == r.ix > 0 /\ node.want # None /\ r.ix = Len(node.got) + 1
Finishes(r) == Continues(r) /\ r.ix = node.want.size

TakeReply ==
  /\ replies # <<>>
  /\ replies' = Tail(replies)
  /\ LET r == Head(replies)
         got == Append(node.got, r.data)
     IN \/ /\ Pairs(r)
           /\ node' = [node EXCEPT !.paired = TRUE]
        \/ /\ Announces(r)
           /\ node' = [node EXCEPT !.want = [size |-> r.size, crc |-> r.data]]
        \/ /\ Continues(r) /\ ~Finishes(r)
           /\ node' = [node EXCEPT !.got = got]
        \/ /\ Finishes(r)
           /\ node' = [node EXCEPT !.want = None, !.got = <<>>,
                                   !.runs = IF got = node.want.crc THEN got ELSE @]
        \/ ~Pairs(r) /\ ~Announces(r) /\ ~Continues(r) /\ UNCHANGED node
  /\ UNCHANGED <<fileVars, events, watch, maps, recv, reqs, hub>>

\* A download that gets no further is given up.
GiveUp ==
  /\ node.want # None
  /\ node' = [node EXCEPT !.want = None, !.got = <<>>]
  /\ UNCHANGED <<fileVars, events, watch, maps, recv, reqs, replies, hub>>

Lose ==
  /\ \/ reqs # <<>> /\ reqs' = Tail(reqs) /\ UNCHANGED replies
     \/ replies # <<>> /\ replies' = Tail(replies) /\ UNCHANGED reqs
  /\ UNCHANGED <<fileVars, events, watch, maps, recv, node, hub>>

-----------------------------------------------------------------------------
Watcher ==
  WatchConfig \/ WatchForget \/ WatchPairing \/ WatchLoad \/ WatchHex \/ WatchRead \/ WatchStore
Receiver == RecvPair \/ RecvRequest \/ RecvLookup \/ RecvRead \/ RecvStore \/ RecvFetch

Next ==
  /\ hub = "up"
  /\ \/ NewVersion \/ Complete \/ EditConfig
     \/ Watcher \/ Receiver \/ MapRace
     \/ Ask \/ TakeReply \/ GiveUp \/ Lose

Spec == Init /\ [][Next]_vars

\* Go runs both goroutines, and a file that is being written is completed.
FairSpec ==
  Spec /\ WF_vars(hub = "up" /\ Watcher) /\ WF_vars(hub = "up" /\ Receiver)
       /\ WF_vars(hub = "up" /\ Complete)
=================================================================================
