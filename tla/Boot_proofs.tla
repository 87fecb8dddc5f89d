------------------------------- MODULE Boot_proofs -------------------------------
(* Proofs about the boot server for all versions of the software, any number of   *)
(* changes of the files, and any loss of requests and replies.                    *)
EXTENDS BootProps, SequenceTheorems, TLAPS

-----------------------------------------------------------------------------
(* The inductive invariant of the proofs.                                    *)

Requests == Nat \cup {Upgrade, Pair}
Waiting == [pc : {"idle", "lookup", "read"}, req : Requests \cup {None}, sw : {None}]
Loaded == [pc : {"store", "fetch"}, req : Requests, sw : was]

\* Whatever a goroutine has read and the map holds is a complete reading of the
\* file at one moment; and there was one moment only before the first change.
HubSide ==
  /\ was \subseteq Readable /\ disk \in [sw : Readable, whole : BOOLEAN]
  /\ disk.whole => disk.sw \in was
  /\ writing \in Versions \cup {None} /\ changes \in 0 .. MaxChanges
  /\ changes = 0 => was = {disk.sw} /\ writing = None
  /\ config \in {"none", "pairing", "both"} /\ reloads \in 0 .. MaxReloads
  /\ events \in Seq({"config", "hex"})
  /\ pairing \in BOOLEAN /\ sketch \in BOOLEAN /\ hub \in {"up", "dead"}
  /\ cache \in was \cup {None}
  /\ watch \in [pc : {"idle", "forget", "pairing", "load", "read"}, sw : {None}]
              \cup [pc : {"store"}, sw : was]
  /\ recv \in Waiting \cup Loaded
  /\ recv.pc # "idle" => recv.req \in Nat \cup {Upgrade}

\* An announcement is that of a complete reading; a chunk is one of the file as
\* long as nothing changes the file.
ReplyOK(r) ==
  \/ r \in Paired
  \/ r \in Announced /\ r.size = Len(r.data) /\ r.data \in was \cup {<<>>}
  \/ r \in ChunkSent /\ (changes = 0 => r.data = disk.sw[r.ix])

Flight ==
  /\ reqs \in Seq(Requests) /\ Len(reqs) <= MaxFlight
  /\ replies \in Seq(Paired \cup Announced \cup ChunkSent) /\ Len(replies) <= MaxFlight
  /\ \A i \in 1 .. Len(replies) : ReplyOK(replies[i])

\* What the node wants is what was announced, and what it has got is a part of the
\* file as long as nothing changes the file.
NodeSide ==
  /\ node \in [paired : BOOLEAN, want : [size : Nat, crc : Readable] \cup {None},
               got : Seq(ChunksOf), runs : Readable \cup {None}]
  /\ node.want = None => node.got = <<>>
  /\ node.want # None =>
       /\ node.want.crc \in was /\ node.want.size = Len(node.want.crc)
       /\ Len(node.got) < node.want.size
  /\ node.runs # None => node.runs \in was
  /\ changes = 0 => \A i \in 1 .. Len(node.got) : node.got[i] = disk.sw[i]

BootInv == HubSide /\ Flight /\ NodeSide

-----------------------------------------------------------------------------
(* The parts of a file.                                                      *)

\* What can be read of a version that is being written is a sequence of its chunks,
\* and never looks like no file at all; a version can be read as a whole.
LEMMA ReadableSoftware ==
  /\ Readable \subseteq Seq(ChunksOf) /\ None \notin Readable
  /\ \A v \in Versions : v \in Readable
  /\ \A v \in Versions : \A n \in 0 .. Len(v) : SubSeq(v, 1, n) \in Readable
<1>1. ASSUME NEW v \in Versions
      PROVE  /\ v \in Seq(ChunksOf) /\ Len(v) \in Nat
             /\ Range(v) \subseteq ChunksOf /\ v \in Seq(Range(v)) /\ None \notin Prefixes(v)
  <2>1. v \in Seq(Range(v)) /\ None \notin Prefixes(v)
    BY ConstantsAssumption
  <2>2. Range(v) \subseteq ChunksOf
    BY DEF ChunksOf
  <2>3. QED
    BY <2>1, <2>2
<1>2. ASSUME NEW v \in Versions, NEW n \in 0 .. Len(v)
      PROVE  SubSeq(v, 1, n) \in Readable /\ SubSeq(v, 1, n) \in Seq(ChunksOf)
  <2>1. SubSeq(v, 1, n) \in Prefixes(v)
    BY DEF Prefixes
  <2>2. SubSeq(v, 1, n) \in Readable
    BY <2>1 DEF Readable
  <2>3. \A i \in 1 .. n : v[i] \in ChunksOf
    BY <1>1
  <2>4. SubSeq(v, 1, n) \in Seq(ChunksOf)
    BY <1>1, <2>3, SubSeqProperties
  <2>5. QED
    BY <2>2, <2>4
<1>3. ASSUME NEW v \in Versions PROVE v \in Readable
  <2>1. SubSeq(v, 1, Len(v)) = v /\ Len(v) \in 0 .. Len(v)
    BY <1>1, SubSeqFull
  <2>2. QED
    BY <1>1, <1>2, <2>1
<1>4. ASSUME NEW sw \in Readable PROVE sw \in Seq(ChunksOf) /\ sw # None
  <2>1. PICK v \in Versions : sw \in Prefixes(v)
    BY DEF Readable
  <2>2. PICK n \in 0 .. Len(v) : sw = SubSeq(v, 1, n)
    BY <2>1 DEF Prefixes
  <2>3. QED
    BY <1>1, <1>2, <2>1, <2>2
<1>5. QED
  BY <1>2, <1>3, <1>4

\* The empty file can be read whenever any file can.
LEMMA EmptyReadable ==
  ASSUME NEW sw \in Readable
  PROVE  <<>> \in Readable
<1>1. PICK v \in Versions : sw \in Prefixes(v)
  BY DEF Readable
<1>2. v \in Seq(Range(v)) /\ Len(v) \in Nat
  BY ConstantsAssumption
<1>3. SubSeq(v, 1, 0) \in Readable /\ SubSeq(v, 1, 0) = <<>>
  BY <1>2, ReadableSoftware, SubSeqEmpty
<1>4. QED
  BY <1>3

-----------------------------------------------------------------------------
(* The initial state.                                                        *)

LEMMA BootInit == Init => BootInv
<1>1. SUFFICES ASSUME Init PROVE BootInv
  OBVIOUS
<1>2. PICK v \in Versions : disk = [sw |-> v, whole |-> TRUE] /\ was = {v}
  BY <1>1 DEF Init
<1>3. v \in Readable
  BY ReadableSoftware
<1>4. HubSide
  <2>1. recv \in Waiting /\ recv.pc = "idle"
    BY <1>1 DEF Init, Waiting
  <2>2. events \in Seq({"config", "hex"})
    BY <1>1 DEF Init
  <2>3. changes \in 0 .. MaxChanges /\ reloads \in 0 .. MaxReloads
    BY <1>1, ConstantsAssumption DEF Init
  <2>4. QED
    BY <1>1, <1>2, <1>3, <2>1, <2>2, <2>3 DEF Init, HubSide
<1>5. Flight
  BY <1>1, ConstantsAssumption DEF Init, Flight
<1>6. NodeSide
  BY <1>1 DEF Init, NodeSide
<1>7. QED
  BY <1>4, <1>5, <1>6 DEF BootInv

-----------------------------------------------------------------------------
(* The files and the hub.                                                    *)

\* What readHex returns is a complete reading, or nothing.
LEMMA ReadHexSource ==
  ASSUME HubSide
  PROVE  ReadHex \in was \cup {None}
BY DEF HubSide, ReadHex

LEMMA ChangeStep ==
  ASSUME HubSide, NEW d \in [sw : Readable, whole : BOOLEAN], Change(d),
         changes' \in 1 .. MaxChanges, writing' \in Versions \cup {None}
  PROVE  HubSide' /\ was \subseteq was'
<1>1. /\ disk' = d /\ was' = (IF d.whole THEN was \cup {d.sw} ELSE was)
      /\ UNCHANGED <<config, reloads, watch, pairing, sketch, cache, recv, hub>>
  BY DEF Change, maps
<1>2. events' \in Seq({"config", "hex"})
  BY DEF Change, HubSide
<1>3. was \subseteq was' /\ was' \subseteq Readable /\ (disk'.whole => disk'.sw \in was')
  BY <1>1 DEF HubSide
<1>4. recv' \in Waiting \cup [pc : {"store", "fetch"}, req : Requests, sw : was']
  BY <1>1, <1>3 DEF HubSide, Loaded
<1>5. watch' \in [pc : {"idle", "forget", "pairing", "load", "read"}, sw : {None}]
                 \cup [pc : {"store"}, sw : was']
  BY <1>1, <1>3 DEF HubSide
<1>6. QED
  BY <1>1, <1>2, <1>3, <1>4, <1>5 DEF HubSide, Waiting, Loaded

\* Only a change of the file changes what could have been read.
LEMMA NewVersionStep ==
  ASSUME HubSide, NewVersion
  PROVE  HubSide' /\ was \subseteq was' /\ changes' # 0
<1>1. changes' \in 1 .. MaxChanges /\ changes' # 0 /\ writing = None
  BY ConstantsAssumption DEF NewVersion, HubSide
<1>2. PICK v \in Versions :
        \/ Change([sw |-> v, whole |-> TRUE]) /\ UNCHANGED writing
        \/ /\ \E n \in 0 .. Len(v) - 1, w \in BOOLEAN :
                Change([sw |-> SubSeq(v, 1, n), whole |-> w])
           /\ writing' = v
  BY DEF NewVersion
<1>3. v \in Readable
  BY ReadableSoftware
<1>4. CASE Change([sw |-> v, whole |-> TRUE]) /\ UNCHANGED writing
  BY <1>1, <1>3, <1>4, ChangeStep
<1>5. ASSUME NEW n \in 0 .. Len(v) - 1, NEW w \in BOOLEAN, writing' = v,
             Change([sw |-> SubSeq(v, 1, n), whole |-> w])
      PROVE  HubSide' /\ was \subseteq was'
  <2>1. Len(v) \in Nat
    BY ConstantsAssumption
  <2>2. SubSeq(v, 1, n) \in Readable
    BY <2>1, ReadableSoftware
  <2>3. QED
    BY <1>1, <1>5, <2>2, ChangeStep
<1>6. QED
  BY <1>1, <1>2, <1>4, <1>5

LEMMA CompleteStep ==
  ASSUME HubSide, Complete
  PROVE  HubSide' /\ was \subseteq was' /\ changes' # 0
<1>1. /\ writing \in Versions /\ writing' = None /\ changes' = changes
      /\ Change([sw |-> writing, whole |-> TRUE])
  BY DEF Complete, HubSide
<1>2. changes' \in 1 .. MaxChanges /\ changes' # 0
  BY <1>1, ConstantsAssumption DEF HubSide, Complete
<1>3. writing \in Readable
  BY <1>1, ReadableSoftware
<1>4. QED
  BY <1>1, <1>2, <1>3, ChangeStep

\* The watcher and the Receiver change no file.
LEMMA WatcherStep ==
  ASSUME HubSide, Watcher \/ EditConfig
  PROVE  HubSide' /\ UNCHANGED <<was, changes, disk, writing>>
<1>0. ReadHex \in was \cup {None}
  BY ReadHexSource
<1>1. CASE EditConfig
  <2>1. events' \in Seq({"config", "hex"}) /\ reloads' \in 0 .. MaxReloads
    BY <1>1, ConstantsAssumption DEF EditConfig, HubSide
  <2>2. QED
    BY <1>1, <2>1 DEF EditConfig, HubSide, maps, Waiting, Loaded
<1>2. ASSUME WatchConfig \/ WatchHex PROVE events' \in Seq({"config", "hex"})
  <2>1. events \in Seq({"config", "hex"}) /\ events # <<>> /\ events' = Tail(events)
    BY <1>2 DEF HubSide, WatchConfig, WatchHex
  <2>2. QED
    BY <2>1, HeadTailProperties
<1>3. CASE WatchConfig
  BY <1>2, <1>3 DEF WatchConfig, HubSide, fileVars, Waiting, Loaded
<1>4. CASE WatchForget
  BY <1>4, SMTT(30) DEF WatchForget, HubSide, fileVars, Waiting, Loaded
<1>5. CASE WatchPairing
  BY <1>5 DEF WatchPairing, HubSide, fileVars, Waiting, Loaded
<1>6. CASE WatchLoad
  BY <1>6 DEF WatchLoad, HubSide, fileVars, Waiting, Loaded
<1>7. CASE WatchHex
  BY <1>2, <1>7 DEF WatchHex, HubSide, fileVars, maps, Waiting, Loaded
<1>8. CASE WatchRead
  BY <1>0, <1>8 DEF WatchRead, HubSide, fileVars, maps, Waiting, Loaded
<1>9. CASE WatchStore
  BY <1>9 DEF WatchStore, HubSide, fileVars, Waiting, Loaded
<1>10. QED
  BY <1>1, <1>3, <1>4, <1>5, <1>6, <1>7, <1>8, <1>9 DEF Watcher

LEMMA ReceiverStep ==
  ASSUME HubSide, Flight, Receiver
  PROVE  HubSide' /\ UNCHANGED <<was, changes, disk, writing>>
<1>0. ReadHex \in was \cup {None}
  BY ReadHexSource
<1>1. CASE RecvPair
  BY <1>1 DEF RecvPair, HubSide, fileVars, maps, Waiting, Loaded
<1>2. CASE RecvRequest
  <2>1. Head(reqs) \in Requests /\ Head(reqs) # Pair
    BY <1>2, HeadTailProperties DEF Flight, RecvRequest
  <2>2. recv \in Waiting /\ recv.pc = "idle"
    BY <1>2 DEF RecvRequest, HubSide, Loaded
  <2>3. recv' \in Waiting /\ (recv'.pc # "idle" => recv'.req \in Nat \cup {Upgrade})
    BY <1>2, <2>1, <2>2 DEF RecvRequest, Waiting, Requests
  <2>4. QED
    BY <1>2, <2>3 DEF RecvRequest, HubSide, fileVars, maps, Loaded, Waiting
<1>3. CASE RecvLookup
  <2>1. recv \in Waiting /\ recv.pc = "lookup"
    BY <1>3 DEF RecvLookup, HubSide, Loaded
  <2>2. recv' \in Waiting /\ (recv'.pc # "idle" => recv'.req = recv.req)
    BY <1>3, <2>1 DEF RecvLookup, Reply, Waiting
  <2>3. QED
    BY <1>3, <2>1, <2>2 DEF RecvLookup, HubSide, fileVars, maps, Loaded, Waiting
<1>4. CASE RecvRead
  <2>1. recv \in Waiting /\ recv.pc = "read" /\ recv.req \in Nat \cup {Upgrade}
    BY <1>4 DEF RecvRead, HubSide, Loaded
  <2>2. recv' \in Waiting \cup Loaded /\ (recv'.pc # "idle" => recv'.req = recv.req)
    BY <1>0, <1>4, <2>1 DEF RecvRead, Waiting, Loaded, Requests
  <2>3. QED
    BY <1>4, <2>1, <2>2 DEF RecvRead, HubSide, fileVars, maps, Loaded, Waiting
<1>5. CASE RecvStore
  <2>1. recv \in Loaded /\ recv.sw \in was /\ recv.req \in Nat \cup {Upgrade}
    BY <1>5 DEF RecvStore, HubSide, Loaded, Waiting
  <2>2. recv' \in Loaded /\ recv'.req = recv.req
    BY <1>5, <2>1 DEF RecvStore, Loaded
  <2>3. QED
    BY <1>5, <2>1, <2>2 DEF RecvStore, HubSide, fileVars, Loaded, Waiting
<1>6. CASE RecvFetch
  <2>1. recv' \in Waiting /\ recv'.pc = "idle"
    BY <1>6 DEF RecvFetch, Reply, Waiting
  <2>2. QED
    BY <1>6, <2>1 DEF RecvFetch, HubSide, fileVars, maps, Loaded, Waiting
<1>7. QED
  BY <1>1, <1>2, <1>3, <1>4, <1>5, <1>6 DEF Receiver

\* The hub's part of the invariant is kept; what could have been read never gets
\* less, and the first reading is the only one until the file changes.
LEMMA HubSideStep ==
  ASSUME HubSide, Flight, [Next]_vars
  PROVE  /\ HubSide' /\ was \subseteq was'
         /\ changes' = 0 => changes = 0 /\ disk' = disk
<1>1. CASE MapRace \/ Ask \/ TakeReply \/ GiveUp \/ Lose \/ UNCHANGED vars
  <2>1. /\ UNCHANGED <<was, changes, disk, writing, config, reloads, events, pairing, sketch>>
        /\ UNCHANGED <<cache, watch, recv>> /\ hub' \in {hub, "dead"}
    BY <1>1 DEF MapRace, Ask, TakeReply, GiveUp, Lose, vars, fileVars, maps
  <2>2. QED
    BY <2>1 DEF HubSide, Waiting, Loaded
<1>2. QED
  BY <1>1, NewVersionStep, CompleteStep, WatcherStep, ReceiverStep DEF Next

-----------------------------------------------------------------------------
(* The requests and replies on their way.                                    *)

Replies == Paired \cup Announced \cup ChunkSent

LEMMA ReplyStays ==
  ASSUME NEW r, ReplyOK(r), was \subseteq was', changes' = 0 => changes = 0 /\ disk' = disk
  PROVE  ReplyOK(r)'
BY DEF ReplyOK

\* What Upgrade and Download answer out of a software that was on disk.
LEMMA AnswerOK ==
  ASSUME HubSide, NEW sw \in was \cup {<<>>}, NEW req \in Nat \cup {Upgrade}
  PROVE  Answer(req, sw) = <<>> \/ \E r : ReplyOK(r) /\ Answer(req, sw) = <<r>>
<1>1. sw \in Readable /\ sw \in Seq(ChunksOf) /\ Len(sw) \in Nat
  BY ReadableSoftware, EmptyReadable DEF HubSide
<1>2. CASE req = Upgrade
  <2>1. Announcement(sw) \in Announced
    BY <1>1 DEF Announcement, Announced
  <2>2. ReplyOK(Announcement(sw))
    BY <2>1 DEF ReplyOK, Announcement
  <2>3. QED
    BY <1>2, <2>2 DEF Answer
<1>3. CASE req # Upgrade /\ req < Len(sw)
  <2>1. req \in Nat /\ req + 1 \in 1 .. Len(sw) /\ sw # <<>>
    BY <1>1, <1>3
  <2>2. Chunk(req + 1, sw) \in ChunkSent
    BY <1>1, <2>1 DEF Chunk, ChunkSent
  <2>3. changes = 0 => sw = disk.sw
    BY <2>1 DEF HubSide
  <2>4. ReplyOK(Chunk(req + 1, sw))
    BY <2>2, <2>3 DEF ReplyOK, Chunk
  <2>5. QED
    BY <1>3, <2>4 DEF Answer
<1>4. CASE req # Upgrade /\ ~(req < Len(sw))
  BY <1>4 DEF Answer
<1>5. QED
  BY <1>2, <1>3, <1>4

LEMMA SendStep ==
  ASSUME Flight, NEW answer, Send(answer), UNCHANGED <<was, changes, disk>>,
         answer = <<>> \/ \E r : ReplyOK(r) /\ answer = <<r>>
  PROVE  /\ replies' \in Seq(Replies) /\ Len(replies') <= MaxFlight
         /\ \A i \in 1 .. Len(replies') : ReplyOK(replies[i])'
<1>1. replies \in Seq(Replies) /\ Len(replies) \in Nat /\ MaxFlight \in Nat
  BY ConstantsAssumption DEF Flight, Replies
<1>2. ASSUME NEW r, ReplyOK(r) PROVE ReplyOK(r)' /\ r \in Replies
  BY <1>2, ReplyStays DEF ReplyOK, Replies
<1>3. CASE replies' = replies
  BY <1>1, <1>2, <1>3 DEF Flight
<1>4. ASSUME NEW r, ReplyOK(r), replies' = replies \o <<r>>, Len(replies) < MaxFlight
      PROVE  /\ replies' \in Seq(Replies) /\ Len(replies') <= MaxFlight
             /\ \A i \in 1 .. Len(replies') : ReplyOK(replies[i])'
  <2>1. r \in Replies
    BY <1>2, <1>4
  <2>2. /\ replies' \in Seq(Replies) /\ Len(replies') = Len(replies) + 1
        /\ \A i \in 1 .. Len(replies) : replies'[i] = replies[i]
        /\ replies'[Len(replies) + 1] = r
    BY <1>1, <1>4, <2>1
  <2>3. ASSUME NEW i \in 1 .. Len(replies') PROVE ReplyOK(replies[i])'
    <3>1. SUFFICES ASSUME NEW x, x = replies'[i] PROVE ReplyOK(x)'
      BY DEF ReplyOK
    <3>2. ReplyOK(x)
      BY <1>1, <1>4, <2>2, <3>1 DEF Flight
    <3>3. QED
      BY <1>2, <3>2
  <2>4. QED
    BY <1>1, <1>4, <2>2, <2>3
<1>5. replies \o <<>> = replies
  BY <1>1
<1>6. QED
  BY <1>3, <1>4, <1>5 DEF Send

\* A reply less on its way.
LEMMA TailStep ==
  ASSUME Flight, replies # <<>>, replies' = Tail(replies), UNCHANGED <<was, changes, disk>>
  PROVE  /\ replies' \in Seq(Replies) /\ Len(replies') <= MaxFlight
         /\ \A i \in 1 .. Len(replies') : ReplyOK(replies[i])'
<1>1. replies \in Seq(Replies) /\ Len(replies) \in Nat /\ MaxFlight \in Nat
  BY ConstantsAssumption DEF Flight, Replies
<1>2. /\ replies' \in Seq(Replies) /\ Len(replies') = Len(replies) - 1
      /\ \A i \in 1 .. Len(replies') : replies'[i] = replies[i + 1] /\ i + 1 \in 1 .. Len(replies)
  BY <1>1
<1>3. ASSUME NEW i \in 1 .. Len(replies') PROVE ReplyOK(replies[i])'
  <2>1. SUFFICES ASSUME NEW x, x = replies'[i] PROVE ReplyOK(x)'
    BY DEF ReplyOK
  <2>2. ReplyOK(x)
    BY <1>2, <2>1 DEF Flight
  <2>3. QED
    BY <2>2, ReplyStays
<1>4. QED
  BY <1>1, <1>2, <1>3 DEF Flight

LEMMA FlightStep ==
  ASSUME BootInv, [Next]_vars
  PROVE  Flight'
<1>0. HubSide /\ Flight /\ NodeSide /\ MaxFlight \in Nat
  BY ConstantsAssumption DEF BootInv
<1>1. was \subseteq was' /\ (changes' = 0 => changes = 0 /\ disk' = disk)
  BY <1>0, HubSideStep
<1>2. ASSUME UNCHANGED replies
      PROVE  /\ replies' \in Seq(Replies) /\ Len(replies') <= MaxFlight
             /\ \A i \in 1 .. Len(replies') : ReplyOK(replies[i])'
  <2>1. ASSUME NEW i \in 1 .. Len(replies') PROVE ReplyOK(replies[i])'
    <3>1. SUFFICES ASSUME NEW x, x = replies'[i] PROVE ReplyOK(x)'
      BY DEF ReplyOK
    <3>2. ReplyOK(x)
      BY <1>0, <1>2, <3>1 DEF Flight
    <3>3. QED
      BY <1>1, <3>2, ReplyStays
  <2>2. QED
    BY <1>0, <1>2, <2>1 DEF Flight, Replies
<1>3. ASSUME reqs' = Tail(reqs), reqs # <<>>
      PROVE  reqs' \in Seq(Requests) /\ Len(reqs') <= MaxFlight
  BY <1>0, <1>3 DEF Flight
<1>4. ASSUME UNCHANGED reqs PROVE reqs' \in Seq(Requests) /\ Len(reqs') <= MaxFlight
  BY <1>0, <1>4 DEF Flight
<1>5. CASE RecvPair
  <2>1. PairingReply \in Paired
    BY DEF PairingReply, Entry, Paired
  <2>2. ReplyOK(PairingReply)
    BY <2>1 DEF ReplyOK
  <2>3. Send(<<PairingReply>>) /\ UNCHANGED <<was, changes, disk>>
    BY <1>5 DEF RecvPair, fileVars
  <2>4. QED
    BY <1>0, <1>3, <1>5, <2>2, <2>3, SendStep DEF RecvPair, Flight, Replies
<1>6. ASSUME NEW sw \in was \cup {<<>>}, Reply(sw), recv.pc # "idle", UNCHANGED <<fileVars, reqs>>
      PROVE  Flight'
  <2>1. recv.req \in Nat \cup {Upgrade}
    BY <1>0, <1>6 DEF HubSide
  <2>2. SUFFICES ASSUME NEW answer, answer = Answer(recv.req, sw) PROVE Flight'
    OBVIOUS
  <2>3. Send(answer) /\ UNCHANGED <<was, changes, disk>>
    BY <1>6, <2>2 DEF Reply, fileVars
  <2>4. answer = <<>> \/ \E r : ReplyOK(r) /\ answer = <<r>>
    BY <1>0, <2>1, <2>2, AnswerOK
  <2>5. QED
    BY <1>0, <1>4, <1>6, <2>3, <2>4, SendStep DEF Flight, Replies
<1>7. CASE RecvLookup \/ RecvFetch
  <2>1. CASE RecvLookup /\ cache = None
    BY <1>2, <1>4, <2>1 DEF RecvLookup, Flight, Replies
  <2>2. CASE RecvLookup /\ cache # None
    BY <1>0, <1>6, <2>2 DEF RecvLookup, HubSide
  <2>3. CASE RecvFetch
    <3>1. (IF cache = None THEN <<>> ELSE cache) \in was \cup {<<>>}
      BY <1>0 DEF HubSide
    <3>2. QED
      BY <1>6, <2>3, <3>1 DEF RecvFetch
  <2>4. QED
    BY <1>7, <2>1, <2>2, <2>3
<1>8. CASE RecvRequest
  BY <1>2, <1>3, <1>8 DEF RecvRequest, Flight, Replies
<1>9. CASE Ask
  <2>1. PICK q \in Requests : reqs' = Append(reqs, q)
    <3>1. Len(node.got) \in Nat
      BY <1>0 DEF NodeSide
    <3>2. QED
      BY <1>9, <3>1 DEF Ask, Requests
  <2>2. reqs \in Seq(Requests) /\ Len(reqs) < MaxFlight /\ UNCHANGED replies
    BY <1>0, <1>9 DEF Ask, Flight
  <2>3. reqs' \in Seq(Requests) /\ Len(reqs') <= MaxFlight
    BY <1>0, <2>1, <2>2
  <2>4. QED
    BY <1>2, <2>2, <2>3 DEF Flight, Replies
<1>10. CASE TakeReply
  <2>1. replies # <<>> /\ replies' = Tail(replies) /\ UNCHANGED <<was, changes, disk, reqs>>
    BY <1>10 DEF TakeReply, fileVars
  <2>2. QED
    BY <1>0, <1>4, <2>1, TailStep DEF Flight, Replies
<1>11. CASE Lose
  <2>1. CASE reqs # <<>> /\ reqs' = Tail(reqs) /\ UNCHANGED replies
    BY <1>2, <1>3, <2>1 DEF Flight, Replies
  <2>2. CASE replies # <<>> /\ replies' = Tail(replies) /\ UNCHANGED reqs
    BY <1>0, <1>4, <1>11, <2>2, TailStep DEF Lose, fileVars, Flight, Replies
  <2>3. QED
    BY <1>11, <2>1, <2>2 DEF Lose
<1>12. ASSUME UNCHANGED <<reqs, replies>> PROVE Flight'
  BY <1>2, <1>4, <1>12 DEF Flight, Replies
<1>13. CASE NewVersion \/ Complete \/ EditConfig
  BY <1>12, <1>13 DEF NewVersion, Complete, EditConfig, Change, nodeVars
<1>14. CASE Watcher \/ MapRace \/ RecvRead \/ RecvStore \/ GiveUp \/ UNCHANGED vars
  BY <1>12, <1>14 DEF Watcher, WatchConfig, WatchForget, WatchPairing, WatchLoad, WatchHex,
     WatchRead, WatchStore, MapRace, RecvRead, RecvStore, GiveUp, vars, nodeVars
<1>15. QED
  BY <1>5, <1>7, <1>8, <1>9, <1>10, <1>11, <1>13, <1>14 DEF Next, Receiver

-----------------------------------------------------------------------------
(* The node.                                                                 *)

Wanted == [size : Nat, crc : Readable]
Nodes == [paired : BOOLEAN, want : Wanted \cup {None}, got : Seq(ChunksOf),
          runs : Readable \cup {None}]

\* What the next reply is, for the node.
LEMMA NextReply ==
  ASSUME BootInv, replies # <<>>
  PROVE  /\ ReplyOK(Head(replies)) /\ Head(replies) \in Replies
         /\ Head(replies).ix > 0 =>
              /\ Head(replies) \in ChunkSent
              /\ changes = 0 => Head(replies).data = disk.sw[Head(replies).ix]
         /\ Head(replies).ix = 0 /\ Head(replies).size > 0 =>
              /\ Head(replies).size = Len(Head(replies).data) /\ Head(replies).data \in was
<1>1. SUFFICES ASSUME NEW r, r = Head(replies)
               PROVE  /\ ReplyOK(r) /\ r \in Replies
                      /\ r.ix > 0 => r \in ChunkSent /\ (changes = 0 => r.data = disk.sw[r.ix])
                      /\ r.ix = 0 /\ r.size > 0 => r.size = Len(r.data) /\ r.data \in was
  BY DEF ReplyOK
<1>2. replies \in Seq(Replies) /\ r = replies[1] /\ 1 \in 1 .. Len(replies)
  BY <1>1 DEF BootInv, Flight, Replies
<1>3. ReplyOK(r) /\ r \in Replies
  BY <1>2 DEF BootInv, Flight
<1>4. CASE r \in Paired
  BY <1>3, <1>4 DEF Paired, Pair
<1>5. CASE r \in Announced /\ r.size = Len(r.data) /\ r.data \in was \cup {<<>>}
  BY <1>3, <1>5 DEF Announced
<1>6. CASE r \in ChunkSent /\ (changes = 0 => r.data = disk.sw[r.ix])
  BY <1>3, <1>6 DEF ChunkSent
<1>7. QED
  BY <1>3, <1>4, <1>5, <1>6 DEF ReplyOK

\* A node that takes the last chunk has, if the file did not change, all of it.
LEMMA LastChunk ==
  ASSUME BootInv, replies # <<>>, NEW r, r = Head(replies), Finishes(r), changes = 0
  PROVE  Append(node.got, r.data) = node.want.crc
<1>1. HubSide /\ NodeSide
  BY DEF BootInv
<1>2. /\ node.want # None /\ r.ix = Len(node.got) + 1 /\ r.ix = node.want.size /\ r.ix > 0
  BY DEF Finishes, Continues
<1>3. /\ node.got \in Seq(ChunksOf) /\ Len(node.got) \in Nat
      /\ node.want.crc = disk.sw /\ node.want.size = Len(disk.sw)
      /\ \A i \in 1 .. Len(node.got) : node.got[i] = disk.sw[i]
  BY <1>1, <1>2 DEF HubSide, NodeSide
<1>4. r \in ChunkSent /\ r.data = disk.sw[r.ix] /\ r.data \in ChunksOf
  BY <1>2, NextReply DEF ChunkSent
<1>5. disk.sw \in Seq(ChunksOf)
  BY <1>1, ReadableSoftware DEF HubSide
<1>6. /\ Append(node.got, r.data) \in Seq(ChunksOf)
      /\ Len(Append(node.got, r.data)) = Len(disk.sw)
      /\ \A i \in 1 .. Len(disk.sw) : Append(node.got, r.data)[i] = disk.sw[i]
  BY <1>2, <1>3, <1>4
<1>7. QED
  BY <1>3, <1>5, <1>6, SeqEqual

LEMMA NodeStays ==
  ASSUME NodeSide, UNCHANGED node, was \subseteq was',
         changes' = 0 => changes = 0 /\ disk' = disk
  PROVE  NodeSide'
BY DEF NodeSide

\* The end of a download, installed or not.
LEMMA DownloadEnds ==
  ASSUME node \in Nodes, NEW x \in Readable \cup {None},
         node' = [node EXCEPT !.want = None, !.got = <<>>, !.runs = x]
  PROVE  node' \in Nodes /\ node'.want = None /\ node'.got = <<>> /\ node'.runs = x
<1>1. node' = [paired |-> node.paired, want |-> None, got |-> <<>>, runs |-> x]
  BY DEF Nodes
<1>2. <<>> \in Seq(ChunksOf)
  OBVIOUS
<1>3. SUFFICES ASSUME NEW e, e = <<>>, e \in Seq(ChunksOf),
                      node' = [paired |-> node.paired, want |-> None, got |-> e, runs |-> x]
               PROVE  node' \in Nodes /\ node'.want = None /\ node'.got = e /\ node'.runs = x
  BY <1>1, <1>2
<1>4. QED
  BY <1>3 DEF Nodes

LEMMA NodeTakes ==
  ASSUME BootInv, TakeReply
  PROVE  NodeSide'
<1>1. /\ HubSide /\ NodeSide /\ replies # <<>> /\ UNCHANGED <<was, changes, disk>>
      /\ node \in Nodes /\ node.got \in Seq(ChunksOf) /\ Len(node.got) \in Nat
  BY DEF BootInv, NodeSide, Nodes, Wanted, TakeReply, fileVars
<1>2. SUFFICES ASSUME NEW r, r = Head(replies) PROVE NodeSide'
  OBVIOUS
<1>3. r \in Replies
  BY <1>1, <1>2, NextReply
<1>4. CASE Pairs(r) /\ node' = [node EXCEPT !.paired = TRUE]
  BY <1>1, <1>4 DEF NodeSide
<1>5. CASE Announces(r) /\ node' = [node EXCEPT !.want = [size |-> r.size, crc |-> r.data]]
  <2>1. /\ r.size = Len(r.data) /\ r.data \in was /\ r.data \in Readable /\ r.size > 0
        /\ node.got = <<>> /\ Len(node.got) = 0
    BY <1>1, <1>2, <1>5, NextReply DEF Announces, HubSide, NodeSide
  <2>2. Len(r.data) \in Nat
    BY <2>1, ReadableSoftware
  <2>3. QED
    BY <1>1, <1>5, <2>1, <2>2 DEF NodeSide
<1>6. CASE Continues(r) /\ ~Finishes(r) /\ node' = [node EXCEPT !.got = Append(node.got, r.data)]
  <2>1. /\ r \in ChunkSent /\ r.data \in ChunksOf /\ (changes = 0 => r.data = disk.sw[r.ix])
        /\ node.want # None /\ r.ix = Len(node.got) + 1 /\ r.ix # node.want.size
    BY <1>1, <1>2, <1>6, NextReply DEF Continues, Finishes, ChunkSent
  <2>2. /\ node.want \in Wanted /\ Len(node.got) < node.want.size
        /\ node.want.size \in Nat
    BY <1>1, <2>1 DEF NodeSide, Nodes, Wanted
  <2>3. /\ Append(node.got, r.data) \in Seq(ChunksOf)
        /\ Len(Append(node.got, r.data)) = Len(node.got) + 1
        /\ \A i \in 1 .. Len(node.got) : Append(node.got, r.data)[i] = node.got[i]
        /\ Append(node.got, r.data)[Len(node.got) + 1] = r.data
    BY <1>1, <2>1
  <2>4. /\ node' \in Nodes /\ node'.want = node.want /\ node'.runs = node.runs
        /\ node'.got = Append(node.got, r.data)
    BY <1>1, <1>6, <2>3 DEF Nodes
  <2>5. Len(node'.got) < node'.want.size
    BY <1>1, <2>1, <2>2, <2>3, <2>4
  <2>6. changes' = 0 => \A i \in 1 .. Len(node'.got) : node'.got[i] = disk'.sw[i]
    BY <1>1, <2>1, <2>3, <2>4 DEF NodeSide
  <2>7. QED
    BY <1>1, <2>1, <2>4, <2>5, <2>6 DEF NodeSide, Nodes, Wanted
<1>7. CASE /\ Finishes(r)
           /\ node' = [node EXCEPT !.want = None, !.got = <<>>,
                          !.runs = IF Append(node.got, r.data) = node.want.crc
                                   THEN Append(node.got, r.data) ELSE @]
  <2>1. node.want # None /\ node.want.crc \in was /\ node.want.crc \in Readable
    BY <1>1, <1>7 DEF Finishes, Continues, NodeSide, HubSide
  <2>2. PICK x \in {node.want.crc, node.runs} :
               node' = [node EXCEPT !.want = None, !.got = <<>>, !.runs = x]
    BY <1>7
  <2>3. /\ node' \in Nodes /\ node'.want = None /\ node'.got = <<>>
        /\ node'.runs = node.want.crc \/ node'.runs = node.runs
    <3>1. x \in Readable \cup {None}
      BY <1>1, <2>1, <2>2 DEF Nodes
    <3>2. QED
      BY <1>1, <2>2, <3>1, DownloadEnds
  <2>4. QED
    BY <1>1, <2>1, <2>3 DEF NodeSide, Nodes, Wanted
<1>8. CASE UNCHANGED node
  BY <1>1, <1>8, NodeStays
<1>9. QED
  BY <1>2, <1>4, <1>5, <1>6, <1>7, <1>8 DEF TakeReply

LEMMA NodeStep ==
  ASSUME BootInv, [Next]_vars
  PROVE  NodeSide'
<1>1. /\ HubSide /\ Flight /\ NodeSide /\ was \subseteq was'
      /\ changes' = 0 => changes = 0 /\ disk' = disk
  BY HubSideStep DEF BootInv
<1>2. CASE TakeReply
  BY <1>2, NodeTakes
<1>3. CASE GiveUp
  <2>1. node \in Nodes /\ UNCHANGED <<was, changes, disk>>
    BY <1>1, <1>3 DEF GiveUp, NodeSide, Nodes, Wanted, fileVars
  <2>2. node' \in Nodes /\ node'.want = None /\ node'.got = <<>> /\ node'.runs = node.runs
    <3>1. node.runs \in Readable \cup {None}
      BY <2>1 DEF Nodes
    <3>2. node' = [node EXCEPT !.want = None, !.got = <<>>, !.runs = node.runs]
      BY <1>3, <2>1 DEF GiveUp, Nodes
    <3>3. QED
      BY <2>1, <3>1, <3>2, DownloadEnds
  <2>3. QED
    BY <1>1, <2>1, <2>2 DEF NodeSide, Nodes, Wanted
<1>4. CASE NewVersion \/ Complete \/ EditConfig \/ Watcher \/ Receiver \/ MapRace
  <2>1. UNCHANGED node
    BY <1>4 DEF NewVersion, Complete, EditConfig, Change, Watcher, WatchConfig, WatchForget,
       WatchPairing, WatchLoad, WatchHex, WatchRead, WatchStore, Receiver, RecvPair, RecvRequest,
       RecvLookup, RecvRead, RecvStore, RecvFetch, MapRace, nodeVars
  <2>2. QED
    BY <1>1, <2>1, NodeStays
<1>5. CASE Ask \/ Lose \/ UNCHANGED vars
  BY <1>1, <1>5, NodeStays DEF Ask, Lose, vars, nodeVars
<1>6. QED
  BY <1>2, <1>3, <1>4, <1>5 DEF Next

LEMMA BootAlways == Spec => []BootInv
<1>1. BootInv /\ [Next]_vars => BootInv'
  BY HubSideStep, FlightStep, NodeStep DEF BootInv
<1>2. QED
  BY <1>1, BootInit, PTL DEF Spec

-----------------------------------------------------------------------------
(* The theorems.                                                             *)

\* Every variable has the values the code gives it: what readHexFile stores and what
\* is announced is always the result of a reading without error.
THEOREM BootTypes == Spec => []TypeOK
<1>1. ASSUME BootInv PROVE TypeOK
  <2>1. HubSide /\ Flight /\ NodeSide
    BY <1>1 DEF BootInv
  <2>2. recv.pc \in {"idle", "lookup", "read", "store", "fetch"}
    BY <2>1 DEF HubSide, Waiting, Loaded
  <2>3. recv.pc \in {"store", "fetch"} <=> recv.sw \in Readable
    BY <2>1, ReadableSoftware DEF HubSide, Waiting, Loaded
  <2>4. watch \in [pc : {"idle", "forget", "pairing", "load", "read"}, sw : {None}]
                 \cup [pc : {"store"}, sw : Readable]
    BY <2>1 DEF HubSide
  <2>5. reqs \in Seq(Nat \cup {Upgrade, Pair}) /\ Len(reqs) <= MaxFlight
    BY <2>1 DEF Flight, Requests
  <2>6. QED
    BY <2>1, <2>2, <2>3, <2>4, <2>5 DEF HubSide, Flight, NodeSide, TypeOK
<1>2. QED
  BY <1>1, BootAlways, PTL

\* A node never runs a mixture of two versions, or a file with a broken line: what
\* passes the CRC could have been read from the file at one moment, whatever is
\* reloaded between Upgrade and the calls of Download.
THEOREM InstalledFromDisk == Spec => []InstalledWasOnDisk
<1>1. BootInv => InstalledWasOnDisk
  BY DEF BootInv, NodeSide, InstalledWasOnDisk
<1>2. QED
  BY <1>1, BootAlways, PTL

\* As long as the hex file does not change, every download that gets to its last
\* chunk is installed, whatever the configuration and the watcher do meanwhile.
THEOREM DownloadsSucceed == Spec => NoVainDownload
<1> DEFINE A == \A r \in {replies[i] : i \in 1 .. Len(replies)} :
                  (replies # <<>> /\ r = Head(replies) /\ Finishes(r) /\ node'.got = <<>>
                     /\ replies' = Tail(replies) /\ node' # node /\ changes = 0)
                  => node'.runs = node.want.crc
<1>1. BootInv /\ [Next]_vars => [A]_vars
  <2>1. SUFFICES ASSUME BootInv, [Next]_vars, NEW r, r = Head(replies), replies # <<>>,
                        Finishes(r), replies' = Tail(replies), node' # node, changes = 0
                 PROVE  node'.runs = node.want.crc
    OBVIOUS
  <2>2. replies \in Seq(Replies) /\ replies' # replies /\ node \in Nodes
    BY <2>1 DEF BootInv, Flight, NodeSide, Nodes, Wanted, Replies
  <2>3. TakeReply
    BY <2>1, <2>2 DEF Next, NewVersion, Complete, EditConfig, Change, Watcher, WatchConfig,
       WatchForget, WatchPairing, WatchLoad, WatchHex, WatchRead, WatchStore, Receiver, RecvPair,
       RecvRequest, RecvLookup, RecvRead, RecvStore, RecvFetch, MapRace, Ask, GiveUp, Lose, vars,
       nodeVars
  <2>4. Append(node.got, r.data) = node.want.crc
    BY <2>1, LastChunk
  <2>5. r.ix > 0 /\ Continues(r)
    BY <2>1 DEF Finishes, Continues
  <2>6. ~Pairs(r) /\ ~Announces(r)
    BY <2>5 DEF Pairs, Announces, Pair
  <2>7. node' = [node EXCEPT !.want = None, !.got = <<>>, !.runs = node.want.crc]
    BY <2>1, <2>2, <2>3, <2>4, <2>5, <2>6 DEF TakeReply
  <2>8. QED
    BY <2>2, <2>7 DEF Nodes
<1>2. QED
  BY <1>1, BootAlways, PTL DEF Spec, NoVainDownload
=================================================================================
