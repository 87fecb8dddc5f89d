------------------------------- MODULE BootProps -------------------------------
(* What must hold of the boot server.                                           *)
EXTENDS Boot

Readable == UNION {Prefixes(v) : v \in Versions}
ChunksOf == UNION {Range(v) : v \in Versions}
Announced == [ix : {0}, size : Nat, data : Readable]
Paired == [ix : {Pair}, size : {0}, data : {<<>>, <<"entry">>}]
ChunkSent == [ix : Nat \ {0}, size : {0}, data : ChunksOf]

\* Every variable has the values the code gives it; in particular what
\* readHexFile stores is always the result of a reading without error.
TypeOK ==
  /\ disk \in [sw : Readable, whole : BOOLEAN]
  /\ writing \in Versions \cup {None} /\ changes \in 0 .. MaxChanges
  /\ config \in {"none", "pairing", "both"} /\ reloads \in 0 .. MaxReloads
  /\ events \in Seq({"config", "hex"})
  /\ watch \in [pc : {"idle", "forget", "pairing", "load", "read"}, sw : {None}]
              \cup [pc : {"store"}, sw : Readable]
  /\ pairing \in BOOLEAN /\ sketch \in BOOLEAN /\ cache \in Readable \cup {None}
  /\ recv.pc \in {"idle", "lookup", "read", "store", "fetch"}
  /\ recv.pc \in {"store", "fetch"} <=> recv.sw \in Readable
  /\ reqs \in Seq(Nat \cup {Upgrade, Pair}) /\ Len(reqs) <= MaxFlight
  /\ replies \in Seq(Paired \cup Announced \cup ChunkSent) /\ Len(replies) <= MaxFlight
  /\ node.want # None => Len(node.got) < node.want.size
  /\ node.runs \in Readable \cup {None}
  /\ hub \in {"up", "dead"}

\* A node never runs a mixture of two versions, or a file with a broken line:
\* whatever is reloaded between Upgrade and the calls of Download, what passes
\* the CRC could have been read from the file at one moment.
InstalledWasOnDisk == node.runs # None => node.runs \in was

\* A reload of the configuration in the middle never spoils a download: all
\* chunks come from what was announced unless the hex file itself changes.
NoVainDownload ==
  [][\A r \in {replies[i] : i \in 1 .. Len(replies)} :
       (replies # <<>> /\ r = Head(replies) /\ Finishes(r) /\ node'.got = <<>>
          /\ replies' = Tail(replies) /\ node' # node /\ changes = 0)
       => node'.runs = node.want.crc]_vars

\* The watcher goroutine: after the last changes the maps have what the configuration
\* file has, and the cache has the present content of the hex file, if it was in the
\* cache at each of its changes.
ReloadsFiles ==
  <>[](\/ hub = "dead"
       \/ /\ pairing = (config # "none") /\ sketch = (config = "both")
          /\ early \/ cache \in {None, disk.sw})
================================================================================
