-------------------------------- MODULE EEConf --------------------------------
(***************************************************************************)
(* The configuration of a node in EEPROM (nodes/EEConf): a block for each  *)
(* module and one CRC over all of them, read at boot, with power losses.   *)
(*                                                                         *)
(* The CRC is ideal: crc is what the blocks held when it was computed, and *)
(* it matches exactly if they still hold that.                             *)
(***************************************************************************)
EXTENDS Integers, FiniteSets

CONSTANTS
  Sketches,   \* the configurations of modules: [mods, keeps, reset], where
              \*   mods is the number of modules in the sketch's list,
              \*   keeps the modules whose applyConfig(0) writes no defaults
              \*   reset the blocks that eeconf_reset hits, {} if not called
  Found,      \* the contents an OwScan may save: what is on the bus
  MaxLosses   \* bound on the power losses

\* What a block may hold besides Found: the defaults, or something its module
\* never wrote - what was there before, half a write, eeconf_reset's mark.
Default == "default"
Garbage == {"old", "torn", "f00d"}
None == "none"

ASSUME ConstantsAssumption ==
  /\ \A k \in Sketches :
       /\ k.mods \in Nat \ {0} /\ k.keeps \subseteq 2 .. k.mods
       /\ k.reset \subseteq 1 .. k.mods /\ (k.reset # {} => 1 \in k.reset)
  /\ Found \cap (Garbage \cup {Default, None}) = {}
  /\ MaxLosses \in Nat

VARIABLES
  sketch,     \* the sketch; it never changes
  block,      \* the blocks in EEPROM
  crc,        \* the blocks the CRC in EEPROM was computed over, None if it is bad
  pc,         \* "reset", "init", "rain" (check), "apply" or "run"
  cur,        \* the module whose turn it is, or which is written
  write,      \* what eeconf_write is about to write: "no", "block" or "crc"
  ram,        \* the configuration of each module in RAM
  losses,     \* the number of power losses
  faults      \* history: the power losses since the EEPROM was last complete; a
              \* new EEPROM counts as one

vars == <<sketch, block, crc, pc, cur, write, ram, losses, faults>>

Modules == 1 .. sketch.mods

\* Every boot starts with an empty RAM, at eeconf_reset if the sketch calls it.
Entry(k) == IF k.reset = {} THEN "init" ELSE "reset"
Empty(k) == [m \in 1 .. k.mods |-> None]

Init ==
  /\ sketch \in Sketches
  /\ block = [m \in Modules |-> "old"]
  /\ crc = Empty(sketch)
  /\ pc = Entry(sketch)
  /\ cur = 1
  /\ write = "no"
  /\ ram = Empty(sketch)
  /\ losses = 0
  /\ faults = 1

\* All blocks were written by their modules, and the node is set up.
Complete == pc = "run" /\ crc = block /\ \A m \in Modules : block[m] \notin Garbage
CountFaults == faults' = IF Complete' THEN 0 ELSE faults

-----------------------------------------------------------------------------
\* eeconf_reset overwrites the first two bytes.
BugSpoilt(B) == block
Spoilt(B) == [m \in Modules |-> IF m \in B THEN "f00d" ELSE block[m]]

Reset ==
  /\ pc = "reset"
  /\ block' = Spoilt(sketch.reset)
  /\ pc' = "init"
  /\ UNCHANGED <<sketch, crc, cur, write, ram, losses, faults>>

\* eeconf_init checks the CRC.
BugCheckCrc ==
  /\ pc = "init"
  /\ pc' \in {"apply", "rain"}
  /\ cur' = 1
  /\ UNCHANGED <<sketch, block, crc, write, ram, losses, faults>>
CheckCrc ==
  /\ pc = "init"
  /\ pc' = IF crc = block THEN "apply" ELSE "rain"
  /\ cur' = 1
  /\ UNCHANGED <<sketch, block, crc, write, ram, losses, faults>>

\* If it does not match, applyConfig(0) of the modules in turn: Net and Logger
\* take their defaults and write them, OwScan does nothing.
BugRainCheck ==
  /\ pc = "rain" /\ write = "no" /\ cur \in Modules
  /\ IF cur \in sketch.keeps
     THEN cur' = cur + 1 /\ UNCHANGED write
     ELSE write' = "block" /\ UNCHANGED cur
  /\ UNCHANGED <<sketch, block, crc, pc, ram, losses, faults>>
RainCheck ==
  /\ pc = "rain" /\ write = "no" /\ cur \in Modules
  /\ IF cur \in sketch.keeps
     THEN cur' = cur + 1 /\ UNCHANGED <<write, ram>>
     ELSE /\ ram' = [ram EXCEPT ![cur] = Default]
          /\ write' = "block"
          /\ UNCHANGED cur
  /\ UNCHANGED <<sketch, block, crc, pc, losses, faults>>

\* If it matches, applyConfig with the block of each module in turn.
Apply ==
  /\ pc = "apply" /\ cur \in Modules
  /\ ram' = [ram EXCEPT ![cur] = block[cur]]
  /\ cur' = cur + 1
  /\ UNCHANGED <<sketch, block, crc, pc, write, losses, faults>>

\* eeconf_init returns.
Ready ==
  /\ pc \in {"rain", "apply"} /\ write = "no" /\ cur \notin Modules
  /\ pc' = "run"
  /\ UNCHANGED <<sketch, block, crc, cur, write, ram, losses>>
  /\ CountFaults

\* OwScan::scan updates the addresses of the devices and saves them.  Addresses
\* that are not on the bus keep their slots, so that garbage is saved again.
Scan(m) ==
  /\ pc = "run" /\ write = "no" /\ m \in sketch.keeps
  /\ \E f \in Found : ram' = [ram EXCEPT ![m] = IF @ \in Garbage THEN @ ELSE f]
  /\ cur' = m
  /\ write' = "block"
  /\ UNCHANGED <<sketch, block, crc, pc, losses, faults>>

\* eeconf_write writes the block, then the CRC.
BugWriteBlock ==
  /\ write = "block"
  /\ block' = [block EXCEPT ![cur] = ram[cur]]
  /\ write' = "no"
  /\ cur' = IF pc = "rain" THEN cur + 1 ELSE cur
  /\ UNCHANGED <<sketch, crc, pc, ram, losses, faults>>
WriteBlock ==
  /\ write = "block"
  /\ block' = [block EXCEPT ![cur] = ram[cur]]
  /\ write' = "crc"
  /\ UNCHANGED <<sketch, crc, pc, cur, ram, losses, faults>>

BugWriteCrc ==
  /\ write = "crc"
  /\ crc' = block
  /\ write' = "no"
  /\ UNCHANGED <<sketch, block, pc, cur, ram, losses>>
  /\ CountFaults
WriteCrc ==
  /\ write = "crc"
  /\ crc' = block
  /\ write' = "no"
  /\ cur' = IF pc = "rain" THEN cur + 1 ELSE cur
  /\ UNCHANGED <<sketch, block, pc, ram, losses>>
  /\ CountFaults

\* Power is lost: what is being written is as before, written, or in pieces.
PowerLoss ==
  /\ losses < MaxLosses
  /\ losses' = losses + 1
  /\ faults' = faults + 1
  /\ \/ block' = block
     \/ write = "block" /\ block' \in {[block EXCEPT ![cur] = "torn"],
                                      [block EXCEPT ![cur] = ram[cur]]}
     \/ pc = "reset" /\ \E B \in SUBSET sketch.reset : block' = Spoilt(B)
  /\ crc' \in IF write = "crc" THEN {crc, Empty(sketch), block} ELSE {crc}
  /\ pc' = Entry(sketch)
  /\ cur' = 1
  /\ write' = "no"
  /\ ram' = Empty(sketch)
  /\ UNCHANGED sketch

-----------------------------------------------------------------------------
Step ==
  \/ Reset \/ CheckCrc \/ RainCheck \/ Apply \/ Ready \/ WriteBlock \/ WriteCrc

Next == Step \/ (\E m \in Modules : Scan(m)) \/ PowerLoss

Spec == Init /\ [][Next]_vars

\* The node runs whenever it has power, and the sketch calls scan in its set-up.
FairSpec == Spec /\ WF_vars(Step) /\ WF_vars(\E m \in Modules : Scan(m))
===============================================================================
