----------------------------- MODULE EEConf_proofs -----------------------------
(* Proofs of the properties of EEConf for every list of modules, every content *)
(* of the blocks and any number of power losses.                               *)
EXTENDS EEConfProps, TLAPS

-----------------------------------------------------------------------------
(* The inductive invariant of the proofs.                                   *)

\* A write is under way only in the rain-check and while the node runs.
WriteInv ==
  /\ write # "no" => pc \in {"rain", "run"} /\ ram[cur] # None
  /\ pc \in {"reset", "init"} => write = "no" /\ \A m \in Modules : ram[m] = None
  /\ pc = "reset" => sketch.reset # {}

\* What a module has in RAM is in its block, but for the one being written.
RamInv ==
  \A m \in Modules : (write # "block" \/ m # cur) => ram[m] \in {block[m], None}

\* The CRC matches once the first module has written its defaults.
CrcInv ==
  write = "no" /\ (pc \in {"apply", "run"} \/ (pc = "rain" /\ cur > 1)) => crc = block

\* What is still clean when at most one power loss struck.
FaultInv ==
  /\ faults = 0 =>
       /\ pc = "run"
       /\ \A m \in Modules : block[m] \notin Garbage
  /\ faults <= 1 =>
       /\ \A m \in Modules : ram[m] \notin Garbage
       /\ faults = 0 \/ pc \in {"reset", "init"} => \A m \in Modules : crc[m] \notin Garbage
       /\ pc = "apply" => \A m \in Modules : block[m] \notin Garbage

\* A sketch that resets finds its mark in the first block and never a valid CRC.
ResetInv ==
  sketch.reset # {} =>
    /\ \A m \in Modules : ram[m] \notin Garbage
    /\ ram[1] \in {Default, None} /\ crc[1] \in {Default, None}
    /\ pc # "apply"
    /\ pc = "init" => block[1] = "f00d"
    /\ write = "crc" \/ (pc = "rain" /\ cur > 1) \/ pc = "run" => block[1] = Default

SafetyInv == TypeOK /\ WriteInv /\ RamInv /\ CrcInv /\ FaultInv /\ ResetInv

-----------------------------------------------------------------------------
\* A step of eeconf_init, eeconf_write or the sketch keeps the types.
LEMMA TypeStep ==
  ASSUME SafetyInv, [Next]_vars
  PROVE  TypeOK'
<1>1. /\ sketch \in Sketches /\ sketch.mods \in Nat \ {0}
      /\ sketch.keeps \subseteq Modules
      /\ sketch.reset # {} => 1 \in sketch.reset
  BY ConstantsAssumption DEF SafetyInv, TypeOK, Modules
<1>2. /\ block \in [Modules -> Contents] /\ ram \in [Modules -> Contents \cup {None}]
      /\ crc \in [Modules -> Contents \cup {None}]
      /\ cur \in 1 .. sketch.mods + 1 /\ losses \in 0 .. MaxLosses /\ faults \in Nat
      /\ write # "no" => cur \in Modules /\ ram[cur] # None
      /\ MaxLosses \in Nat
  BY ConstantsAssumption DEF SafetyInv, TypeOK, WriteInv
<1>3. CASE Reset
  BY <1>2, <1>3 DEF SafetyInv, TypeOK, Reset, Spoilt, Modules, Contents, Garbage
<1>4. CASE CheckCrc
  BY <1>1, <1>2, <1>4 DEF SafetyInv, TypeOK, CheckCrc, Modules
<1>5. CASE RainCheck
  <2>1. ram' \in [Modules -> Contents \cup {None}]
    BY <1>2, <1>5 DEF RainCheck, Contents
  <2>2. cur' \in 1 .. sketch.mods + 1 /\ (write' # "no" => cur' \in Modules)
    BY <1>1, <1>2, <1>5 DEF RainCheck, Modules
  <2>3. QED
    BY <1>5, <2>1, <2>2 DEF SafetyInv, TypeOK, RainCheck, Modules
<1>6. CASE Apply
  <2>1. ram' \in [Modules -> Contents \cup {None}]
    BY <1>2, <1>6 DEF Apply
  <2>2. cur' \in 1 .. sketch.mods + 1 /\ write = "no"
    BY <1>1, <1>2, <1>6 DEF Apply, Modules, SafetyInv, WriteInv
  <2>3. QED
    BY <1>6, <2>1, <2>2 DEF SafetyInv, TypeOK, Apply, Modules
<1>7. CASE Ready
  BY <1>2, <1>7 DEF SafetyInv, TypeOK, Ready, Modules, CountFaults
<1>8. CASE WriteBlock
  <2>1. block' \in [Modules -> Contents]
    BY <1>2, <1>8 DEF WriteBlock
  <2>2. QED
    BY <1>2, <1>8, <2>1 DEF SafetyInv, TypeOK, WriteBlock, Modules
<1>9. CASE WriteCrc
  <2>1. cur' \in 1 .. sketch.mods + 1 /\ crc' \in [Modules -> Contents \cup {None}]
    BY <1>1, <1>2, <1>9 DEF WriteCrc, Modules
  <2>2. QED
    BY <1>2, <1>9, <2>1 DEF SafetyInv, TypeOK, WriteCrc, Modules, CountFaults
<1>10. ASSUME NEW m \in Modules, Scan(m) PROVE TypeOK'
  <2>1. ram' \in [Modules -> Contents \cup {None}]
    BY <1>2, <1>10 DEF Scan, Contents
  <2>2. cur' \in Modules /\ cur' \in 1 .. sketch.mods + 1
    BY <1>1, <1>10 DEF Scan, Modules
  <2>3. QED
    BY <1>10, <2>1, <2>2 DEF SafetyInv, TypeOK, Scan, Modules
<1>11. CASE PowerLoss
  <2>1. block' \in [Modules -> Contents]
    <3>1. \A B : Spoilt(B) \in [Modules -> Contents]
      BY <1>2 DEF Spoilt, Contents, Garbage
    <3>2. write = "block" => [block EXCEPT ![cur] = ram[cur]] \in [Modules -> Contents]
      BY <1>2
    <3>3. [block EXCEPT ![cur] = "torn"] \in [Modules -> Contents]
      BY <1>2 DEF Contents, Garbage
    <3>4. QED
      BY <1>2, <1>11, <3>1, <3>2, <3>3 DEF PowerLoss
  <2>2. Empty(sketch) \in [Modules -> Contents \cup {None}]
    BY DEF Empty, Modules
  <2>3. crc' \in [Modules -> Contents \cup {None}]
    BY <1>2, <1>11, <2>2 DEF PowerLoss
  <2>4. losses' \in 0 .. MaxLosses /\ faults' \in Nat /\ cur' \in 1 .. sketch.mods + 1
    BY <1>1, <1>2, <1>11 DEF PowerLoss
  <2>5. QED
    BY <1>11, <2>1, <2>2, <2>3, <2>4 DEF SafetyInv, TypeOK, PowerLoss, Entry, Modules
<1>12. CASE UNCHANGED vars
  BY <1>12 DEF SafetyInv, TypeOK, vars, Modules
<1>13. QED
  BY <1>3, <1>4, <1>5, <1>6, <1>7, <1>8, <1>9, <1>10, <1>11, <1>12 DEF Next, Step

\* What TypeOK and the assumption on the sketches say, as the lemmas below need it.
LEMMA Shapes ==
  ASSUME TypeOK
  PROVE  /\ sketch \in Sketches /\ sketch.mods \in Nat \ {0}
         /\ 1 \in Modules /\ 1 \notin sketch.keeps /\ sketch.keeps \subseteq Modules
         /\ sketch.reset # {} => 1 \in sketch.reset
         /\ DOMAIN block = Modules /\ DOMAIN ram = Modules /\ DOMAIN crc = Modules
         /\ \A m \in Modules : block[m] # None
         /\ cur \in 1 .. sketch.mods + 1 /\ faults \in Nat
         /\ None \notin Garbage /\ Default \notin Garbage /\ None # Default
         /\ \A f \in Found : f \notin Garbage /\ f # None
<1>1. None \notin Contents
  BY ConstantsAssumption DEF Contents, Garbage, None, Default
<1>2. QED
  BY <1>1, ConstantsAssumption DEF TypeOK, Modules, Garbage, None, Default

\* eeconf_write runs in the rain-check or for a scan, with something to write.
LEMMA WriteStep ==
  ASSUME SafetyInv, [Next]_vars
  PROVE  WriteInv'
<1>1. TypeOK /\ WriteInv
  BY DEF SafetyInv
<1> USE Shapes, <1>1
<1>2. CASE Reset
  BY <1>2 DEF WriteInv, Reset, Modules
<1>3. CASE CheckCrc
  BY <1>3 DEF WriteInv, CheckCrc, Modules
<1>4. CASE RainCheck
  BY <1>4 DEF WriteInv, RainCheck, Modules
<1>5. CASE Apply
  BY <1>5 DEF WriteInv, Apply, Modules
<1>6. CASE Ready
  BY <1>6 DEF WriteInv, Ready, Modules
<1>7. CASE WriteBlock
  BY <1>7 DEF WriteInv, WriteBlock, Modules
<1>8. CASE WriteCrc
  BY <1>8 DEF WriteInv, WriteCrc, Modules
<1>9. ASSUME NEW m \in Modules, Scan(m) PROVE WriteInv'
  <2>1. ram'[m] # None
    BY <1>9 DEF Scan
  <2>2. QED
    BY <1>9, <2>1 DEF WriteInv, Scan, Modules
<1>10. CASE PowerLoss
  <2>1. \A m \in Modules' : ram'[m] = None
    BY <1>10 DEF PowerLoss, Empty, Modules
  <2>2. QED
    BY <1>10, <2>1 DEF WriteInv, PowerLoss, Entry, Modules
<1>11. CASE UNCHANGED vars
  BY <1>11 DEF WriteInv, vars, Modules
<1>12. QED
  BY <1>2, <1>3, <1>4, <1>5, <1>6, <1>7, <1>8, <1>9, <1>10, <1>11 DEF Next, Step

\* RAM and EEPROM differ in the block that is being written only.
LEMMA RamStep ==
  ASSUME SafetyInv, [Next]_vars
  PROVE  RamInv'
<1>1. TypeOK /\ WriteInv /\ RamInv
  BY DEF SafetyInv
<1> USE Shapes, <1>1
<1>2. CASE Reset
  BY <1>2 DEF WriteInv, RamInv, Reset, Modules
<1>3. CASE CheckCrc
  BY <1>3 DEF WriteInv, RamInv, CheckCrc, Modules
<1>4. CASE RainCheck
  BY <1>4 DEF RamInv, RainCheck, Modules
<1>5. CASE Apply
  BY <1>5 DEF WriteInv, RamInv, Apply, Modules
<1>6. CASE Ready
  BY <1>6 DEF RamInv, Ready, Modules
<1>7. CASE WriteBlock
  BY <1>7 DEF RamInv, WriteBlock, Modules
<1>8. CASE WriteCrc
  BY <1>8 DEF RamInv, WriteCrc, Modules
<1>9. ASSUME NEW m \in Modules, Scan(m) PROVE RamInv'
  BY <1>9 DEF RamInv, Scan, Modules
<1>10. CASE PowerLoss
  BY <1>10 DEF RamInv, PowerLoss, Empty, Modules
<1>11. CASE UNCHANGED vars
  BY <1>11 DEF RamInv, vars, Modules
<1>12. QED
  BY <1>2, <1>3, <1>4, <1>5, <1>6, <1>7, <1>8, <1>9, <1>10, <1>11 DEF Next, Step

\* The CRC is right whenever no write is under way, once it was written.
LEMMA CrcStep ==
  ASSUME SafetyInv, [Next]_vars
  PROVE  CrcInv'
<1>1. TypeOK /\ WriteInv /\ CrcInv
  BY DEF SafetyInv
<1> USE Shapes, <1>1
<1>2. CASE Reset
  BY <1>2 DEF CrcInv, Reset
<1>3. CASE CheckCrc
  BY <1>3 DEF CrcInv, CheckCrc
<1>4. CASE RainCheck
  <2>1. cur \in sketch.keeps => cur > 1
    OBVIOUS
  <2>2. QED
    BY <1>4, <2>1 DEF CrcInv, RainCheck
<1>5. CASE Apply
  BY <1>5 DEF CrcInv, Apply
<1>6. CASE Ready
  <2>1. cur > 1
    BY <1>6 DEF Ready, Modules
  <2>2. QED
    BY <1>6, <2>1 DEF CrcInv, Ready
<1>7. CASE WriteBlock
  BY <1>7 DEF CrcInv, WriteBlock
<1>8. CASE WriteCrc
  BY <1>8 DEF CrcInv, WriteCrc
<1>9. ASSUME NEW m \in Modules, Scan(m) PROVE CrcInv'
  BY <1>9 DEF CrcInv, Scan
<1>10. CASE PowerLoss
  BY <1>10 DEF CrcInv, PowerLoss, Entry
<1>11. CASE UNCHANGED vars
  BY <1>11 DEF CrcInv, vars
<1>12. QED
  BY <1>2, <1>3, <1>4, <1>5, <1>6, <1>7, <1>8, <1>9, <1>10, <1>11 DEF Next, Step

\* When the set-up is complete, what is in RAM is clean as what is in EEPROM.
LEMMA CompleteIsClean ==
  ASSUME TypeOK', RamInv', write' = "no", Complete', sketch' = sketch
  PROVE  /\ pc' = "run"
         /\ \A m \in Modules' : block'[m] \notin Garbage
         /\ \A m \in Modules' : ram'[m] \notin Garbage
         /\ \A m \in Modules' : crc'[m] \notin Garbage
<1>1. None \notin Garbage
  BY DEF None, Garbage
<1>2. QED
  BY <1>1 DEF Complete, RamInv

\* Up to one power loss nothing of what may reach a module is garbage: the CRC
\* after an interrupted write was computed over clean blocks, if it matches.
LEMMA FaultStep ==
  ASSUME SafetyInv, [Next]_vars
  PROVE  FaultInv'
<1>1. TypeOK /\ WriteInv /\ RamInv /\ CrcInv /\ FaultInv
  BY DEF SafetyInv
<1>2. TypeOK' /\ RamInv'
  BY TypeStep, RamStep
<1> USE Shapes, <1>1
<1>3. CASE Reset
  BY <1>3 DEF FaultInv, Reset, Modules
<1>4. CASE CheckCrc
  BY <1>4 DEF FaultInv, CheckCrc, Modules
<1>5. CASE RainCheck
  BY <1>5 DEF FaultInv, RainCheck, Modules
<1>6. CASE Apply
  BY <1>6 DEF FaultInv, Apply, Modules
<1>7. CASE Ready
  <2>1. CASE Complete'
    <3>1. faults' = 0 /\ write' = "no" /\ sketch' = sketch
      BY <1>7, <2>1 DEF Ready, CountFaults
    <3>2. QED
      BY <1>2, <2>1, <3>1, CompleteIsClean DEF FaultInv
  <2>2. CASE ~Complete'
    <3>1. faults' = faults
      BY <1>7, <2>2 DEF Ready, CountFaults
    <3>2. QED
      BY <1>7, <3>1 DEF FaultInv, Ready, Modules
  <2>3. QED
    BY <2>1, <2>2
<1>8. CASE WriteBlock
  BY <1>8 DEF FaultInv, WriteBlock, WriteInv, Modules
<1>9. CASE WriteCrc
  <2>1. CASE Complete'
    <3>1. faults' = 0 /\ write' = "no" /\ sketch' = sketch
      BY <1>9, <2>1 DEF WriteCrc, CountFaults
    <3>2. QED
      BY <1>2, <2>1, <3>1, CompleteIsClean DEF FaultInv
  <2>2. CASE ~Complete'
    <3>1. faults' = faults /\ crc' = block
      BY <1>9, <2>2 DEF WriteCrc, CountFaults
    <3>2. QED
      BY <1>9, <3>1 DEF FaultInv, WriteCrc, WriteInv, Modules
  <2>3. QED
    BY <2>1, <2>2
<1>10. ASSUME NEW m \in Modules, Scan(m) PROVE FaultInv'
  BY <1>10 DEF FaultInv, Scan, Modules
<1>11. CASE PowerLoss
  <2>1. faults' = faults + 1 /\ pc' \in {"reset", "init"} /\ UNCHANGED sketch
    BY <1>11 DEF PowerLoss, Entry
  <2>2. \A m \in Modules' : ram'[m] = None
    BY <1>11 DEF PowerLoss, Empty, Modules
  <2>3. faults = 0 => \A m \in Modules' : crc'[m] \notin Garbage
    BY <1>11 DEF FaultInv, PowerLoss, Empty, Modules
  <2>4. QED
    BY <2>1, <2>2, <2>3 DEF FaultInv
<1>12. CASE UNCHANGED vars
  BY <1>12 DEF FaultInv, vars, Modules
<1>13. QED
  BY <1>3, <1>4, <1>5, <1>6, <1>7, <1>8, <1>9, <1>10, <1>11, <1>12 DEF Next, Step

\* eeconf_reset's mark in the first block never meets a CRC that was computed
\* over it.
LEMMA ResetStep ==
  ASSUME SafetyInv, [Next]_vars
  PROVE  ResetInv'
<1> SUFFICES ASSUME sketch'.reset # {} PROVE ResetInv'
  BY DEF ResetInv
<1>1. TypeOK /\ WriteInv /\ CrcInv /\ ResetInv
  BY DEF SafetyInv
<1>2. sketch' = sketch
  BY DEF Next, Step, Reset, CheckCrc, RainCheck, Apply, Ready, WriteBlock, WriteCrc,
         Scan, PowerLoss, vars
<1>3. sketch.reset # {} /\ 1 \in sketch.reset
  BY <1>1, <1>2, Shapes
<1> USE Shapes, <1>1, <1>2, <1>3
<1>4. CASE Reset
  BY <1>4 DEF ResetInv, WriteInv, Reset, Spoilt, Modules
<1>5. CASE CheckCrc
  BY <1>5 DEF ResetInv, WriteInv, CheckCrc, Modules, Default, None
<1>6. CASE RainCheck
  BY <1>6 DEF ResetInv, RainCheck, Modules
<1>7. CASE Apply
  BY <1>7 DEF ResetInv, Apply
<1>8. CASE Ready
  BY <1>8 DEF ResetInv, Ready, Modules
<1>9. CASE WriteBlock
  <2>1. cur = 1 => block'[1] = Default
    BY <1>9 DEF WriteBlock, WriteInv, ResetInv
  <2>2. cur # 1 => block'[1] = block[1] /\ cur > 1
    BY <1>9 DEF WriteBlock
  <2>3. QED
    BY <1>9, <2>1, <2>2 DEF ResetInv, WriteBlock, WriteInv, Modules
<1>10. CASE WriteCrc
  BY <1>10 DEF ResetInv, WriteCrc, WriteInv, Modules
<1>11. ASSUME NEW m \in Modules, Scan(m) PROVE ResetInv'
  BY <1>11 DEF ResetInv, Scan, Modules
<1>12. CASE PowerLoss
  <2>1. \A m \in Modules : ram'[m] = None
    BY <1>12 DEF PowerLoss, Empty, Modules
  <2>2. crc'[1] \in {Default, None}
    BY <1>12 DEF PowerLoss, Empty, Modules, ResetInv
  <2>3. pc' = "reset" /\ write' = "no"
    BY <1>12 DEF PowerLoss, Entry
  <2>4. QED
    BY <2>1, <2>2, <2>3 DEF ResetInv, Modules
<1>13. CASE UNCHANGED vars
  BY <1>13 DEF ResetInv, vars, Modules
<1>14. QED
  BY <1>4, <1>5, <1>6, <1>7, <1>8, <1>9, <1>10, <1>11, <1>12, <1>13 DEF Next, Step

\* A node boots for the first time with garbage in the EEPROM and no CRC.
LEMMA SafetyInit ==
  ASSUME Init
  PROVE  SafetyInv
<1>1. sketch \in Sketches /\ sketch.mods \in Nat \ {0} /\ MaxLosses \in Nat
  BY ConstantsAssumption DEF Init
<1>2. TypeOK
  BY <1>1 DEF Init, TypeOK, Modules, Contents, Garbage, Empty, Entry
<1>3. QED
  BY <1>1, <1>2, Shapes
     DEF Init, SafetyInv, WriteInv, RamInv, CrcInv, FaultInv, ResetInv, Empty, Entry, Modules

\* The invariant holds in every reachable state.
THEOREM SafetyInvariant == Spec => []SafetyInv
<1>1. SafetyInv /\ [Next]_vars => SafetyInv'
  BY TypeStep, WriteStep, RamStep, CrcStep, FaultStep, ResetStep DEF SafetyInv
<1>2. QED
  BY SafetyInit, <1>1, PTL DEF Spec

\* Every variable keeps its type, and no block ever holds an unset configuration.
THEOREM TypeCorrect == Spec => []TypeOK
<1>1. SafetyInv => TypeOK
  BY DEF SafetyInv
<1>2. QED
  BY SafetyInvariant, <1>1, PTL

\* A power loss at any point of a set-up or of a write, if it is the only one until
\* all blocks are written again, gives no module a block it never wrote.
THEOREM OneLossDoesNoHarm == Spec => []OneLossIsHarmless
<1>1. SafetyInv => OneLossIsHarmless
  BY DEF SafetyInv, FaultInv, OneLossIsHarmless
<1>2. QED
  BY SafetyInvariant, <1>1, PTL

\* With eeconf_reset at every boot, no number of power losses does harm.
THEOREM ResetDoesProtect == Spec => []ResetProtects
<1>1. SafetyInv => ResetProtects
  BY DEF SafetyInv, ResetInv, ResetProtects
<1>2. QED
  BY SafetyInvariant, <1>1, PTL

\* A node at rest has a valid CRC over what its modules use.
THEOREM RestIsSaved == Spec => []SavedAtRest
<1>1. SafetyInv => SavedAtRest
  BY DEF SafetyInv, CrcInv, RamInv, SavedAtRest
<1>2. QED
  BY SafetyInvariant, <1>1, PTL
================================================================================
