----------------------------- MODULE EEConfProps -----------------------------
(* What must hold of the configuration in EEPROM.                           *)
EXTENDS EEConf

Contents == Found \cup Garbage \cup {Default}

\* Every variable has the values the code gives it.
TypeOK ==
  /\ sketch \in Sketches
  /\ block \in [Modules -> Contents]
  /\ crc \in [Modules -> Contents \cup {None}]
  /\ pc \in {"reset", "init", "rain", "apply", "run"}
  /\ cur \in 1 .. sketch.mods + 1
  /\ write \in {"no", "block", "crc"} /\ (write # "no" => cur \in Modules)
  /\ ram \in [Modules -> Contents \cup {None}]
  /\ losses \in 0 .. MaxLosses
  /\ faults \in Nat

\* After one power loss, wherever it struck, no module is given a block that was
\* never written by it: eeconf_init finds the mismatch and starts over.  (After
\* a second one, before all blocks are written again, it may be: each
\* eeconf_write of the rain-check makes the CRC valid for the others' garbage.)
OneLossIsHarmless == faults <= 1 => \A m \in Modules : ram[m] \notin Garbage

\* A sketch that calls eeconf_reset never uses garbage, whatever the losses.
ResetProtects == sketch.reset # {} => \A m \in Modules : ram[m] \notin Garbage

\* While the node runs and writes nothing, the CRC matches, so that a power loss
\* costs nothing and every module is given at the next boot what it last saved.
SavedAtRest ==
  pc = "run" /\ write = "no" =>
    crc = block /\ \A m \in Modules : ram[m] \in {block[m], None}

\* If the power stays, every module gets a configuration and all is saved.
ComesUp == []<>(Complete \/ \E m \in Modules : ram[m] \in Garbage)
==============================================================================
