------------------------------- MODULE MCEEConf -------------------------------
(* Small instances of EEConf for TLC: the module lists of the sketches.       *)
EXTENDS EEConfProps

TempNode == [mods |-> 2, keeps |-> {}, reset |-> {}]
Thermocouple == [mods |-> 2, keeps |-> {}, reset |-> {1, 2}]
Greenhouse == [mods |-> 3, keeps |-> {3}, reset |-> {}]
GreenhouseReset == [mods |-> 3, keeps |-> {3}, reset |-> {1, 2}]
AllSketches == {TempNode, Thermocouple, Greenhouse, GreenhouseReset}
===============================================================================
