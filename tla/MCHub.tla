---------------------------------- MODULE MCHub ----------------------------------
(* A small instance of the hub for TLC.                                           *)
EXTENDS HubProps

CONSTANTS g1, a1, a2, c1
=================================================================================
