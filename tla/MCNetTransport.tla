---------------------------- MODULE MCNetTransport ----------------------------
(* Small instances of NetTransport for TLC.                                    *)
EXTENDS NetTransportProps

CONSTANTS n1, n2
TwoNodes == {n1, n2}
OneNode == {n1}
Nowhere == {}
OneWay == {<<n1, n2>>}
===============================================================================
