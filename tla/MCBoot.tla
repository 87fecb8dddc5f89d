--------------------------------- MODULE MCBoot ---------------------------------
(* Small instances of Boot for TLC.                                              *)
EXTENDS BootProps

\* Two versions, of which a mixture is neither.
TwoVersions == {<<"x", "y">>, <<"y", "x">>}
=================================================================================
