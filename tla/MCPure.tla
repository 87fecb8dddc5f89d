--------------------------------- MODULE MCPure ---------------------------------
(* Small inputs for TLC.                                                          *)
EXTENDS PureProps

\* 840 is divisible by all differences of times.
SomeValues == {0, 840, 2520}

\* Intervals of two and three units; an end that is pushed out; gaps allowed to be as
\* long as an interval, and longer.
SomeQueries ==
  { [start |-> 1, end |-> 3, step |-> 2, maxFill |-> 2],
    [start |-> 2, end |-> 5, step |-> 2, maxFill |-> 4],
    [start |-> 1, end |-> 5, step |-> 3, maxFill |-> 3] }
=================================================================================
