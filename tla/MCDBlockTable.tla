---------------------------- MODULE MCDBlockTable ----------------------------
(* TLC instances of DBlockTable: keys that share a preferred slot, wrap    *)
(* around the end of the fields, and part when the table doubles.          *)
EXTENDS DBlockTable, TLC

CONSTANTS a, b, c, d, x, y

MCKey   == {a, b, c, d}
MCValue == {x, y}

\* a and b prefer the last slot at every size, c only up to four slots; d
\* prefers slot 0, where their probes go on.  b and c agree in the bytes that
\* equals compares.
MCHash     == (a :> 15) @@ (b :> 7) @@ (c :> 3) @@ (d :> 8)
MCCompared == (a :> 1) @@ (b :> 2) @@ (c :> 2) @@ (d :> 3)
=============================================================================
