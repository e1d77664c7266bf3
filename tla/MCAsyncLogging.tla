---------------------------- MODULE MCAsyncLogging ----------------------------
(* Five messages, two of them twice as long as the others.                 *)
EXTENDS AsyncLogging

MCMessages == 1..5
MCSize == [m \in MCMessages |-> IF m \in {2, 4} THEN 2 ELSE 1]
==============================================================================
