--------------------------- MODULE MCDefaultActor ---------------------------
(* Instances of DefaultActor for TLC. *)
EXTENDS DefaultActor

CONSTANTS j1, j2, t1, t2

\* j2 is created one priority above the other
MCBasePriority == [j \in Job |-> IF j = j2 THEN 2 ELSE 1]
=============================================================================
