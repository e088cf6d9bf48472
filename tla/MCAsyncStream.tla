---------------------------- MODULE MCAsyncStream ---------------------------
(* Instances of AsyncStream for TLC. *)
EXTENDS AsyncStream, TLC

MCPolicy == {[policy |-> "unbounded", count |-> 0], [policy |-> "newest", count |-> 0],
             [policy |-> "oldest", count |-> 1], [policy |-> "newest", count |-> 1]}

Symmetry == Permutations(Producer) \cup Permutations(Consumer)
=============================================================================
