---------------------------- MODULE MCTaskStatus ----------------------------
(* Instances of TaskStatus for TLC. *)
EXTENDS TaskStatus, TLC

RecordSymmetry == Permutations(Record)
AgentSymmetry == Permutations(Agent)
Symmetry == RecordSymmetry \cup AgentSymmetry
=============================================================================
