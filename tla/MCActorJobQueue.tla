-------------------------- MODULE MCActorJobQueue --------------------------
(* Instances of ActorJobQueue for TLC. *)
EXTENDS ActorJobQueue, TLC

JobSymmetry == Permutations(Node)
=============================================================================
