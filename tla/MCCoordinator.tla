---------------------------- MODULE MCCoordinator ----------------------------
(* Instances of Coordinator for TLC.                                       *)
EXTENDS Coordinator, TLC

WorkerSymmetry == Permutations(Worker)
TaskSymmetry == Permutations(Task)
=============================================================================
