---------------------------- MODULE MCDurableTask ----------------------------
(* Instances of DurableTask for TLC. *)
EXTENDS DurableTask, TLC

(* The worker processes are interchangeable in the safety runs. *)
WorkerSymmetry == Permutations(Workers)
=============================================================================
