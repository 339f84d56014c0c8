---------------------------- MODULE MCAnchorWorker ----------------------------
(* Instances of AnchorWorker for TLC. *)
EXTENDS AnchorWorker, TLC

CONSTANTS w1, w2

\* Nothing tells the workers apart; for the safety run only.
WorkerSymmetry == Permutations(Workers)
=============================================================================
