------------------------- MODULE BridgeControllerMC -------------------------
(* The symmetry set of the model-checking runs of BridgeController.        *)
EXTENDS BridgeController, TLC

\* Bridge threads are interchangeable; the safety runs use it.
WorkerSymmetry == Permutations(Workers)
=============================================================================
