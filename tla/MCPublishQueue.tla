--------------------------- MODULE MCPublishQueue ---------------------------
(* Instances of PublishQueue for TLC.                                      *)
EXTENDS PublishQueue, TLC

(* Requests of one kind are interchangeable (safety runs only).            *)
RequestSymmetry == Permutations(Ticks) \cup Permutations(Clicks)
=============================================================================
