------------------------- MODULE MCContentWorkflow -------------------------
(* Small instances of ContentWorkflow: the workers and rows are model values,
   and interchangeable; two texts, of which the first is told apart. *)
EXTENDS ContentWorkflow, TLC

Symmetry == Permutations(Editors) \cup Permutations(Posts)

(* What the properties of ContentWorkflow_race depend on: no guard reads the
   history, none of them reads born and shared, and cleared matters only until
   raced. *)
Relevant == <<contentVars, linkedVars, post, wk, sent, raced, IF raced THEN {} ELSE cleared>>
=============================================================================
