---------------------------- MODULE MCAssistant ----------------------------
(* Model checking of Assistant: two proposals, two sessions. *)
EXTENDS Assistant, TLC

CONSTANTS o1, s1, s2, q1, q2

MCDue == o1 :> 1
AsSymmetry == Permutations(Sessions) \cup Permutations(Proposals)
=============================================================================
