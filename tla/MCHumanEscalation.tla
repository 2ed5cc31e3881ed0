---------------------------- MODULE MCHumanEscalation ----------------------------
(* Instances of HumanEscalation for TLC: two requests, each asked by the coordinator or
   directly, with one of two keys, and two employees who may approve. *)
EXTENDS HumanEscalation, TLC

CONSTANTS operator, admin, auditor
MCMembers == {operator, admin, auditor}
MCSymmetry == Permutations({admin, auditor}) \cup Permutations(Requests) \cup Permutations(Keys)
==============================================================================
