---------------------------- MODULE MCGovernedActions ----------------------------
(* Instances of GovernedActions for TLC.                                       *)
EXTENDS GovernedActions, TLC
CONSTANTS report, export
OneKeys == {export}
OneGates == (export :> "gated")
TwoKeys == {report, export}
TwoGates == (report :> "allowed") @@ (export :> "gated")
==============================================================================
