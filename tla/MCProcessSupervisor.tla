--------------------------- MODULE MCProcessSupervisor ---------------------------
(* Instances of ProcessSupervisor for TLC: a provider and a probe of one session. *)
EXTENDS ProcessSupervisor

CONSTANTS provider, probe
MCRuns == {provider, probe}
MCProbes == {probe}
==============================================================================
