--------------------------- MODULE MCEvidenceLedger ---------------------------
(* An instance of EvidenceLedger for TLC.                                     *)
EXTENDS EvidenceLedger

CONSTANTS w1, w2
TwoWriters == {w1, w2}
==============================================================================
