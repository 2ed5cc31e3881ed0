----------------------------- MODULE MCLocalStorage -----------------------------
(* Instances of LocalStorage for TLC.                                         *)
EXTENDS LocalStorage

CONSTANTS owner, o1, o2, old
TwoReaders == {o1, o2}
OldRecords == {old}
==============================================================================
