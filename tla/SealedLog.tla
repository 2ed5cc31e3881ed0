------------------------------- MODULE SealedLog -------------------------------
(***************************************************************************)
(* What an authority ledger promises: entries are only ever added at the   *)
(* end, each once, and a log that is found damaged is sealed for good,     *)
(* unless somebody tampers with it.                                        *)
(***************************************************************************)
EXTENDS Naturals, Sequences

CONSTANT Entry

VARIABLES log, sealed, tampered

Init == log = <<>> /\ sealed = FALSE /\ tampered = 0

Record(e) ==
    /\ ~ sealed /\ \A i \in DOMAIN log : log[i] # e
    /\ log' = Append(log, e) /\ UNCHANGED <<sealed, tampered>>

Seal == ~ sealed /\ sealed' = TRUE /\ UNCHANGED <<log, tampered>>

\* Whoever tampers may leave any log behind.
Tamper ==
    /\ tampered' = tampered + 1
    /\ log' \in Seq(Entry) /\ sealed' \in BOOLEAN

Next == Seal \/ Tamper \/ \E e \in Entry : Record(e)

Spec == Init /\ [][Next]_<<log, sealed, tampered>>
==============================================================================
