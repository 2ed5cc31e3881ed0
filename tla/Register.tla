-------------------------------- MODULE Register --------------------------------
(***************************************************************************)
(* What AtomicFileStore promises of one path: its contents are replaced    *)
(* whole, by the writes asked for, in the order they were asked for.  A    *)
(* write may be dropped (it failed, and its caller is told), and a crash   *)
(* may drop all that wait.                                                 *)
(***************************************************************************)
EXTENDS Naturals, Sequences

CONSTANT Contents

VARIABLES contents, pending

Init == contents \in Contents /\ pending = <<>>

Submit(v) == pending' = Append(pending, v) /\ UNCHANGED contents

Apply == pending # <<>> /\ contents' = Head(pending) /\ pending' = Tail(pending)

Drop == pending # <<>> /\ pending' = Tail(pending) /\ UNCHANGED contents

Lose == pending' = <<>> /\ UNCHANGED contents

Next == (\E v \in Contents : Submit(v)) \/ Apply \/ Drop \/ Lose

Spec == Init /\ [][Next]_<<contents, pending>>
==============================================================================
