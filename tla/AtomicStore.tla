------------------------------ MODULE AtomicStore ------------------------------
(***************************************************************************)
(* AtomicFileStore (packages/storage/src/index.ts) on one path.  A write   *)
(* fills a temporary file and flushes it, copies the current file to the   *)
(* backup, and renames the temporary file over the target.  A queue shared *)
(* by every store object of the process keeps the writes of a path apart.  *)
(*                                                                         *)
(* Each of these is a step of its own, and a failure, a contended rename   *)
(* or a crash may come before any of them.                                 *)
(***************************************************************************)
EXTENDS Naturals, Sequences

CONSTANTS
    Missing,        \* the contents of a file that is not there
    MaxWrites,      \* bound on the writes; a write's contents is its number
    MaxAttempts,    \* attempts at a contended rename (10 in the code)
    MaxFaults       \* bound on failures and crashes

ASSUME BoundsAssumption ==
    /\ {MaxWrites, MaxFaults} \subseteq Nat
    /\ MaxAttempts \in Nat \ {0}
    /\ Missing \notin Nat

\* Contents left by a write or a copy that was cut short
Torn == 0

VARIABLES
    target, backup, \* the contents of the file and of its .bak
    temps,          \* the temporary files: the write each was made for
    queue,          \* the writes of this path that have not settled
    stage,          \* how far the head of the queue has come
    attempt,        \* how often its rename was refused
    outcome,        \* write -> what its caller was told
    faults

vars == <<target, backup, temps, queue, stage, attempt, outcome, faults>>

Writes == 1..MaxWrites
Stage == {"waiting", "flushed", "copied"}
Outcome == {"none", "pending", "written", "failed", "lost"}

Init ==
    /\ target = Missing /\ backup = Missing
    /\ temps = {} /\ queue = <<>>
    /\ stage = "waiting" /\ attempt = 0
    /\ outcome = [w \in Writes |-> "none"]
    /\ faults = 0

-----------------------------------------------------------------------------
(* write, writeAtomic and renameWithContentionRetry                         *)

Submit(w) ==
    /\ outcome[w] = "none" /\ \A v \in Writes : v < w => outcome[v] # "none"
    /\ outcome' = [outcome EXCEPT ![w] = "pending"]
    /\ queue' = Append(queue, w)
    /\ UNCHANGED <<target, backup, temps, stage, attempt, faults>>

\* Mutant: a write that fails is never taken off the queue.
SettleWritten(result) ==
    /\ outcome' = [outcome EXCEPT ![Head(queue)] = result]
    /\ queue' = IF result = "written" THEN Tail(queue) ELSE queue
    /\ stage' = "waiting" /\ attempt' = 0

\* The head of the queue is done; the one behind it starts, whatever the result.
Settle(result) ==
    /\ outcome' = [outcome EXCEPT ![Head(queue)] = result]
    /\ queue' = Tail(queue)
    /\ stage' = "waiting" /\ attempt' = 0

\* Mutant: the contents go straight to the target.
FlushInPlace ==
    /\ queue # <<>> /\ stage = "waiting"
    /\ target' = Head(queue)
    /\ stage' = "flushed"
    /\ UNCHANGED <<backup, temps, queue, attempt, outcome, faults>>

\* Mutant: a write goes on only after the one before it succeeded.
FlushAfterSuccess ==
    /\ queue # <<>> /\ stage = "waiting"
    /\ \A v \in Writes : v < Head(queue) => outcome[v] # "failed"
    /\ temps' = temps \cup {Head(queue)}
    /\ stage' = "flushed"
    /\ UNCHANGED <<target, backup, queue, attempt, outcome, faults>>

Flush ==
    /\ queue # <<>> /\ stage = "waiting"
    /\ temps' = temps \cup {Head(queue)}
    /\ stage' = "flushed"
    /\ UNCHANGED <<target, backup, queue, attempt, outcome, faults>>

Copy ==
    /\ queue # <<>> /\ stage = "flushed"
    /\ backup' = IF target = Missing THEN backup ELSE target
    /\ stage' = "copied"
    /\ UNCHANGED <<target, temps, queue, attempt, outcome, faults>>

Rename ==
    /\ queue # <<>> /\ stage = "copied"
    /\ target' = Head(queue) /\ temps' = temps \ {Head(queue)}
    /\ Settle("written")
    /\ UNCHANGED <<backup, faults>>

\* EPERM or EBUSY: someone holds the target; the rename waits and tries again.
Contended ==
    /\ queue # <<>> /\ stage = "copied"
    /\ attempt + 1 < MaxAttempts /\ attempt' = attempt + 1
    /\ UNCHANGED <<target, backup, temps, queue, stage, outcome, faults>>

\* A step throws, the last refused rename included: the temporary file goes, and
\* a copy that was cut short leaves a torn backup.
Fail ==
    /\ queue # <<>> /\ faults < MaxFaults /\ faults' = faults + 1
    /\ backup' \in IF stage = "flushed" /\ target # Missing THEN {backup, Torn} ELSE {backup}
    /\ temps' = temps \ {Head(queue)}
    /\ Settle("failed")
    /\ UNCHANGED target

\* The process stops: every waiting write is lost, a temporary file may stay.
Crash ==
    /\ faults < MaxFaults /\ faults' = faults + 1
    /\ backup' \in IF stage = "flushed" /\ target # Missing THEN {backup, Torn} ELSE {backup}
    /\ outcome' = [w \in Writes |-> IF outcome[w] = "pending" THEN "lost" ELSE outcome[w]]
    /\ queue' = <<>> /\ stage' = "waiting" /\ attempt' = 0
    /\ UNCHANGED <<target, temps>>

Proceed == Flush \/ Copy \/ Rename

Next == (\E w \in Writes : Submit(w)) \/ Proceed \/ Contended \/ Fail \/ Crash

Spec == Init /\ [][Next]_vars

-----------------------------------------------------------------------------
(* Properties.                                                              *)

\* Besides the types: the queue holds exactly the pending writes, oldest first.
TypeOK ==
    /\ target \in Writes \cup {Missing}
    /\ backup \in Writes \cup {Missing, Torn}
    /\ temps \subseteq Writes
    /\ queue \in Seq(Writes) /\ stage \in Stage /\ attempt \in 0..(MaxAttempts - 1)
    /\ outcome \in [Writes -> Outcome]
    /\ \A w \in Writes : outcome[w] = "pending" <=> \E i \in DOMAIN queue : queue[i] = w
    /\ \A i, j \in DOMAIN queue : i < j => queue[i] < queue[j]
    /\ faults \in Nat

\* Every write is answered: a failure, a contended rename or a crash in front of
\* it does not block the queue.
EveryWriteSettles == \A w \in Writes : outcome[w] = "pending" ~> outcome[w] # "pending"

\* The path is a register that writes replace whole and in order.
Promised == INSTANCE Register WITH Contents <- Writes \cup {Missing},
                                   contents <- target, pending <- queue
RefinesRegister == Promised!Spec
==============================================================================
