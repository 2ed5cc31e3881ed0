------------------------------ MODULE LocalStorage ------------------------------
(***************************************************************************)
(* The repositories of packages/storage/src/index.ts over the file store   *)
(* they are built on: each write a repository asks for is one write of     *)
(* AtomicStore, and the repository's operation goes on when that write is  *)
(* renamed into place, fails, or is lost with the process.                 *)
(***************************************************************************)
EXTENDS AtomicStore

CONSTANTS Readers, Owner, Legacy, MaxRecords

\* A record that is added is none of those an unversioned file held.
ASSUME ObjectsAssumption ==
    /\ Owner \notin Readers /\ MaxRecords \in Nat
    /\ Legacy \cap (1..MaxRecords) = {}

VARIABLES contents, pending, seen, step, status

allVars == <<target, backup, temps, queue, stage, attempt, outcome, faults,
             contents, pending, seen, step, status>>

Repository == INSTANCE Repositories

LocalInit == Init /\ Repository!Init

\* A repository hands its write to the store.
Ask ==
    /\ (\E o \in Repository!Objects : Repository!WriteInitial(o)) \/ Repository!WriteAdded
    /\ \E w \in Writes : Submit(w)

\* The store works on the oldest write; no repository sees a difference.
Advance ==
    /\ Flush \/ Copy
    /\ UNCHANGED <<contents, pending, seen, step, status>>

\* The target is held by someone else for a while.
Wait == Contended /\ UNCHANGED <<contents, pending, seen, step, status>>

\* A repository reads, whatever the store is doing.
Look ==
    /\ (\E o \in Readers : Repository!Read(o)) \/ (\E r \in Repository!Record : Repository!Add(r))
    /\ UNCHANGED <<target, backup, temps, queue, stage, attempt, outcome>>

Replace == Rename /\ Repository!Apply
Refuse == Fail /\ Repository!WriteFails
Stop == Crash /\ Repository!Crash

LocalNext == Ask \/ Advance \/ Wait \/ Look \/ Replace \/ Refuse \/ Stop

\* A write that has started goes on: nothing outside the process has to happen.
LocalSpec == LocalInit /\ [][LocalNext]_allVars /\ WF_allVars(Advance \/ Replace)

-----------------------------------------------------------------------------
\* Records of an unversioned file survive its migration, whoever migrates it, in
\* whatever order the objects read and write, and whichever writes fail or are cut
\* short.  A record the owner was told is added is lost only to a late initialisation:
\* another object read the path while it was missing or unversioned, and what it writes
\* is renamed into place after the record was.  Neither another append, nor a failed
\* write, nor a restart loses it.
RecordsKept == Repository!RecordsKept
==============================================================================
