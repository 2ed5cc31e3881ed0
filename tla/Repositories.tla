------------------------------ MODULE Repositories ------------------------------
(***************************************************************************)
(* The repositories of packages/storage/src/index.ts over one path, whose  *)
(* contents behave as Register (what AtomicStore implements).              *)
(*                                                                         *)
(* The owner of the path adds records to it, one at a time: it reads,      *)
(* writes the whole with the record added, and awaits the write, as        *)
(* LocalJsonlRepository.append does, and every service over its own        *)
(* VersionedJsonRepository.  Other objects read the path, and a read of a  *)
(* missing or unversioned file writes too: the initial data, or the        *)
(* migrated data.                                                          *)
(***************************************************************************)
EXTENDS Naturals, Sequences, FiniteSets

CONSTANTS
    Readers,        \* other repository objects over the path
    Owner,          \* the object that adds records
    Legacy,         \* records an unversioned file may already hold
    MaxRecords,     \* bound on the records added
    MaxFaults       \* bound on failed writes and crashes

VARIABLES
    contents,   \* the file: its form and its records
    pending,    \* the writes of the path that have not settled
    seen,       \* object -> the contents it read and is acting on
    step,       \* object -> where its operation stands
    status,     \* record -> what its caller was told
    faults

vars == <<contents, pending, seen, step, status, faults>>

Objects == Readers \cup {Owner}
Record == 1..MaxRecords
File == [form : {"missing", "legacy", "current"}, records : SUBSET (Record \cup Legacy)]
Current(records) == [form |-> "current", records |-> records]
Step == {"idle", "initialising", "awaiting-initial", "adding", "awaiting-added"}
Write == [by : Objects, file : File]

Init ==
    /\ contents \in {[form |-> "missing", records |-> {}], [form |-> "legacy", records |-> Legacy]}
    /\ pending = <<>>
    /\ seen = [o \in Objects |-> contents]
    /\ step = [o \in Objects |-> "idle"]
    /\ status = [r \in Record |-> "none"]
    /\ faults = 0

\* The record the owner is adding.
Adding == {r \in Record : status[r] = "adding"}

-----------------------------------------------------------------------------
(* read, write and append                                                   *)

\* A read settles at once on a current file, and must write on any other.
Read(o) ==
    /\ o \in Readers /\ step[o] = "idle" /\ contents.form # "current"
    /\ seen' = [seen EXCEPT ![o] = contents]
    /\ step' = [step EXCEPT ![o] = "initialising"]
    /\ UNCHANGED <<contents, pending, status, faults>>

\* The operations of the owner run one after another.  A file of JSON lines may be
\* missing; an envelope is written first.
Add(r) ==
    /\ step[Owner] = "idle"
    /\ status[r] = "none" /\ \A q \in Record : q < r => status[q] # "none"
    /\ status' = [status EXCEPT ![r] = "adding"]
    /\ seen' = [seen EXCEPT ![Owner] = contents]
    /\ \E next \in CASE contents.form = "current" -> {"adding"}
                      [] contents.form = "legacy" -> {"initialising"}
                      [] OTHER -> {"adding", "initialising"} :
          step' = [step EXCEPT ![Owner] = next]
    /\ UNCHANGED <<contents, pending, faults>>

\* Mutant: an unversioned file is treated as a missing one.
WriteInitialEmpty(o) ==
    /\ step[o] = "initialising"
    /\ pending' = Append(pending, [by |-> o, file |-> Current({})])
    /\ step' = [step EXCEPT ![o] = "awaiting-initial"]
    /\ UNCHANGED <<contents, seen, status, faults>>

\* The initial data, or the unversioned data in an envelope.
WriteInitial(o) ==
    /\ step[o] = "initialising"
    /\ pending' = Append(pending, [by |-> o, file |-> Current(seen[o].records)])
    /\ step' = [step EXCEPT ![o] = "awaiting-initial"]
    /\ UNCHANGED <<contents, seen, status, faults>>

WriteAdded ==
    /\ step[Owner] = "adding"
    /\ pending' = Append(pending,
                    [by |-> Owner, file |-> Current(seen[Owner].records \cup Adding)])
    /\ step' = [step EXCEPT ![Owner] = "awaiting-added"]
    /\ UNCHANGED <<contents, seen, status, faults>>

\* Mutant: the operation of an owner that could not initialise never settles.
ContinueUnanswered(written) ==
    LET w == Head(pending)
        adds == written /\ step[w.by] = "awaiting-initial" /\ w.by = Owner
    IN /\ step' = [step EXCEPT ![w.by] = IF adds THEN "adding" ELSE "idle"]
       /\ seen' = [seen EXCEPT ![w.by] = w.file]
       /\ status' = IF w.by # Owner \/ step[w.by] = "awaiting-initial" THEN status
                    ELSE [r \in Record |-> IF r \notin Adding THEN status[r]
                                           ELSE IF written THEN "added" ELSE "failed"]

\* The oldest write settles, and the object that asked for it goes on: the owner
\* to add its record to the data it initialised, anyone else to rest.
Continue(written) ==
    LET w == Head(pending)
        adds == written /\ step[w.by] = "awaiting-initial" /\ w.by = Owner
    IN /\ step' = [step EXCEPT ![w.by] = IF adds THEN "adding" ELSE "idle"]
       /\ seen' = [seen EXCEPT ![w.by] = w.file]
       /\ status' = IF w.by # Owner \/ adds THEN status
                    ELSE [r \in Record |-> IF r \notin Adding THEN status[r]
                                           ELSE IF written THEN "added" ELSE "failed"]

Apply ==
    /\ pending # <<>>
    /\ contents' = Head(pending).file /\ pending' = Tail(pending)
    /\ Continue(TRUE)
    /\ UNCHANGED faults

WriteFails ==
    /\ pending # <<>> /\ faults < MaxFaults /\ faults' = faults + 1
    /\ pending' = Tail(pending)
    /\ Continue(FALSE)
    /\ UNCHANGED contents

Crash ==
    /\ faults < MaxFaults /\ faults' = faults + 1
    /\ pending' = <<>>
    /\ step' = [o \in Objects |-> "idle"]
    /\ status' = [r \in Record |-> IF r \in Adding THEN "lost" ELSE status[r]]
    /\ UNCHANGED <<contents, seen>>

Next ==
    \/ \E o \in Readers : Read(o)
    \/ \E r \in Record : Add(r)
    \/ \E o \in Objects : WriteInitial(o)
    \/ WriteAdded \/ Apply \/ WriteFails \/ Crash

Spec == Init /\ [][Next]_vars

-----------------------------------------------------------------------------
(* Properties.                                                              *)

\* Besides the types: exactly the objects that await a write have one pending.
TypeOK ==
    /\ contents \in File /\ pending \in Seq(Write)
    /\ seen \in [Objects -> File] /\ step \in [Objects -> Step]
    /\ status \in [Record -> {"none", "adding", "added", "failed", "lost"}]
    /\ \A o \in Objects :
          Cardinality({i \in DOMAIN pending : pending[i].by = o})
              = IF step[o] \in {"awaiting-initial", "awaiting-added"} THEN 1 ELSE 0
    /\ Cardinality(Adding) = IF step[Owner] = "idle" THEN 0 ELSE 1
    /\ faults \in Nat

\* Records of an unversioned file survive its migration, whoever migrates it, in
\* whatever order the objects read and write, and whichever writes fail.  A record the
\* owner was told is added is lost only to a late initialisation: another object read
\* the path while it was missing or unversioned, and what it writes settles after the
\* record did.  Neither another append, nor a failed write, nor a restart loses it.
RecordsKept ==
    [][/\ Legacy \cap contents.records \subseteq contents'.records
       /\ \A r \in Record : (status[r] = "added" /\ r \in contents.records \ contents'.records)
             => /\ Head(pending).by \in Readers
                /\ step[Head(pending).by] = "awaiting-initial"]_vars
==============================================================================
