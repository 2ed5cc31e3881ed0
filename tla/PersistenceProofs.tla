--------------------------- MODULE PersistenceProofs ---------------------------
(***************************************************************************)
(* Proofs about what is kept in files.                                     *)
(*                                                                         *)
(* AtomicStore and LocalStorage: for any number of writes, attempts and    *)
(* faults, a path is a register that is replaced whole and in order, and   *)
(* its queue holds exactly the pending writes, oldest first; and for any   *)
(* readers, legacy records and additions, no record is lost but to a late  *)
(* initialisation.                                                         *)
(*                                                                         *)
(* RuntimeAttachment, whose terminals, leases and events are kept so: for  *)
(* any terminals, clients and bounds, no terminal escapes its control, one *)
(* client at most owns the terminals, and what is replayed is complete.    *)
(***************************************************************************)
EXTENDS LocalStorage, RuntimeAttachment, TLAPS, SequenceTheorems, FiniteSetTheorems, WellFoundedInduction

-----------------------------------------------------------------------------
(* The queue.  That it is in order when a write joins it follows from the   *)
(* order in which writes are submitted.                                     *)

InOrder == \A v, w \in Writes : v < w /\ outcome[v] = "none" => outcome[w] = "none"

StoreInv == TypeOK /\ InOrder

LEMMA AppendElements ==
    ASSUME NEW S, NEW s \in Seq(S), NEW e \in S
    PROVE  /\ Append(s, e) \in Seq(S)
           /\ DOMAIN s = 1..Len(s) /\ Len(s) \in Nat
           /\ DOMAIN Append(s, e) = 1..(Len(s) + 1)
           /\ \A i \in DOMAIN s : Append(s, e)[i] = s[i]
           /\ Append(s, e)[Len(s) + 1] = e
  OBVIOUS

LEMMA TailElements ==
    ASSUME NEW S, NEW s \in Seq(S), s # <<>>
    PROVE  /\ Head(s) \in S /\ Head(s) = s[1] /\ Tail(s) \in Seq(S)
           /\ DOMAIN s = 1..Len(s) /\ Len(s) \in Nat \ {0}
           /\ DOMAIN Tail(s) = 1..(Len(s) - 1)
           /\ \A i \in DOMAIN Tail(s) : Tail(s)[i] = s[i + 1]
  OBVIOUS

\* What a write that settles leaves behind, whatever it is told.
LEMMA SettleKeeps ==
    ASSUME StoreInv, queue # <<>>, NEW result \in {"written", "failed"}, Settle(result)
    PROVE  /\ Head(queue) \in Writes
           /\ queue' \in Seq(Writes) /\ outcome' \in [Writes -> Outcome]
           /\ stage' \in Stage /\ attempt' \in 0..(MaxAttempts - 1)
           /\ \A w \in Writes : outcome'[w] = "pending" <=> \E i \in DOMAIN queue' : queue'[i] = w
           /\ \A i, j \in DOMAIN queue' : i < j => queue'[i] < queue'[j]
           /\ InOrder'
  <1> DEFINE h == Head(queue)
  <1>1. /\ h \in Writes /\ h = queue[1] /\ Tail(queue) \in Seq(Writes)
        /\ DOMAIN queue = 1..Len(queue) /\ Len(queue) \in Nat \ {0}
        /\ DOMAIN Tail(queue) = 1..(Len(queue) - 1)
        /\ \A i \in DOMAIN Tail(queue) : Tail(queue)[i] = queue[i + 1]
    BY TailElements DEF StoreInv, TypeOK
  <1>2. /\ queue' = Tail(queue) /\ outcome' = [outcome EXCEPT ![h] = result]
        /\ stage' = "waiting" /\ attempt' = 0
    BY DEF Settle
  <1>3. /\ outcome \in [Writes -> Outcome]
        /\ \A w \in Writes : outcome[w] = "pending" <=> \E i \in DOMAIN queue : queue[i] = w
        /\ \A i, j \in DOMAIN queue : i < j => queue[i] < queue[j]
    BY DEF StoreInv, TypeOK
  <1>4. outcome' \in [Writes -> Outcome]
    BY <1>1, <1>2, <1>3 DEF Outcome
  <1>5. \A i, j \in DOMAIN queue' : i < j => queue'[i] < queue'[j]
    BY <1>1, <1>2, <1>3
  <1>6. ASSUME NEW w \in Writes
        PROVE  outcome'[w] = "pending" <=> \E i \in DOMAIN queue' : queue'[i] = w
    <2>1. CASE w = h
      <3>1. outcome'[w] # "pending"
        BY <1>1, <1>2, <1>3, <2>1
      <3>2. ASSUME NEW i \in DOMAIN queue' PROVE queue'[i] # w
        <4>1. queue'[i] = queue[i + 1] /\ 1 < i + 1 /\ i + 1 \in DOMAIN queue /\ 1 \in DOMAIN queue
          BY <1>1, <1>2
        <4>2. queue[1] < queue[i + 1]
          BY <1>3, <4>1
        <4> QED BY <1>1, <2>1, <4>1, <4>2 DEF Writes
      <3> QED BY <3>1, <3>2
    <2>2. CASE w # h
      <3>1. outcome'[w] = outcome[w]
        BY <1>2, <1>3, <2>2
      <3>2. ASSUME NEW i \in DOMAIN queue, queue[i] = w PROVE \E j \in DOMAIN queue' : queue'[j] = w
        <4>1. i # 1
          BY <1>1, <2>2, <3>2
        <4>2. i - 1 \in DOMAIN queue' /\ queue'[i - 1] = queue[i]
          BY <1>1, <1>2, <4>1
        <4> QED BY <3>2, <4>2
      <3>3. ASSUME NEW j \in DOMAIN queue', queue'[j] = w PROVE \E i \in DOMAIN queue : queue[i] = w
        <4>1. j + 1 \in DOMAIN queue /\ queue[j + 1] = queue'[j]
          BY <1>1, <1>2
        <4> QED BY <3>3, <4>1
      <3> QED BY <1>3, <3>1, <3>2, <3>3
    <2> QED BY <2>1, <2>2
  <1>7. InOrder'
    <2>1. outcome[h] = "pending"
      BY <1>1, <1>3
    <2>2. InOrder
      BY DEF StoreInv
    <2> QED BY <1>1, <1>2, <1>3, <2>1, <2>2 DEF InOrder
  <1>8. stage' \in Stage /\ attempt' \in 0..(MaxAttempts - 1)
    BY <1>2, BoundsAssumption DEF Stage
  <1> QED BY <1>1, <1>2, <1>4, <1>5, <1>6, <1>7, <1>8

\* A write joins the queue behind all that were submitted before it.
LEMMA SubmitKeeps ==
    ASSUME StoreInv, NEW w \in Writes, Submit(w)
    PROVE  StoreInv'
  <1>1. /\ Append(queue, w) \in Seq(Writes)
        /\ DOMAIN queue = 1..Len(queue) /\ Len(queue) \in Nat
        /\ DOMAIN Append(queue, w) = 1..(Len(queue) + 1)
        /\ \A i \in DOMAIN queue : Append(queue, w)[i] = queue[i]
        /\ Append(queue, w)[Len(queue) + 1] = w
    BY AppendElements DEF StoreInv, TypeOK
  <1>2. /\ queue' = Append(queue, w) /\ outcome' = [outcome EXCEPT ![w] = "pending"]
        /\ outcome[w] = "none" /\ \A v \in Writes : v < w => outcome[v] # "none"
        /\ UNCHANGED <<target, backup, temps, stage, attempt, faults>>
    BY DEF Submit
  <1>3. /\ outcome \in [Writes -> Outcome] /\ queue \in Seq(Writes)
        /\ \A v \in Writes : outcome[v] = "pending" <=> \E i \in DOMAIN queue : queue[i] = v
        /\ \A i, j \in DOMAIN queue : i < j => queue[i] < queue[j]
        /\ InOrder
    BY DEF StoreInv, TypeOK
  <1>4. outcome' \in [Writes -> Outcome]
    BY <1>2, <1>3 DEF Outcome
  <1>5. ASSUME NEW i \in DOMAIN queue PROVE queue[i] < w
    <2>1. queue[i] \in Writes /\ outcome[queue[i]] = "pending"
      BY <1>3, ElementOfSeq, LenProperties
    <2>2. queue[i] # w
      BY <1>2, <2>1
    <2>3. ~ (w < queue[i])
      BY <1>2, <1>3, <2>1 DEF InOrder
    <2> QED BY <2>1, <2>2, <2>3 DEF Writes
  <1>6. \A i, j \in DOMAIN queue' : i < j => queue'[i] < queue'[j]
    BY <1>1, <1>2, <1>3, <1>5
  <1>7. ASSUME NEW v \in Writes
        PROVE  outcome'[v] = "pending" <=> \E i \in DOMAIN queue' : queue'[i] = v
    <2>1. CASE v = w
      BY <1>1, <1>2, <1>3, <2>1
    <2>2. CASE v # w
      <3>1. outcome'[v] = outcome[v]
        BY <1>2, <1>3, <2>2
      <3>2. (\E i \in DOMAIN queue' : queue'[i] = v) <=> (\E i \in DOMAIN queue : queue[i] = v)
        BY <1>1, <1>2, <2>2
      <3> QED BY <1>3, <3>1, <3>2
    <2> QED BY <2>1, <2>2
  <1>8. InOrder'
    BY <1>2, <1>3 DEF InOrder, Writes
  <1> QED BY <1>1, <1>2, <1>4, <1>6, <1>7, <1>8 DEF StoreInv, TypeOK

\* A stop empties the queue, and what was pending is lost.
LEMMA CrashKeeps ==
    ASSUME StoreInv, Crash
    PROVE  StoreInv'
  <1>1. /\ queue' = <<>> /\ stage' = "waiting" /\ attempt' = 0 /\ faults' = faults + 1
        /\ UNCHANGED <<target, temps>> /\ backup' \in {backup, Torn}
        /\ outcome' = [w \in Writes |-> IF outcome[w] = "pending" THEN "lost" ELSE outcome[w]]
    BY DEF Crash
  <1>2. outcome' \in [Writes -> Outcome] /\ \A w \in Writes : outcome'[w] # "pending"
    BY <1>1 DEF StoreInv, TypeOK, Outcome
  <1>3. InOrder'
    BY <1>1 DEF StoreInv, InOrder
  <1>4. queue' \in Seq(Writes) /\ DOMAIN queue' = {}
    BY <1>1
  <1>5. stage' \in Stage /\ attempt' \in 0..(MaxAttempts - 1)
    BY <1>1, BoundsAssumption DEF Stage
  <1> QED BY <1>1, <1>2, <1>3, <1>4, <1>5 DEF StoreInv, TypeOK

\* StoreInv is inductive.
LEMMA StoreInvariant ==
    ASSUME StoreInv, [Next]_vars
    PROVE  StoreInv'
  <1> USE DEF StoreInv
  <1>1. ASSUME NEW w \in Writes, Submit(w) PROVE StoreInv'
    BY <1>1, SubmitKeeps
  <1>2. CASE Flush
    <2>1. Head(queue) \in Writes
      BY <1>2, TailElements DEF Flush, TypeOK
    <2> QED BY <1>2, <2>1 DEF Flush, TypeOK, InOrder, Stage
  <1>3. CASE Copy
    BY <1>3 DEF Copy, TypeOK, InOrder, Stage
  <1>4. CASE Rename
    <2>1. Settle("written") /\ queue # <<>>
      BY <1>4 DEF Rename
    <2>2. target' = Head(queue) /\ temps' = temps \ {Head(queue)} /\ UNCHANGED <<backup, faults>>
      BY <1>4 DEF Rename
    <2> QED BY <2>1, <2>2, SettleKeeps DEF TypeOK
  <1>5. CASE Contended
    BY <1>5, BoundsAssumption DEF Contended, TypeOK, InOrder
  <1>6. CASE Fail
    <2>1. Settle("failed") /\ queue # <<>>
      BY <1>6 DEF Fail
    <2>2. /\ backup' \in {backup, Torn} /\ temps' = temps \ {Head(queue)}
          /\ faults' = faults + 1 /\ UNCHANGED target
      BY <1>6 DEF Fail
    <2> QED BY <2>1, <2>2, SettleKeeps DEF TypeOK
  <1>7. CASE Crash
    BY <1>7, CrashKeeps
  <1>8. CASE UNCHANGED vars
    BY <1>8 DEF vars, TypeOK, InOrder
  <1> QED BY <1>1, <1>2, <1>3, <1>4, <1>5, <1>6, <1>7, <1>8 DEF Next, Proceed

\* Whatever fails or stops, and however often, the queue of a path holds exactly the
\* writes that are pending, each once, oldest first.
THEOREM QueueHoldsPending == Spec => []TypeOK
  <1>1. Init => StoreInv
    <2>1. ASSUME Init PROVE InOrder
      BY <2>1 DEF Init, InOrder
    <2>2. ASSUME Init PROVE TypeOK
      BY <2>2, BoundsAssumption DEF Init, TypeOK, Stage, Outcome
    <2> QED BY <2>1, <2>2 DEF StoreInv
  <1>2. StoreInv /\ [Next]_vars => StoreInv'
    BY StoreInvariant
  <1>3. StoreInv => TypeOK
    BY DEF StoreInv
  <1> QED BY <1>1, <1>2, <1>3, PTL DEF Spec

-----------------------------------------------------------------------------
(* The refinement.                                                          *)

\* Each step of the store is a step of the register: a write enters the queue, its
\* rename applies it, a failure drops it, a crash drops all that wait, and flushing,
\* copying and waiting for a contended rename are invisible.
LEMMA StepRefines ==
    ASSUME [Next]_vars
    PROVE  [Promised!Next]_<<target, queue>>
  <1>1. ASSUME NEW w \in Writes, Submit(w) PROVE Promised!Submit(w)
    BY <1>1 DEF Submit, Promised!Submit
  <1>2. CASE Flush
    BY <1>2 DEF Flush
  <1>3. CASE Copy
    BY <1>3 DEF Copy
  <1>4. CASE Rename
    <2>1. Promised!Apply
      BY <1>4 DEF Rename, Settle, Promised!Apply
    <2> QED BY <2>1 DEF Promised!Next
  <1>5. CASE Contended
    BY <1>5 DEF Contended
  <1>6. CASE Fail
    <2>1. Promised!Drop
      BY <1>6 DEF Fail, Settle, Promised!Drop
    <2> QED BY <2>1 DEF Promised!Next
  <1>7. CASE Crash
    <2>1. Promised!Lose
      BY <1>7 DEF Crash, Promised!Lose
    <2> QED BY <2>1 DEF Promised!Next
  <1>8. CASE UNCHANGED vars
    BY <1>8 DEF vars
  <1> QED BY <1>1, <1>2, <1>3, <1>4, <1>5, <1>6, <1>7, <1>8 DEF Next, Proceed, Promised!Next

\* AtomicFileStore keeps the promise of Register, whatever fails or stops and however
\* often: no reader of the path ever finds a part of a write, or an older one after a
\* newer one.
THEOREM ImplementsRegister == Spec => RefinesRegister
  <1>1. Init => Promised!Init
    BY DEF Init, Promised!Init
  <1> QED BY <1>1, StepRefines, PTL DEF Spec, RefinesRegister, Promised!Spec

-----------------------------------------------------------------------------
(* The repositories.  What a write will put in the path is what its object  *)
(* read before, so the invariant speaks of what objects have seen and of    *)
(* the writes that are pending, in terms of what the path holds meanwhile.  *)

Record == Repository!Record
File == Repository!File
Objects == Repository!Objects

RepositoryTypes ==
    /\ contents \in File /\ pending \in Seq(Repository!Write)
    /\ seen \in [Objects -> File] /\ step \in [Objects -> Repository!Step]
    /\ status \in [Record -> {"none", "adding", "added", "failed", "lost"}]

\* An object awaits its own write, one at a time, and readers only initialise.
Awaited ==
    /\ \A i \in DOMAIN pending :
          /\ step[pending[i].by] \in {"awaiting-initial", "awaiting-added"}
          /\ pending[i].by \in Readers => step[pending[i].by] = "awaiting-initial"
          /\ pending[i].file.form = "current"
    /\ \A i, j \in DOMAIN pending : pending[i].by = pending[j].by => i = j

\* Whatever is read or written has the records of the unversioned file.
OldRecords(file) == Legacy \cap file.records

Migrated ==
    /\ \A o \in Objects : OldRecords(seen[o]) = OldRecords(contents)
    /\ \A i \in DOMAIN pending : OldRecords(pending[i].file) = OldRecords(contents)

\* What a reader initialises has no record of the owner, since it read none.
NewRecords(file) == Record \cap file.records

Initialised ==
    /\ contents.form # "current" => NewRecords(contents) = {}
    /\ \A o \in Readers : step[o] = "initialising" => NewRecords(seen[o]) = {}
    /\ \A i \in DOMAIN pending : pending[i].by \in Readers => NewRecords(pending[i].file) = {}

\* What the owner is about to write holds the added records that are there.
Holds(file) == \A r \in Record : status[r] = "added" /\ r \in contents.records => r \in file.records

OwnerHolds ==
    /\ step[Owner] \in {"initialising", "adding"} => Holds(seen[Owner])
    /\ \A i \in DOMAIN pending : pending[i].by = Owner => Holds(pending[i].file)

RepositoryInv == RepositoryTypes /\ Awaited /\ Migrated /\ Initialised /\ OwnerHolds


LEMMA Places ==
    /\ Objects = Readers \cup {Owner} /\ Owner \notin Readers
    /\ Record = 1..MaxRecords /\ Legacy \cap Record = {}
  BY ObjectsAssumption DEF Objects, Record, Repository!Objects, Repository!Record

LEMMA FileFacts ==
    ASSUME NEW f \in File
    PROVE  f.records \in SUBSET (Record \cup Legacy)
  BY DEF File, Repository!File, Record

LEMMA CurrentFacts ==
    ASSUME NEW records \in SUBSET (Record \cup Legacy)
    PROVE  /\ Repository!Current(records) \in File
           /\ Repository!Current(records).form = "current"
           /\ Repository!Current(records).records = records
  BY DEF File, Repository!File, Record, Repository!Current

LEMMA WriteFacts ==
    ASSUME RepositoryTypes
    PROVE  /\ \A i \in DOMAIN pending : /\ pending[i].by \in Objects /\ pending[i].file \in File
           /\ \A o \in Objects : seen[o] \in File /\ step[o] \in Repository!Step
  <1>1. \A i \in DOMAIN pending : pending[i] \in Repository!Write
    BY DEF RepositoryTypes
  <1> QED BY <1>1 DEF RepositoryTypes, Repository!Write, Objects, File

\* An object hands the write it prepared to the path.
LEMMA Joins ==
    ASSUME RepositoryInv, NEW o \in Objects, NEW f \in File, NEW to,
           to \in {"awaiting-initial", "awaiting-added"},
           step[o] \in {"initialising", "adding"},
           pending' = Append(pending, [by |-> o, file |-> f]), step' = [step EXCEPT ![o] = to],
           f.form = "current", OldRecords(f) = OldRecords(contents),
           o \in Readers => to = "awaiting-initial" /\ NewRecords(f) = {},
           o = Owner => Holds(f),
           UNCHANGED <<contents, seen, status>>
    PROVE  RepositoryInv'
  <1> DEFINE w == [by |-> o, file |-> f]
  <1>1. w \in Repository!Write /\ w.by = o /\ w.file = f
    BY DEF Repository!Write, Objects, File
  <1>2. RepositoryTypes
    BY DEF RepositoryInv
  <1> HIDE DEF w
  <1>3. /\ pending' \in Seq(Repository!Write)
        /\ DOMAIN pending = 1..Len(pending) /\ Len(pending) \in Nat
        /\ DOMAIN pending' = 1..(Len(pending) + 1)
        /\ \A i \in DOMAIN pending : pending'[i] = pending[i]
        /\ pending'[Len(pending) + 1] = w
    <2>1. pending \in Seq(Repository!Write) /\ pending' = Append(pending, w)
      BY <1>2 DEF RepositoryTypes, w
    <2> QED BY <1>1, <2>1, AppendElements
  <1>4. \A i \in DOMAIN pending' : i \in DOMAIN pending \/ i = Len(pending) + 1
    BY <1>3
  <1>5. step'[o] = to /\ \A x \in Objects : x # o => step'[x] = step[x]
    BY <1>2 DEF RepositoryTypes
  <1>6. \A i \in DOMAIN pending : pending[i].by \in Objects /\ pending[i].by # o
    BY <1>2, WriteFacts DEF RepositoryInv, Awaited
  <1>7. RepositoryTypes'
    BY <1>2, <1>3 DEF RepositoryTypes, Repository!Step
  <1>8. Awaited'
    <2>1. ASSUME NEW i \in DOMAIN pending'
          PROVE  /\ step'[pending'[i].by] \in {"awaiting-initial", "awaiting-added"}
                 /\ pending'[i].by \in Readers => step'[pending'[i].by] = "awaiting-initial"
                 /\ pending'[i].file.form = "current"
      <3>1. CASE i = Len(pending) + 1
        BY <1>1, <1>3, <1>5, <3>1
      <3>2. CASE i \in DOMAIN pending
        BY <1>3, <1>5, <1>6, <3>2 DEF RepositoryInv, Awaited
      <3> QED BY <1>4, <3>1, <3>2
    <2>2. ASSUME NEW i \in DOMAIN pending', NEW j \in DOMAIN pending', pending'[i].by = pending'[j].by
          PROVE  i = j
      BY <1>1, <1>3, <1>4, <1>6, <2>2 DEF RepositoryInv, Awaited
    <2> QED BY <2>1, <2>2 DEF Awaited
  <1>9. Migrated'
    BY <1>1, <1>3, <1>4 DEF RepositoryInv, Migrated, OldRecords
  <1>10. Initialised'
    <2>1. \A x \in Readers : step'[x] = "initialising" => step[x] = "initialising"
      BY <1>5, Places
    <2> QED BY <1>1, <1>3, <1>4, <2>1 DEF RepositoryInv, Initialised, NewRecords
  <1>11. OwnerHolds'
    <2>1. Owner \in Objects /\ (step'[Owner] \in {"initialising", "adding"} => step'[Owner] = step[Owner])
      BY <1>5, Places
    <2> QED BY <1>1, <1>3, <1>4, <2>1 DEF RepositoryInv, OwnerHolds, Holds
  <1> QED BY <1>7, <1>8, <1>9, <1>10, <1>11 DEF RepositoryInv

\* The oldest write settles: it is in place, or it failed.
LEMMA Continues ==
    ASSUME RepositoryInv, pending # <<>>, NEW written \in BOOLEAN, Repository!Continue(written),
           pending' = Tail(pending),
           contents' = IF written THEN Head(pending).file ELSE contents
    PROVE  RepositoryInv'
  <1> DEFINE w == Head(pending)
  <1>1. /\ RepositoryTypes /\ w \in Repository!Write /\ w = pending[1] /\ pending' \in Seq(Repository!Write)
        /\ DOMAIN pending = 1..Len(pending) /\ Len(pending) \in Nat \ {0} /\ 1 \in DOMAIN pending
        /\ DOMAIN pending' = 1..(Len(pending) - 1)
        /\ \A i \in DOMAIN pending' : i + 1 \in DOMAIN pending /\ i + 1 # 1 /\ pending'[i] = pending[i + 1]
    BY TailElements DEF RepositoryInv, RepositoryTypes
  <1>2. /\ w.by \in Objects /\ w.file \in File
    BY <1>1, WriteFacts
  <1>3. PICK to \in {"adding", "idle"} :
           /\ step' = [step EXCEPT ![w.by] = to]
           /\ to = "adding" => written /\ w.by = Owner /\ status' = status
    BY DEF Repository!Continue
  <1>4. /\ seen' = [seen EXCEPT ![w.by] = w.file]
        /\ w.by # Owner => status' = status
        /\ status' \in [Record -> {"none", "adding", "added", "failed", "lost"}]
    BY <1>1 DEF Repository!Continue, RepositoryTypes, Record, Repository!Record
  <1>5. /\ step'[w.by] = to /\ seen'[w.by] = w.file
        /\ \A x \in Objects : x # w.by => step'[x] = step[x] /\ seen'[x] = seen[x]
    BY <1>1, <1>2, <1>3, <1>4 DEF RepositoryTypes
  <1>6. /\ OldRecords(w.file) = OldRecords(contents) /\ w.file.form = "current"
        /\ w.by \in Readers => NewRecords(w.file) = {}
    <2>1. Awaited /\ Migrated /\ Initialised /\ 1 \in DOMAIN pending /\ w = pending[1]
      BY <1>1 DEF RepositoryInv
    <2> HIDE DEF w
    <2>2. OldRecords(w.file) = OldRecords(contents) /\ w.file.form = "current"
      BY <2>1 DEF Awaited, Migrated
    <2>3. w.by \in Readers => NewRecords(w.file) = {}
      BY <2>1 DEF Initialised
    <2> QED BY <2>2, <2>3
  <1>7. \A i \in DOMAIN pending' : pending'[i].by \in Objects /\ pending'[i].by # w.by
    BY <1>1, WriteFacts DEF RepositoryInv, Awaited
  <1> HIDE DEF w
  <1>8. RepositoryTypes'
    <2>1. contents' \in File
      BY <1>1, <1>2 DEF RepositoryTypes, w
    <2> QED BY <1>1, <1>2, <1>3, <1>4, <2>1 DEF RepositoryTypes, Repository!Step
  <1>9. Awaited'
    <2>1. ASSUME NEW i \in DOMAIN pending'
          PROVE  /\ step'[pending'[i].by] \in {"awaiting-initial", "awaiting-added"}
                 /\ pending'[i].by \in Readers => step'[pending'[i].by] = "awaiting-initial"
                 /\ pending'[i].file.form = "current"
      BY <1>1, <1>5, <1>7 DEF RepositoryInv, Awaited
    <2>2. ASSUME NEW i \in DOMAIN pending', NEW j \in DOMAIN pending', pending'[i].by = pending'[j].by
          PROVE  i = j
      <3>1. i + 1 = j + 1 /\ i \in Nat /\ j \in Nat
        BY <1>1, <2>2 DEF RepositoryInv, Awaited
      <3> QED BY <3>1
    <2> QED BY <2>1, <2>2 DEF Awaited
  <1>10. OldRecords(contents)' = OldRecords(contents)
    BY <1>6 DEF OldRecords, w
  <1>11. Migrated'
    <2>1. ASSUME NEW x \in Objects PROVE OldRecords(seen'[x]) = OldRecords(contents)
      BY <1>5, <1>6 DEF RepositoryInv, Migrated
    <2>2. ASSUME NEW i \in DOMAIN pending' PROVE OldRecords(pending'[i].file) = OldRecords(contents)
      BY <1>1 DEF RepositoryInv, Migrated
    <2> QED BY <1>10, <2>1, <2>2 DEF Migrated, OldRecords
  <1>12. Initialised'
    <2>1. contents'.form # "current" => NewRecords(contents') = {}
      BY <1>6 DEF RepositoryInv, Initialised, w
    <2>2. ASSUME NEW x \in Readers, step'[x] = "initialising" PROVE NewRecords(seen'[x]) = {}
      BY <1>3, <1>5, <2>2, Places DEF RepositoryInv, Initialised
    <2>3. ASSUME NEW i \in DOMAIN pending', pending'[i].by \in Readers
          PROVE  NewRecords(pending'[i].file) = {}
      BY <1>1, <2>3 DEF RepositoryInv, Initialised
    <2> QED BY <2>1, <2>2, <2>3 DEF Initialised, NewRecords
  <1>13. OwnerHolds'
    <2>1. CASE w.by = Owner
      <3>1. step'[Owner] = "adding" => Holds(seen[Owner])'
        BY <1>3, <1>5, <2>1 DEF Holds, w
      <3>2. \A i \in DOMAIN pending' : pending'[i].by # Owner
        BY <1>7, <2>1
      <3> QED BY <1>3, <1>5, <2>1, <3>1, <3>2 DEF OwnerHolds
    <2>2. CASE w.by # Owner
      <3>1. Owner \in Objects /\ w.by \in Readers /\ status' = status
        BY <1>2, <1>4, <2>2, Places
      <3>2. step'[Owner] = step[Owner] /\ seen'[Owner] = seen[Owner]
        BY <1>5, <2>2, <3>1
      <3>3. \A f : Holds(f) => \A r \in Record : status'[r] = "added" /\ r \in contents'.records => r \in f.records
        BY <1>6, <3>1 DEF Holds, NewRecords, w
      <3>4. ASSUME NEW i \in DOMAIN pending', pending'[i].by = Owner PROVE Holds(pending'[i].file)
        BY <1>1, <3>4 DEF RepositoryInv, OwnerHolds
      <3>5. step[Owner] \in {"initialising", "adding"} => Holds(seen[Owner])
        BY DEF RepositoryInv, OwnerHolds
      <3> QED BY <3>2, <3>3, <3>4, <3>5 DEF OwnerHolds, Holds
    <2> QED BY <2>1, <2>2
  <1> QED BY <1>8, <1>9, <1>11, <1>12, <1>13 DEF RepositoryInv

LEMMA ReadKeeps == ASSUME RepositoryInv, NEW o \in Readers, Repository!Read(o) PROVE RepositoryInv'
  <1>1. /\ step[o] = "idle" /\ contents.form # "current"
        /\ seen' = [seen EXCEPT ![o] = contents] /\ step' = [step EXCEPT ![o] = "initialising"]
        /\ UNCHANGED <<contents, pending, status>>
    BY DEF Repository!Read
  <1>2. RepositoryTypes /\ o \in Objects /\ o # Owner /\ Owner \in Objects
    BY Places DEF RepositoryInv
  <1>3. /\ step'[o] = "initialising" /\ seen'[o] = contents
        /\ \A x \in Objects : x # o => step'[x] = step[x] /\ seen'[x] = seen[x]
    BY <1>1, <1>2 DEF RepositoryTypes
  <1>4. \A i \in DOMAIN pending : pending[i].by \in Objects /\ pending[i].by # o
    BY <1>1, <1>2, WriteFacts DEF RepositoryInv, Awaited
  <1>5. RepositoryTypes'
    BY <1>1, <1>2 DEF RepositoryTypes, Repository!Step
  <1>6. Awaited'
    BY <1>1, <1>3, <1>4 DEF RepositoryInv, Awaited
  <1>7. Migrated'
    BY <1>1, <1>3 DEF RepositoryInv, Migrated, OldRecords
  <1>8. Initialised'
    BY <1>1, <1>3, Places DEF RepositoryInv, Initialised, NewRecords
  <1>9. OwnerHolds'
    BY <1>1, <1>2, <1>3 DEF RepositoryInv, OwnerHolds, Holds
  <1> QED BY <1>5, <1>6, <1>7, <1>8, <1>9 DEF RepositoryInv

LEMMA AddKeeps == ASSUME RepositoryInv, NEW r \in Record, Repository!Add(r) PROVE RepositoryInv'
  <1>1. PICK next \in {"adding", "initialising"} :
           /\ step[Owner] = "idle" /\ status' = [status EXCEPT ![r] = "adding"]
           /\ seen' = [seen EXCEPT ![Owner] = contents] /\ step' = [step EXCEPT ![Owner] = next]
           /\ UNCHANGED <<contents, pending>>
    <2>1. PICK next : /\ next \in CASE contents.form = "current" -> {"adding"}
                                    [] contents.form = "legacy" -> {"initialising"}
                                    [] OTHER -> {"adding", "initialising"}
                      /\ step' = [step EXCEPT ![Owner] = next]
      BY DEF Repository!Add
    <2>2. next \in {"adding", "initialising"}
      BY <2>1
    <2> QED BY <2>1, <2>2 DEF Repository!Add
  <1>2. RepositoryTypes /\ Owner \in Objects /\ Owner \notin Readers
    BY Places DEF RepositoryInv
  <1>3. /\ step'[Owner] = next /\ seen'[Owner] = contents
        /\ \A x \in Objects : x # Owner => step'[x] = step[x] /\ seen'[x] = seen[x]
    BY <1>1, <1>2 DEF RepositoryTypes
  <1>4. \A i \in DOMAIN pending : pending[i].by \in Objects /\ pending[i].by # Owner
    BY <1>1, <1>2, WriteFacts DEF RepositoryInv, Awaited
  <1>5. RepositoryTypes'
    BY <1>1, <1>2 DEF RepositoryTypes, Repository!Step
  <1>6. Awaited'
    BY <1>1, <1>3, <1>4 DEF RepositoryInv, Awaited
  <1>7. Migrated'
    BY <1>1, <1>3 DEF RepositoryInv, Migrated, OldRecords
  <1>8. Initialised'
    BY <1>1, <1>2, <1>3, Places DEF RepositoryInv, Initialised, NewRecords
  <1>9. OwnerHolds'
    BY <1>1, <1>3, <1>4 DEF RepositoryInv, OwnerHolds, Holds
  <1> QED BY <1>5, <1>6, <1>7, <1>8, <1>9 DEF RepositoryInv

LEMMA WriteInitialKeeps ==
    ASSUME RepositoryInv, NEW o \in Objects, Repository!WriteInitial(o) PROVE RepositoryInv'
  <1> DEFINE f == Repository!Current(seen[o].records)
  <1>1. /\ step[o] = "initialising" /\ pending' = Append(pending, [by |-> o, file |-> f])
        /\ step' = [step EXCEPT ![o] = "awaiting-initial"]
        /\ UNCHANGED <<contents, seen, status>>
    BY DEF Repository!WriteInitial
  <1>2. seen[o] \in File /\ seen[o].records \in SUBSET (Record \cup Legacy)
    BY WriteFacts, FileFacts DEF RepositoryInv
  <1>3. f \in File /\ f.form = "current" /\ f.records = seen[o].records
    BY <1>2, CurrentFacts
  <1> HIDE DEF f
  <1>4. OldRecords(f) = OldRecords(contents)
    BY <1>3 DEF RepositoryInv, Migrated, OldRecords
  <1>5. o \in Readers => NewRecords(f) = {}
    BY <1>1, <1>3 DEF RepositoryInv, Initialised, NewRecords
  <1>6. o = Owner => Holds(f)
    BY <1>1, <1>3 DEF RepositoryInv, OwnerHolds, Holds
  <1> QED BY <1>1, <1>3, <1>4, <1>5, <1>6, Joins

LEMMA WriteAddedKeeps == ASSUME RepositoryInv, Repository!WriteAdded PROVE RepositoryInv'
  <1> DEFINE f == Repository!Current(seen[Owner].records \cup Repository!Adding)
  <1>1. /\ step[Owner] = "adding" /\ pending' = Append(pending, [by |-> Owner, file |-> f])
        /\ step' = [step EXCEPT ![Owner] = "awaiting-added"]
        /\ UNCHANGED <<contents, seen, status>>
    BY DEF Repository!WriteAdded
  <1>2. Owner \in Objects /\ Owner \notin Readers /\ Repository!Adding \subseteq Record
    BY Places DEF Repository!Adding, Record
  <1>3. seen[Owner].records \cup Repository!Adding \in SUBSET (Record \cup Legacy)
    <2>1. seen[Owner] \in File
      BY <1>2, WriteFacts DEF RepositoryInv
    <2>2. seen[Owner].records \in SUBSET (Record \cup Legacy)
      BY <2>1, FileFacts
    <2> QED BY <1>2, <2>2
  <1>4. f \in File /\ f.form = "current" /\ f.records = seen[Owner].records \cup Repository!Adding
    BY <1>3, CurrentFacts
  <1> HIDE DEF f
  <1>5. OldRecords(f) = OldRecords(contents)
    <2>1. OldRecords(f) = OldRecords(seen[Owner])
      BY <1>2, <1>4, Places DEF OldRecords
    <2> QED BY <1>2, <2>1 DEF RepositoryInv, Migrated
  <1>6. Holds(f)
    BY <1>1, <1>4 DEF RepositoryInv, OwnerHolds, Holds
  <1> QED BY <1>1, <1>2, <1>4, <1>5, <1>6, Joins

LEMMA RestartKeeps == ASSUME RepositoryInv, Repository!Crash PROVE RepositoryInv'
  <1>1. /\ pending' = <<>> /\ step' = [o \in Objects |-> "idle"] /\ UNCHANGED <<contents, seen>>
        /\ status' = [r \in Record |-> IF r \in Repository!Adding THEN "lost" ELSE status[r]]
    BY DEF Repository!Crash, Objects, Record
  <1>2. DOMAIN pending' = {} /\ pending' \in Seq(Repository!Write)
    BY <1>1
  <1>3. /\ step' \in [Objects -> Repository!Step] /\ \A o \in Objects : step'[o] = "idle"
        /\ status' \in [Record -> {"none", "adding", "added", "failed", "lost"}]
    BY <1>1 DEF RepositoryInv, RepositoryTypes, Repository!Step
  <1>4. RepositoryTypes'
    BY <1>1, <1>2, <1>3 DEF RepositoryInv, RepositoryTypes
  <1>5. Awaited' /\ Migrated'
    BY <1>1, <1>2 DEF RepositoryInv, Awaited, Migrated, OldRecords
  <1>6. Initialised'
    BY <1>1, <1>2, <1>3, Places DEF RepositoryInv, Initialised, NewRecords
  <1>7. OwnerHolds'
    BY <1>2, <1>3, Places DEF OwnerHolds
  <1> QED BY <1>4, <1>5, <1>6, <1>7 DEF RepositoryInv

LEMMA RepositoryInit == Repository!Init => RepositoryInv
  <1> SUFFICES ASSUME Repository!Init PROVE RepositoryInv
    OBVIOUS
  <1>1. /\ contents \in File /\ (contents.form # "current" /\ NewRecords(contents) = {})
        /\ pending = <<>> /\ seen = [o \in Objects |-> contents]
        /\ step = [o \in Objects |-> "idle"] /\ status = [r \in Record |-> "none"]
    BY Places DEF Repository!Init, File, Repository!File, NewRecords, Objects, Record
  <1>2. RepositoryTypes
    BY <1>1 DEF RepositoryTypes, Repository!Step
  <1>3. Awaited /\ Migrated
    BY <1>1 DEF Awaited, Migrated
  <1>4. Initialised /\ OwnerHolds
    BY <1>1, Places DEF Initialised, OwnerHolds
  <1> QED BY <1>2, <1>3, <1>4 DEF RepositoryInv

RepositoryVars == <<contents, pending, seen, step, status, faults>>

LEMMA RepositoryNext ==
    ASSUME RepositoryInv, [Repository!Next]_RepositoryVars
    PROVE  RepositoryInv'
  <1>1. ASSUME Repository!Apply PROVE RepositoryInv'
    <2>1. /\ pending # <<>> /\ Repository!Continue(TRUE) /\ pending' = Tail(pending)
          /\ contents' = Head(pending).file
      BY <1>1 DEF Repository!Apply
    <2> QED BY <2>1, Continues
  <1>2. ASSUME Repository!WriteFails PROVE RepositoryInv'
    <2>1. /\ pending # <<>> /\ Repository!Continue(FALSE) /\ pending' = Tail(pending)
          /\ contents' = contents
      BY <1>2 DEF Repository!WriteFails
    <2> QED BY <2>1, Continues
  <1>3. ASSUME UNCHANGED RepositoryVars PROVE RepositoryInv'
    BY <1>3 DEF RepositoryVars, RepositoryInv, RepositoryTypes, Awaited, Migrated, OldRecords, Initialised,
                NewRecords, OwnerHolds, Holds
  <1>4. ASSUME NEW o \in Objects, Repository!WriteInitial(o) PROVE RepositoryInv'
    BY <1>4, WriteInitialKeeps
  <1> QED BY <1>1, <1>2, <1>3, <1>4, ReadKeeps, AddKeeps, WriteAddedKeeps, RestartKeeps
          DEF Repository!Next, Objects, Record

\* The only step that changes the path puts the oldest write in place.
LEMMA StepKeepsRecords ==
    ASSUME RepositoryInv, [Repository!Next]_RepositoryVars
    PROVE  /\ Legacy \cap contents.records \subseteq contents'.records
           /\ \A r \in Record : (status[r] = "added" /\ r \in contents.records \ contents'.records)
                => /\ Head(pending).by \in Readers
                   /\ step[Head(pending).by] = "awaiting-initial"
  <1>1. CASE UNCHANGED contents
    BY <1>1
  <1>2. CASE Repository!Apply
    <2> DEFINE w == Head(pending)
    <2>1. /\ contents' = w.file /\ w = pending[1] /\ 1 \in DOMAIN pending
          /\ w.by \in Objects
      <3>1. pending # <<>> /\ contents' = w.file /\ pending \in Seq(Repository!Write)
        BY <1>2 DEF Repository!Apply, RepositoryInv, RepositoryTypes
      <3>2. w = pending[1] /\ 1 \in DOMAIN pending
        BY <3>1, TailElements
      <3>3. pending[1].by \in Objects
        BY <3>2, WriteFacts DEF RepositoryInv
      <3> QED BY <3>1, <3>2, <3>3
    <2> HIDE DEF w
    <2>2. OldRecords(w.file) = OldRecords(contents)
      BY <2>1 DEF RepositoryInv, Migrated
    <2>3. w.by = Owner => Holds(w.file)
      BY <2>1 DEF RepositoryInv, OwnerHolds
    <2>4. w.by \in Readers => step[w.by] = "awaiting-initial"
      BY <2>1 DEF RepositoryInv, Awaited
    <2>5. w.by \in Readers \/ w.by = Owner
      BY <2>1, Places
    <2> QED BY <2>1, <2>2, <2>3, <2>4, <2>5 DEF OldRecords, Holds, w
  <1>3. UNCHANGED contents \/ Repository!Apply
    BY DEF Repository!Next, RepositoryVars, Repository!Read, Repository!Add, Repository!WriteInitial,
           Repository!WriteAdded, Repository!WriteFails, Repository!Crash
  <1> QED BY <1>1, <1>2, <1>3

-----------------------------------------------------------------------------
(* The store under its repositories.                                        *)

\* Each step of the whole is a step of the store or none, and a step of the
\* repositories or none.
LEMMA LocalStep ==
    ASSUME [LocalNext]_allVars
    PROVE  [Next]_vars /\ [Repository!Next]_RepositoryVars
  <1>1. ASSUME Ask PROVE [Next]_vars /\ [Repository!Next]_RepositoryVars
    <2>1. /\ (\E o \in Repository!Objects : Repository!WriteInitial(o)) \/ Repository!WriteAdded
          /\ \E w \in Writes : Submit(w)
      BY <1>1 DEF Ask
    <2> QED BY <2>1 DEF Next, Repository!Next
  <1>2. ASSUME Advance \/ Wait PROVE [Next]_vars /\ [Repository!Next]_RepositoryVars
    <2>1. Next /\ faults' = faults
      BY <1>2 DEF Advance, Wait, Next, Proceed, Flush, Copy, Contended
    <2> QED BY <1>2, <2>1 DEF Advance, Wait, RepositoryVars
  <1>3. ASSUME Look PROVE [Next]_vars /\ [Repository!Next]_RepositoryVars
    <2>1. /\ (\E o \in Readers : Repository!Read(o)) \/ (\E r \in Repository!Record : Repository!Add(r))
          /\ UNCHANGED <<target, backup, temps, queue, stage, attempt, outcome>>
      BY <1>3 DEF Look
    <2>2. faults' = faults
      BY <2>1 DEF Repository!Read, Repository!Add
    <2> QED BY <2>1, <2>2 DEF vars, Repository!Next
  <1>4. ASSUME Replace \/ Refuse \/ Stop PROVE [Next]_vars /\ [Repository!Next]_RepositoryVars
    BY <1>4 DEF Replace, Refuse, Stop, Next, Proceed, Repository!Next
  <1>5. ASSUME UNCHANGED allVars PROVE [Next]_vars /\ [Repository!Next]_RepositoryVars
    BY <1>5 DEF allVars, vars, RepositoryVars
  <1> QED BY <1>1, <1>2, <1>3, <1>4, <1>5 DEF LocalNext

\* A file under its repositories is what AtomicStore says of it.
THEOREM StoreUnderRepositories == LocalSpec => Spec
  <1>1. LocalInit => Init
    BY DEF LocalInit
  <1>2. [LocalNext]_allVars => [Next]_vars
    BY LocalStep
  <1> QED BY <1>1, <1>2, PTL DEF LocalSpec, Spec

\* In particular, its queue holds the writes that its repositories await, and it is a
\* register to them.
THEOREM LocalQueueHoldsPending == LocalSpec => []TypeOK
  BY StoreUnderRepositories, QueueHoldsPending, PTL

THEOREM LocalImplementsRegister == LocalSpec => RefinesRegister
  BY StoreUnderRepositories, ImplementsRegister, PTL

\* What the repositories read and are about to write agrees with the path.
THEOREM RepositoriesCorrect == LocalSpec => []RepositoryInv
  <1>1. LocalInit => RepositoryInv
    BY RepositoryInit DEF LocalInit
  <1>2. RepositoryInv /\ [LocalNext]_allVars => RepositoryInv'
    BY LocalStep, RepositoryNext
  <1> QED BY <1>1, <1>2, PTL DEF LocalSpec

\* Migrated records stay, and a record that was reported as added is lost only to an
\* initialisation by another object that read the path before.
THEOREM RecordsStay == LocalSpec => RecordsKept
  <1> DEFINE Step == /\ Legacy \cap contents.records \subseteq contents'.records
                     /\ \A r \in Record :
                           (status[r] = "added" /\ r \in contents.records \ contents'.records)
                             => /\ Head(pending).by \in Readers
                                /\ step[Head(pending).by] = "awaiting-initial"
  <1>1. RepositoryInv /\ [LocalNext]_allVars => [Step]_RepositoryVars
    BY LocalStep, StepKeepsRecords
  <1>2. LocalSpec => [][Step]_RepositoryVars
    <2> HIDE DEF Step
    <2> QED BY <1>1, RepositoriesCorrect, PTL DEF LocalSpec
  <1> QED BY <1>2 DEF RecordsKept, Repository!RecordsKept, Repository!vars, RepositoryVars, Record

--------------------------------------------------------------------------------
(* The runtime attachments: the inductive invariant.                        *)

\* A start that has not come to its process, and one that has.
Beginning == {"prepending", "recording", "spawning", "storing", "taking"}
Begun == {"reporting", "detaching", "done"}

EndPlace == {"idle", "reading", "event", "latest", "store", "leases", "closing"}
UsePlace == {"write", "resize", "cancel", "authorized", "resizing"}
CallPlace == UsePlace \cup {"idle", "expiring", "expired", "checking", "attach", "detach", "returning"}
Using == {"attach", "detach", "write", "resize", "cancel"}
Once == {"open"} \cup Ways
By == Once \cup {"output", "host"} \cup Clients

Lease == [id : Nat, of : Terminals, client : Clients, owns : BOOLEAN, open : BOOLEAN]
QueuedWrite == [do : {"event", "count", "store"}, of : Terminals, by : By, from : Stored, to : Stored]
EndRecord == [place : EndPlace, outcome : EndedAs, exited : BOOLEAN, to : Seq(Lease)]
CallRecord == [what : Using \cup {"none", "getState"}, of : Terminals \cup {"none"}, lease : Nat,
               owns : BOOLEAN, place : CallPlace, to : Seq(Lease)]

HostTypes ==
    /\ host \in {"down", "recovering", "up", "closing"}
    /\ authority \in BOOLEAN /\ contained \in BOOLEAN /\ intruded \in BOOLEAN
    /\ slips \subseteq {"sessions", "torn"} /\ missed \subseteq Terminals
    /\ failures \in Nat

FileTypes ==
    /\ stored \in [Terminals -> Stored] /\ kept \in Seq([of : Terminals, cursor : Nat])
    /\ chain \in Seq(QueuedWrite)

EndTypes ==
    /\ opening \in [Terminals -> Place]
    /\ pty \in [Terminals -> {"none", "alive", "killed", "dead", "lost"}]
    /\ endings \in [Terminals \X Ways -> EndRecord]
    /\ active \subseteq Terminals /\ finishing \subseteq Terminals
    /\ ~ Running => active = {} /\ finishing = {}
    /\ \A t \in Terminals : t \in finishing <=> endings[<<t, "guarded">>].place # "idle"

CallOK(k) ==
    /\ k \in CallRecord
    /\ k.what \in Using => k.of \in Terminals
    /\ k.place # "idle" => k.what # "none"
    /\ k.place \in UsePlace => k.what \in {"write", "resize", "cancel"}
    /\ k.place \in {"attach", "detach", "returning"} => k.what \in {"attach", "detach"}

ClientTypes ==
    /\ leases \in Seq(Lease)
    /\ DOMAIN call = Clients /\ \A c \in Clients : CallOK(call[c])

\* What a terminal is, by where its start and its end stand.
Guarded(t) == endings[<<t, "guarded">>]
Detached(t) == endings[<<t, "detached">>]

ProcessSound(t) ==
    /\ opening[t] \in {"none", "prepending", "recording", "spawning"} => pty[t] = "none"
    /\ t \in active \/ pty[t] = "killed" => opening[t] \in Begun
    /\ Guarded(t).exited => pty[t] = "dead"
    /\ Detached(t).place # "idle" => opening[t] = "done"
    /\ (opening[t] = "detaching" \/ Detached(t).place # "idle") /\ pty[t] = "alive" => failures > 0
    /\ pty[t] = "alive" /\ t \notin active => opening[t] \in {"storing", "taking"} \/ failures > 0

\* Before the revocation: a start is left alone, and what is alive is live.
BeforeSound(t) == ~ contained =>
    /\ opening[t] \in Beginning => Guarded(t).place = "idle"
    /\ opening[t] \in Beginning \ {"prepending"} => stored[t].status \in LiveStatus
    /\ pty[t] = "alive" => failures > 0 \/ (stored[t].status \in LiveStatus /\ Guarded(t).place = "idle")
    /\ Guarded(t).place \in {"leases", "closing"} => "sessions" \in slips \/ stored[t].status \notin LiveStatus

\* After it: what is live is about to be ended.
AfterSound(t) == contained =>
    /\ ~ authority
    /\ opening[t] \in Beginning => t \in missed
    /\ stored[t].status \in LiveStatus =>
          \/ t \in missed \/ failures > 0 \/ "sessions" \in slips \/ host = "down"
          \/ Guarded(t).place \in {"reading", "event", "latest", "store"}

StoppedSound(t) ==
    /\ ~ Running => /\ t \notin active /\ Guarded(t).place = "idle" /\ Detached(t).place = "idle"
                    /\ opening[t] \in {"none", "done"} /\ pty[t] \notin {"alive", "killed"}
    /\ host = "recovering" => stored[t].status \notin LiveStatus
    /\ opening[t] = "none" => stored[t] = [status |-> "none", cursor |-> 0] /\ Guarded(t).place = "idle"

TerminalSound(t) == ProcessSound(t) /\ BeforeSound(t) /\ AfterSound(t) /\ StoppedSound(t)

\* What a write in the queue is for, and what it may store.
WaysWrite(w, place) ==
    \/ place = "event" /\ w.do # "store"
    \/ place = "store" /\ w.do = "store" /\ w.to.status \in EndedAs

WriteSound(w) ==
    /\ opening[w.of] # "none"
    /\ w.by = "open" => \/ opening[w.of] \in {"prepending", "storing"} /\ w.do = "store" /\ w.to.status \in LiveStatus
                        \/ opening[w.of] \in {"reporting", "detaching"} /\ w.do # "store"
    /\ w.by = "guarded" => WaysWrite(w, Guarded(w.of).place)
    /\ w.by = "detached" => WaysWrite(w, Detached(w.of).place)
    /\ w.by \in Clients => /\ w.do = "store" /\ w.to = w.from /\ opening[w.of] \in Begun
                           /\ pty[w.of] = "alive" => contained \/ failures > 0 \/ w.to.status \in LiveStatus
    /\ w.by \in {"output", "host"} => w.do # "store"
    /\ host = "recovering" => w.by = "host"
    /\ w.do = "store" => w.to.cursor = w.from.cursor

\* A call that was let through uses a terminal whose start is over.
UseSound(k) ==
    /\ k.place \in UsePlace => opening[k.of] \in Begun
    /\ k.place = "authorized" /\ contained => failures > 0 \/ pty[k.of] # "alive"

Entries(q) == {q[i] : i \in 1 .. Len(q)}

\* Only the oldest write has been begun, and what waits for a write waits for one.
InTurn(q) ==
    \A i, j \in 1 .. Len(q) : i < j =>
        /\ q[j].do # "count"
        /\ q[i].by \in Once => ~ (q[i].of = q[j].of /\ q[i].by = q[j].by)

AttachmentInv ==
    /\ HostTypes /\ FileTypes /\ EndTypes /\ ClientTypes
    /\ \A t \in Terminals : TerminalSound(t)
    /\ \A w \in Entries(chain) : WriteSound(w)
    /\ InTurn(chain)
    /\ \A c \in Clients : UseSound(call[c])
    /\ host = "down" => chain = <<>>
    /\ ~ Running => \A c \in Clients : call[c] = NoCall
    /\ intruded => failures > 0

-----------------------------------------------------------------------------
\* The invariant that is proved below implies what the terminals are checked for.
LEMMA InvTerminals ==
    ASSUME AttachmentInv
    PROVE  TerminalsInv
  <1>1. AttachmentTypes
    <2>1. HostTypes /\ FileTypes /\ EndTypes /\ ClientTypes
      BY DEF AttachmentInv
    <2>2. \A i \in DOMAIN chain : chain[i].from \in Stored /\ chain[i].to \in Stored
      <3>1. chain \in Seq(QueuedWrite)
        BY <2>1 DEF FileTypes
      <3>2. \A i \in DOMAIN chain : chain[i] \in QueuedWrite
        BY <3>1
      <3> QED BY <3>2 DEF QueuedWrite
    <2> QED BY <2>1, <2>2 DEF AttachmentTypes, HostTypes, FileTypes, EndTypes, ClientTypes, Lease
  <1>2. AliveIsControlled
    BY DEF AttachmentInv, TerminalSound, ProcessSound, AliveIsControlled
  <1>3. RevocationSettles
    <2>1. SUFFICES ASSUME contained, host = "up", \A x \in DOMAIN endings : endings[x] = NoEnd,
                          NEW t \in Terminals
                   PROVE  \/ stored[t].status \notin LiveStatus
                          \/ t \in missed \/ failures > 0 \/ "sessions" \in slips
      BY DEF RevocationSettles
    <2>2. Guarded(t).place = "idle"
      <3>1. <<t, "guarded">> \in DOMAIN endings
        BY DEF AttachmentInv, EndTypes, Ways
      <3> QED BY <2>1, <3>1 DEF NoEnd, Guarded
    <2> QED BY <2>1, <2>2 DEF AttachmentInv, TerminalSound, AfterSound
  <1> QED BY <1>1, <1>2, <1>3 DEF TerminalsInv, AttachmentInv

-----------------------------------------------------------------------------
(* The queue.                                                               *)

LEMMA NotEmpty ==
    ASSUME NEW S, NEW q \in Seq(S), q # <<>>
    PROVE  /\ Head(q) \in S /\ Head(q) = q[1] /\ Head(q) \in Entries(q)
           /\ Tail(q) \in Seq(S) /\ Len(Tail(q)) = Len(q) - 1 /\ Len(q) \in Nat /\ Len(q) >= 1
           /\ \A i \in 1 .. Len(q) - 1 : Tail(q)[i] = q[i + 1]
           /\ Entries(Tail(q)) \subseteq Entries(q) /\ Entries(q) \subseteq S
  <1>1. Len(q) \in Nat /\ Len(q) >= 1
    BY EmptySeq
  <1>2. /\ Head(q) \in S /\ Head(q) = q[1]
        /\ Tail(q) \in Seq(S) /\ Len(Tail(q)) = Len(q) - 1
        /\ \A i \in 1 .. Len(q) - 1 : Tail(q)[i] = q[i + 1]
    BY <1>1, HeadTailProperties
  <1>3. Head(q) \in Entries(q)
    BY <1>1, <1>2 DEF Entries
  <1>4. Entries(q) \subseteq S
    BY DEF Entries
  <1>5. ASSUME NEW i \in 1 .. Len(Tail(q)) PROVE Tail(q)[i] \in Entries(q)
    <2>1. i + 1 \in 1 .. Len(q) /\ Tail(q)[i] = q[i + 1]
      BY <1>1, <1>2
    <2> QED BY <2>1 DEF Entries
  <1> QED BY <1>1, <1>2, <1>3, <1>4, <1>5 DEF Entries

\* The rest of the queue: nothing in it has been begun, or waits for what the head is for.
LEMMA Rest ==
    ASSUME NEW q \in Seq(QueuedWrite), q # <<>>, InTurn(q)
    PROVE  /\ InTurn(Tail(q))
           /\ \A w \in Entries(Tail(q)) :
                /\ w.do # "count"
                /\ Head(q).by \in Once => ~ (Head(q).of = w.of /\ Head(q).by = w.by)
  <1>1. /\ Head(q) = q[1] /\ Len(Tail(q)) = Len(q) - 1 /\ Len(q) \in Nat /\ Len(q) >= 1
        /\ \A i \in 1 .. Len(q) - 1 : Tail(q)[i] = q[i + 1]
    BY NotEmpty
  <1>2. PICK l, r : l \in Nat /\ l = Len(q) /\ r = Tail(q) /\ Len(r) = l - 1 /\ l >= 1
    BY <1>1
  <1>3. \A i \in 1 .. l - 1 : r[i] = q[i + 1] /\ i + 1 \in 1 .. l /\ 1 < i + 1
    BY <1>1, <1>2
  <1>4. 1 \in 1 .. l
    BY <1>2
  <1>5. ASSUME NEW i \in 1 .. l - 1, NEW j \in 1 .. l - 1, i < j
        PROVE  /\ r[j].do # "count"
               /\ r[i].by \in Once => ~ (r[i].of = r[j].of /\ r[i].by = r[j].by)
    <2>1. i + 1 < j + 1
      BY <1>5
    <2> QED BY <1>2, <1>3, <1>5, <2>1 DEF InTurn
  <1>6. ASSUME NEW i \in 1 .. l - 1
        PROVE  /\ r[i].do # "count"
               /\ q[1].by \in Once => ~ (q[1].of = r[i].of /\ q[1].by = r[i].by)
    BY <1>2, <1>3, <1>4 DEF InTurn
  <1>7. InTurn(r)
    BY <1>2, <1>5 DEF InTurn
  <1>8. \A w \in Entries(r) : \E i \in 1 .. l - 1 : w = r[i]
    BY <1>2 DEF Entries
  <1> QED BY <1>1, <1>2, <1>6, <1>7, <1>8

\* One more write, that nothing in the queue is like.
LEMMA Appended ==
    ASSUME NEW q \in Seq(QueuedWrite), InTurn(q), NEW w \in QueuedWrite, w.do # "count",
           w.by \in Once => \A x \in Entries(q) : ~ (x.of = w.of /\ x.by = w.by)
    PROVE  /\ Append(q, w) \in Seq(QueuedWrite) /\ InTurn(Append(q, w))
           /\ Entries(Append(q, w)) = Entries(q) \cup {w}
  <1>0. PICK l \in Nat : l = Len(q)
    OBVIOUS
  <1>1. PICK r : /\ l = Len(q) /\ r = Append(q, w) /\ Len(r) = l + 1 /\ r \in Seq(QueuedWrite)
                 /\ r[l + 1] = w /\ \A i \in 1 .. l : r[i] = q[i]
    <2>1. PICK r : r = Append(q, w)
      OBVIOUS
    <2>2. /\ r \in Seq(QueuedWrite) /\ Len(r) = Len(q) + 1
          /\ \A i \in 1 .. Len(q) : r[i] = q[i]
          /\ r[Len(q) + 1] = w
      BY <2>1, AppendProperties
    <2> QED BY <1>0, <2>1, <2>2
  <1>2. \A i \in 1 .. l + 1 : i \in 1 .. l \/ i = l + 1
    OBVIOUS
  <1>3. \A i \in 1 .. l : q[i] \in Entries(q)
    BY <1>1 DEF Entries
  <1>4. Entries(r) = Entries(q) \cup {w}
    <2>1. \A x \in Entries(r) : x \in Entries(q) \cup {w}
      BY <1>1, <1>2, <1>3 DEF Entries
    <2>2. \A x \in Entries(q) : x \in Entries(r)
      <3>1. \A i \in 1 .. l : i \in 1 .. l + 1 /\ r[i] = q[i]
        BY <1>1
      <3> QED BY <1>1, <3>1 DEF Entries
    <2>3. w \in Entries(r)
      <3>1. l + 1 \in 1 .. l + 1
        OBVIOUS
      <3> QED BY <1>1, <3>1 DEF Entries
    <2> QED BY <2>1, <2>2, <2>3
  <1>5. ASSUME NEW i \in 1 .. l + 1, NEW j \in 1 .. l + 1, i < j
        PROVE  /\ r[j].do # "count"
               /\ r[i].by \in Once => ~ (r[i].of = r[j].of /\ r[i].by = r[j].by)
    <2>1. i \in 1 .. l
      BY <1>5
    <2>2. CASE j = l + 1
      BY <1>1, <1>3, <2>1, <2>2
    <2>3. CASE j \in 1 .. l
      BY <1>1, <1>5, <2>1, <2>3 DEF InTurn
    <2> QED BY <1>2, <2>2, <2>3
  <1>6. InTurn(r)
    BY <1>1, <1>5 DEF InTurn
  <1> QED BY <1>1, <1>4, <1>6

\* The head, begun.
LEMMA Headed ==
    ASSUME NEW q \in Seq(QueuedWrite), q # <<>>, InTurn(q), NEW w \in QueuedWrite,
           w.of = Head(q).of, w.by = Head(q).by
    PROVE  /\ <<w>> \o Tail(q) \in Seq(QueuedWrite) /\ InTurn(<<w>> \o Tail(q))
           /\ Entries(<<w>> \o Tail(q)) = {w} \cup Entries(Tail(q))
           /\ <<w>> \o Tail(q) # <<>> /\ Head(<<w>> \o Tail(q)) = w
  <1>1. /\ Head(q) = q[1] /\ Tail(q) \in Seq(QueuedWrite) /\ Len(Tail(q)) = Len(q) - 1 /\ Len(q) \in Nat /\ Len(q) >= 1
        /\ \A i \in 1 .. Len(q) - 1 : Tail(q)[i] = q[i + 1]
    BY NotEmpty
  <1>2. PICK u \in Seq(QueuedWrite) : u = Tail(q)
    BY <1>1
  <1>0. PICK l \in Nat : l = Len(u)
    OBVIOUS
  <1>3. PICK r : /\ r = <<w>> \o u /\ r \in Seq(QueuedWrite) /\ Len(r) = l + 1 /\ r[1] = w
                 /\ \A i \in 1 .. l : r[i + 1] = u[i]
    <2>1. <<w>> \in Seq(QueuedWrite) /\ Len(<<w>>) = 1 /\ <<w>>[1] = w
      OBVIOUS
    <2>2. PICK o \in Seq(QueuedWrite) : o = <<w>> /\ Len(o) = 1 /\ o[1] = w
      BY <2>1
    <2>3. PICK r : r = o \o u
      OBVIOUS
    <2>4. r \in Seq(QueuedWrite)
      BY <2>3, ConcatProperties
    <2>5. Len(r) = 1 + l /\ \A i \in 1 .. 1 + l : r[i] = IF i <= 1 THEN o[i] ELSE u[i - 1]
      BY <1>0, <2>2, <2>3, ConcatProperties
    <2>6. r[1] = w
      BY <2>2, <2>5
    <2>7. \A i \in 1 .. l : r[i + 1] = u[i]
      BY <2>5
    <2>8. Len(r) = l + 1
      BY <2>5
    <2> QED BY <2>2, <2>3, <2>4, <2>6, <2>7, <2>8, Zenon
  <1>4. \A i \in 1 .. l + 1 : i = 1 \/ (i - 1 \in 1 .. l /\ i = (i - 1) + 1)
    OBVIOUS
  <1>5. Entries(r) = {w} \cup Entries(u)
    <2>1. ASSUME NEW i \in 1 .. l + 1 PROVE r[i] \in {w} \cup Entries(u)
      <3>1. CASE i = 1
        BY <1>3, <3>1
      <3>2. CASE i # 1
        <4>1. PICK j \in 1 .. l : i = j + 1
          BY <1>4, <3>2
        <4>2. r[i] = u[j]
          BY <1>3, <4>1
        <4> QED BY <1>0, <4>2 DEF Entries
      <3> QED BY <3>1, <3>2
    <2>2. \A i \in 1 .. l : i + 1 \in 1 .. Len(r)
      BY <1>3
    <2>3. ASSUME NEW x \in Entries(u) PROVE x \in Entries(r)
      <3>1. PICK i \in 1 .. l : x = u[i]
        BY <1>0 DEF Entries
      <3>2. x = r[i + 1] /\ i + 1 \in 1 .. Len(r)
        BY <1>3, <2>2, <3>1
      <3> QED BY <3>2 DEF Entries
    <2>4. 1 \in 1 .. Len(r)
      BY <1>3
    <2>5. \A x \in Entries(r) : x \in {w} \cup Entries(u)
      BY <1>3, <2>1 DEF Entries
    <2>6. w \in Entries(r)
      BY <1>3, <2>4 DEF Entries
    <2> QED BY <2>3, <2>5, <2>6
  <1>6. \A x \in Entries(u) : /\ x.do # "count"
                              /\ w.by \in Once => ~ (w.of = x.of /\ w.by = x.by)
    BY <1>2, Rest
  <1>7. InTurn(u)
    BY <1>2, Rest
  <1>8. \A i \in 1 .. l : u[i] \in Entries(u)
    BY <1>2, <1>0 DEF Entries
  <1>9. ASSUME NEW i \in 1 .. l + 1, NEW j \in 1 .. l + 1, i < j
        PROVE  /\ r[j].do # "count"
               /\ r[i].by \in Once => ~ (r[i].of = r[j].of /\ r[i].by = r[j].by)
    <2>1. j - 1 \in 1 .. l /\ r[j] = u[j - 1] /\ (i = 1 \/ (i - 1 \in 1 .. l /\ r[i] = u[i - 1] /\ i - 1 < j - 1))
      <3>1. j - 1 \in 1 .. l /\ j = (j - 1) + 1
        BY <1>9
      <3>2. i = 1 \/ (i - 1 \in 1 .. l /\ i = (i - 1) + 1 /\ i - 1 < j - 1)
        BY <1>9
      <3> QED BY <1>3, <3>1, <3>2
    <2>2. CASE i = 1
      BY <1>3, <1>6, <1>8, <2>1, <2>2
    <2>3. CASE i # 1
      <3>1. PICK a \in 1 .. l, b \in 1 .. l : a = i - 1 /\ b = j - 1 /\ a < b /\ r[i] = u[a] /\ r[j] = u[b]
        BY <2>1, <2>3
      <3> QED BY <1>2, <1>0, <1>7, <3>1 DEF InTurn
    <2> QED BY <2>2, <2>3
  <1>10. InTurn(r)
    <2>1. Len(r) = l + 1
      BY <1>3
    <2> QED BY <1>9, <2>1 DEF InTurn
  <1>11. r # <<>> /\ Head(r) = w
    BY <1>3, EmptySeq
  <1> QED BY <1>2, <1>0, <1>3, <1>5, <1>10, <1>11

-----------------------------------------------------------------------------
(* What a step leaves as it was.                                            *)

EnvKept ==
    /\ contained' = contained /\ missed' = missed /\ (authority' => authority)
    /\ (failures > 0 => failures' > 0) /\ slips \subseteq slips'
    /\ (Running' <=> Running) /\ (host' = "recovering" => host = "recovering") /\ (host = "down" => host' = "down")

Same(t) ==
    /\ stored'[t] = stored[t] /\ opening'[t] = opening[t] /\ pty'[t] = pty[t]
    /\ (t \in active' <=> t \in active)
    /\ Guarded(t)' = Guarded(t) /\ Detached(t)' = Detached(t)

LEMMA TerminalKept ==
    ASSUME NEW t \in Terminals, TerminalSound(t), Same(t), EnvKept
    PROVE  TerminalSound(t)'
  <1>1. ProcessSound(t)'
    BY DEF TerminalSound, ProcessSound, Same, EnvKept
  <1>2. BeforeSound(t)'
    BY DEF TerminalSound, BeforeSound, Same, EnvKept
  <1>3. AfterSound(t)'
    BY DEF TerminalSound, AfterSound, Same, EnvKept
  <1>4. StoppedSound(t)'
    BY DEF TerminalSound, StoppedSound, Same, EnvKept
  <1> QED BY <1>1, <1>2, <1>3, <1>4 DEF TerminalSound

\* A write that stays in the queue, when what it relies on stays.
LEMMA WriteKept ==
    ASSUME NEW w, WriteSound(w), EnvKept,
           opening'[w.of] # "none",
           w.by = "open" => opening'[w.of] = opening[w.of],
           opening[w.of] \in Begun => opening'[w.of] \in Begun,
           w.by = "guarded" => Guarded(w.of)'.place = Guarded(w.of).place,
           w.by = "detached" => Detached(w.of)'.place = Detached(w.of).place,
           w.by \in Clients /\ pty'[w.of] = "alive" => pty[w.of] = "alive"
    PROVE  WriteSound(w)'
  <1>1. w.by = "open" => /\ \/ opening[w.of] \in {"prepending", "storing"} /\ w.do = "store" /\ w.to.status \in LiveStatus
                            \/ opening[w.of] \in {"reporting", "detaching"} /\ w.do # "store"
                         /\ opening'[w.of] = opening[w.of]
    BY DEF WriteSound
  <1>2. w.by = "guarded" => WaysWrite(w, Guarded(w.of)'.place)
    BY DEF WriteSound
  <1>3. w.by = "detached" => WaysWrite(w, Detached(w.of)'.place)
    BY DEF WriteSound
  <1>4. w.by \in Clients => /\ w.do = "store" /\ w.to = w.from /\ opening'[w.of] \in Begun
                            /\ pty'[w.of] = "alive" => contained' \/ failures' > 0 \/ w.to.status \in LiveStatus
    BY DEF WriteSound, EnvKept
  <1>5. host' = "recovering" => w.by = "host"
    BY DEF WriteSound, EnvKept
  <1>6. /\ w.by \in {"output", "host"} => w.do # "store"
        /\ w.do = "store" => w.to.cursor = w.from.cursor
    BY DEF WriteSound
  <1> QED BY <1>1, <1>2, <1>3, <1>4, <1>5, <1>6 DEF WriteSound, Guarded, Detached

LEMMA UseKept ==
    ASSUME NEW k, UseSound(k), EnvKept,
           k.place \in UsePlace => /\ opening[k.of] \in Begun => opening'[k.of] \in Begun
                                   /\ opening[k.of] \in Begun /\ pty'[k.of] = "alive" => pty[k.of] = "alive"
    PROVE  UseSound(k)'
  BY DEF UseSound, EnvKept, UsePlace

\* A step of some terminals.
LEMMA SomeStep ==
    ASSUME AttachmentInv, EnvKept, NEW T \in SUBSET Terminals,
           \A u \in Terminals \ T : Same(u),
           \A t \in T : TerminalSound(t)',
           HostTypes', FileTypes', EndTypes', ClientTypes', InTurn(chain'),
           \A w \in Entries(chain') : (w \in Entries(chain) /\ w.of \notin T) \/ WriteSound(w)',
           \A t \in T : /\ opening[t] \in Begun => opening'[t] \in Begun
                        /\ opening[t] \in Begun /\ pty'[t] = "alive" => pty[t] = "alive",
           \A c \in Clients : call'[c] \in {call[c], NoCall} \/ UseSound(call[c])',
           host' = "down" => chain' = <<>>,
           ~ Running' => \A c \in Clients : call'[c] = NoCall,
           intruded' => failures' > 0
    PROVE  AttachmentInv'
  <1>1. \A u \in Terminals : TerminalSound(u)'
    BY TerminalKept DEF AttachmentInv
  <1>2. ASSUME NEW w \in Entries(chain), w.of \notin T PROVE WriteSound(w)'
    <2>1. w \in QueuedWrite /\ w.of \in Terminals /\ WriteSound(w) /\ Same(w.of)
      <3>1. w \in QueuedWrite /\ WriteSound(w)
        BY DEF AttachmentInv, FileTypes, Entries
      <3>2. w.of \in Terminals
        BY <3>1 DEF QueuedWrite
      <3> QED BY <1>2, <3>1, <3>2
    <2>2. opening'[w.of] # "none"
      BY <2>1 DEF WriteSound, Same
    <2> QED BY <2>1, <2>2, WriteKept DEF Same
  <1>3. \A w \in Entries(chain') : WriteSound(w)'
    BY <1>2
  <1>4. ASSUME NEW c \in Clients PROVE UseSound(call[c])'
    <2>1. CASE call'[c] = NoCall
      BY <2>1 DEF NoCall, UseSound, UsePlace
    <2>2. CASE call'[c] = call[c]
      <3>1. PICK k : k = call[c] /\ k = call'[c] /\ UseSound(k)
        BY <2>2 DEF AttachmentInv
      <3>2. k.place \in UsePlace => k.of \in Terminals
        BY <3>1 DEF AttachmentInv, ClientTypes, CallOK, Using
      <3>3. ASSUME k.place \in UsePlace
            PROVE  /\ opening[k.of] \in Begun => opening'[k.of] \in Begun
                   /\ opening[k.of] \in Begun /\ pty'[k.of] = "alive" => pty[k.of] = "alive"
        <4>0. PICK u \in Terminals : u = k.of
          BY <3>2, <3>3
        <4>1. CASE u \in T
          BY <4>0, <4>1
        <4>2. CASE u \notin T
          BY <4>0, <4>2 DEF Same
        <4> QED BY <4>1, <4>2
      <3>4. UseSound(k)'
        BY <3>1, <3>3, UseKept
      <3> QED BY <3>1, <3>4 DEF UseSound
    <2> QED BY <2>1, <2>2
  <1>6. \A w \in Entries(chain)' : WriteSound(w)'
    BY <1>3 DEF Entries
  <1> QED BY <1>1, <1>4, <1>6 DEF AttachmentInv

\* A step of one terminal.
LEMMA OneStep ==
    ASSUME AttachmentInv, EnvKept, NEW t \in Terminals,
           \A u \in Terminals : u # t => Same(u),
           TerminalSound(t)', HostTypes', FileTypes', EndTypes', ClientTypes', InTurn(chain'),
           \A w \in Entries(chain') : (w \in Entries(chain) /\ w.of # t) \/ WriteSound(w)',
           opening[t] \in Begun => opening'[t] \in Begun,
           opening[t] \in Begun /\ pty'[t] = "alive" => pty[t] = "alive",
           \A c \in Clients : call'[c] \in {call[c], NoCall} \/ UseSound(call[c])',
           host' = "down" => chain' = <<>>,
           ~ Running' => \A c \in Clients : call'[c] = NoCall,
           intruded' => failures' > 0
    PROVE  AttachmentInv'
  <1>1. PICK T \in SUBSET Terminals : T = {t}
    OBVIOUS
  <1>2. /\ \A u \in Terminals \ T : Same(u)
        /\ \A u \in T : u = t
        /\ \A w \in Entries(chain') : (w \in Entries(chain) /\ w.of \notin T) \/ WriteSound(w)'
    BY <1>1
  <1>3. \A u \in T : /\ TerminalSound(u)'
                     /\ opening[u] \in Begun => opening'[u] \in Begun
                     /\ opening[u] \in Begun /\ pty'[u] = "alive" => pty[u] = "alive"
    BY <1>2
  <1> QED BY <1>2, <1>3, SomeStep

LEMMA FailuresGrow ==
    ASSUME HostTypes, failures' \in {failures, failures + 1}
    PROVE  failures' \in Nat /\ (failures > 0 => failures' > 0)
  BY DEF HostTypes

\* A step of no terminal.
LEMMA NoStep ==
    ASSUME AttachmentInv, host' = host, contained' = contained, missed' = missed, authority' => authority,
           failures' \in {failures, failures + 1}, slips \subseteq slips', HostTypes',
           UNCHANGED <<stored, kept, opening, endings, pty, active, finishing>>,
           chain' \in Seq(QueuedWrite), InTurn(chain'),
           \A w \in Entries(chain') : w \in Entries(chain) \/ WriteSound(w)',
           leases' \in Seq(Lease), DOMAIN call' = Clients,
           \A c \in Clients : call'[c] \in {call[c], NoCall} \/ (CallOK(call'[c]) /\ UseSound(call[c])'),
           host' = "down" => chain' = <<>>,
           ~ Running' => \A c \in Clients : call'[c] = NoCall,
           intruded' => failures' > 0
    PROVE  AttachmentInv'
  <1>0. HostTypes /\ FileTypes /\ EndTypes /\ ClientTypes
    BY DEF AttachmentInv
  <1>a. failures' \in Nat /\ (failures > 0 => failures' > 0)
    BY <1>0, FailuresGrow
  <1>1. EnvKept
    BY <1>a DEF EnvKept, Running
  <1>2. \A u \in Terminals : Same(u)
    BY DEF Same, Guarded, Detached
  <1>3. FileTypes' /\ EndTypes'
    BY <1>0 DEF FileTypes, EndTypes, Running
  <1>4. ClientTypes'
    <2>1. CallOK(NoCall)
      BY DEF CallOK, CallRecord, NoCall, Using, UsePlace, CallPlace
    <2>2. \A c \in Clients : CallOK(call'[c])
      BY <1>0, <2>1 DEF ClientTypes
    <2>3. ASSUME NEW c \in Clients PROVE CallOK(call[c])'
      BY <2>2 DEF CallOK
    <2> QED BY <2>3 DEF ClientTypes
  <1>5. PICK T \in SUBSET Terminals : T = {}
    OBVIOUS
  <1>6. /\ \A w \in Entries(chain') : (w \in Entries(chain) /\ w.of \notin T) \/ WriteSound(w)'
        /\ \A c \in Clients : call'[c] \in {call[c], NoCall} \/ UseSound(call[c])'
        /\ \A u \in Terminals \ T : Same(u)
    BY <1>2, <1>5
  <1>7. \A u \in T : /\ TerminalSound(u)'
                     /\ opening[u] \in Begun => opening'[u] \in Begun
                     /\ opening[u] \in Begun /\ pty'[u] = "alive" => pty[u] = "alive"
    BY <1>5
  <1> QED BY <1>1, <1>3, <1>4, <1>6, <1>7, SomeStep

-----------------------------------------------------------------------------
(* start                                                                    *)

LEMMA RecordOf ==
    ASSUME FileTypes, NEW t \in Terminals
    PROVE  /\ stored[t] \in Stored /\ stored[t].status \in {"none"} \cup LiveStatus \cup EndedAs
           /\ stored[t].cursor \in Nat
  BY DEF FileTypes, Stored

LEMMA EventOf ==
    ASSUME FileTypes, NEW t \in Terminals, NEW by \in By
    PROVE  /\ Event(t, by) \in QueuedWrite
           /\ Event(t, by).do = "event" /\ Event(t, by).of = t /\ Event(t, by).by = by
  BY RecordOf DEF Event, QueuedWrite

LEMMA StoreOf ==
    ASSUME NEW t \in Terminals, NEW by \in By, NEW from \in Stored, NEW to \in Stored
    PROVE  /\ Store(t, by, from, to) \in QueuedWrite
           /\ Store(t, by, from, to).do = "store" /\ Store(t, by, from, to).of = t /\ Store(t, by, from, to).by = by
           /\ Store(t, by, from, to).from = from /\ Store(t, by, from, to).to = to
  BY DEF Store, QueuedWrite

\* A step of a start that waits for no write.
LEMMA StartStep ==
    ASSUME AttachmentInv, NEW t \in Terminals, Running, opening[t] \in {"none", "recording", "spawning", "taking"},
           NEW p \in Place \ {"none"}, opening' = [opening EXCEPT ![t] = p],
           UNCHANGED <<host, authority, contained, stored, kept, endings, finishing, leases, call, failures,
                       slips, missed, intruded>>,
           EndTypes', \A u \in Terminals : u # t => pty'[u] = pty[u] /\ (u \in active' <=> u \in active),
           TerminalSound(t)',
           NEW w, chain' = chain \/ (/\ chain' = Append(chain, w) /\ w \in QueuedWrite /\ w.do # "count"
                                     /\ w.of = t /\ w.by = "open" /\ WriteSound(w)')
    PROVE  AttachmentInv'
  <1>0. HostTypes /\ FileTypes /\ EndTypes /\ ClientTypes
    BY DEF AttachmentInv
  <1>1. EnvKept
    BY DEF EnvKept, Running
  <1>2. \A u \in Terminals : u # t => Same(u)
    BY <1>0 DEF Same, Guarded, Detached, EndTypes
  <1>3. opening'[t] = p
    BY <1>0 DEF EndTypes
  <1>4. \A x \in Entries(chain) : x \in QueuedWrite /\ WriteSound(x)
    BY <1>0 DEF AttachmentInv, FileTypes, Entries
  <1>5. \A x \in Entries(chain) : ~ (x.of = t /\ x.by = "open") /\ ~ (x.of = t /\ x.by \in Clients)
    BY <1>4 DEF WriteSound, Begun
  <1>6. ASSUME NEW x \in Entries(chain), x.of = t PROVE WriteSound(x)'
    <2>1. opening'[x.of] # "none" /\ opening[x.of] \notin Begun
      BY <1>3, <1>6 DEF Begun
    <2>2. Guarded(x.of)' = Guarded(x.of) /\ Detached(x.of)' = Detached(x.of)
      BY DEF Guarded, Detached
    <2> QED BY <1>1, <1>4, <1>5, <1>6, <2>1, <2>2, WriteKept
  <1>7. /\ chain' \in Seq(QueuedWrite) /\ InTurn(chain')
        /\ \A x \in Entries(chain') : x \in Entries(chain) \/ WriteSound(x)'
    <2>1. chain \in Seq(QueuedWrite) /\ InTurn(chain)
      BY <1>0 DEF AttachmentInv, FileTypes
    <2>2. CASE chain' = chain
      BY <2>1, <2>2
    <2>3. CASE chain' # chain
      <3>1. PICK q : q = chain
        OBVIOUS
      <3>2. \A x \in Entries(q) : ~ (x.of = w.of /\ x.by = w.by)
        BY <1>5, <2>3, <3>1
      <3>3. /\ Append(q, w) \in Seq(QueuedWrite) /\ InTurn(Append(q, w))
            /\ Entries(Append(q, w)) = Entries(q) \cup {w}
        BY <2>1, <2>3, <3>1, <3>2, Appended
      <3> QED BY <2>3, <3>1, <3>3
    <2> QED BY <2>2, <2>3
  <1>8. HostTypes' /\ FileTypes' /\ ClientTypes'
    BY <1>0, <1>7 DEF HostTypes, FileTypes, ClientTypes, CallOK
  <1>9. \A x \in Entries(chain') : (x \in Entries(chain) /\ x.of # t) \/ WriteSound(x)'
    BY <1>6, <1>7
  <1>10. /\ host' = "down" => chain' = <<>>
         /\ ~ Running' => \A c \in Clients : call'[c] = NoCall
         /\ intruded' => failures' > 0
    BY DEF AttachmentInv, Running
  <1>11. /\ \A c \in Clients : call'[c] \in {call[c], NoCall}
         /\ opening[t] \notin Begun
    BY DEF Begun
  <1> QED BY <1>1, <1>2, <1>7, <1>8, <1>9, <1>10, <1>11, OneStep

LEMMA StartTerminalStep ==
    ASSUME AttachmentAssumption, AttachmentInv, NEW t \in Terminals, StartTerminal(t)
    PROVE  AttachmentInv'
  <1> DEFINE s == [status |-> "starting", cursor |-> 0]   w == Store(t, "open", stored[t], s)
  <1>0. HostTypes /\ FileTypes /\ EndTypes /\ ClientTypes /\ TerminalSound(t)
    BY DEF AttachmentInv
  <1>1. /\ Running /\ opening[t] = "none" /\ opening' = [opening EXCEPT ![t] = "prepending"] /\ authority
        /\ chain' = Append(chain, w)
        /\ UNCHANGED <<host, authority, contained, stored, kept, endings, finishing, leases, call, failures,
                       slips, missed, intruded, pty, active>>
    BY DEF StartTerminal, Go, unopened, clients, bounds, Running
  <1>2. opening'[t] = "prepending"
    BY <1>0, <1>1 DEF EndTypes
  <1>3. ~ contained
    BY <1>0, <1>1 DEF TerminalSound, AfterSound
  <1>4. stored[t] = [status |-> "none", cursor |-> 0] /\ Guarded(t).place = "idle"
    BY <1>0, <1>1 DEF TerminalSound, StoppedSound
  <1>5. Guarded(t)' = Guarded(t) /\ Detached(t)' = Detached(t)
    BY <1>1 DEF Guarded, Detached
  <1>6. s \in Stored
    BY DEF Stored, LiveStatus
  <1>7. /\ w \in QueuedWrite /\ w.do = "store" /\ w.of = t /\ w.by = "open" /\ w.to = s
        /\ w.from = stored[t]
    BY <1>0, <1>6, RecordOf, StoreOf DEF By, Once
  <1>8. w.by \notin Ways /\ w.by \notin Clients /\ w.by # "host" /\ w.by # "output"
    BY <1>7 DEF AttachmentAssumption, Ways
  <1>9. EndTypes'
    BY <1>0, <1>1 DEF EndTypes, Place, Running
  <1>10. TerminalSound(t)'
    <2>1. ProcessSound(t)'
      BY <1>0, <1>1, <1>2, <1>5 DEF TerminalSound, ProcessSound, Begun
    <2>2. BeforeSound(t)' /\ AfterSound(t)'
      <3>1. pty'[t] = "none" /\ ~ contained'
        BY <1>0, <1>1, <1>3 DEF TerminalSound, ProcessSound
      <3>2. Guarded(t)'.place = "idle"
        BY <1>4, <1>5
      <3> QED BY <1>2, <3>1, <3>2 DEF BeforeSound, AfterSound
    <2>3. StoppedSound(t)'
      <3>1. Running' /\ host' # "recovering"
        BY <1>1 DEF Running
      <3> QED BY <1>2, <3>1 DEF StoppedSound
    <2> QED BY <2>1, <2>2, <2>3 DEF TerminalSound
  <1>11. PICK x : x = w
    OBVIOUS
  <1>12. WriteSound(x)'
    <2>1. host' # "recovering" /\ opening'[t] = "prepending"
      BY <1>1, <1>2 DEF Running
    <2>2. x.of = t /\ x.by = "open" /\ x.do = "store" /\ x.to.status \in LiveStatus /\ x.to.cursor = x.from.cursor
      BY <1>4, <1>7, <1>11 DEF LiveStatus
    <2> QED BY <1>8, <1>11, <2>1, <2>2 DEF WriteSound, Ways
  <1> QED BY <1>0, <1>1, <1>7, <1>9, <1>10, <1>11, <1>12, StartStep DEF Place

LEMMA RecordStartStep ==
    ASSUME AttachmentAssumption, AttachmentInv, NEW t \in Terminals, RecordStart(t)
    PROVE  AttachmentInv'
  <1>0. HostTypes /\ FileTypes /\ EndTypes /\ ClientTypes /\ TerminalSound(t)
    BY DEF AttachmentInv
  <1>1. /\ Running /\ opening[t] = "recording" /\ opening' = [opening EXCEPT ![t] = "spawning"]
        /\ UNCHANGED <<host, authority, contained, stored, kept, endings, finishing, leases, call, failures,
                       slips, missed, intruded, pty, active, chain>>
    BY DEF RecordStart, Go, unopened, clients, bounds, files
  <1>2. opening'[t] = "spawning"
    BY <1>0, <1>1 DEF EndTypes
  <1>3. Guarded(t)' = Guarded(t) /\ Detached(t)' = Detached(t)
    BY <1>1 DEF Guarded, Detached
  <1>4. EndTypes'
    BY <1>0, <1>1 DEF EndTypes, Place, Running
  <1>5. TerminalSound(t)'
    <2>1. ProcessSound(t)'
      BY <1>0, <1>1, <1>2, <1>3 DEF TerminalSound, ProcessSound, Begun
    <2>2. BeforeSound(t)'
      BY <1>0, <1>1, <1>2, <1>3 DEF TerminalSound, BeforeSound, Beginning
    <2>3. AfterSound(t)'
      BY <1>0, <1>1, <1>2, <1>3 DEF TerminalSound, AfterSound, Beginning
    <2>4. StoppedSound(t)'
      <3>1. Running' /\ host' # "recovering"
        BY <1>1 DEF Running
      <3> QED BY <1>2, <3>1 DEF StoppedSound
    <2> QED BY <2>1, <2>2, <2>3, <2>4 DEF TerminalSound
  <1> QED BY <1>1, <1>4, <1>5, StartStep DEF Place

LEMMA SpawnStep ==
    ASSUME AttachmentAssumption, AttachmentInv, NEW t \in Terminals, Spawn(t)
    PROVE  AttachmentInv'
  <1> DEFINE s == [status |-> "starting", cursor |-> 0]   r == [status |-> "running", cursor |-> 0]
             w == Store(t, "open", s, r)
  <1>0. HostTypes /\ FileTypes /\ EndTypes /\ ClientTypes /\ TerminalSound(t)
    BY DEF AttachmentInv
  <1>1. /\ Running /\ opening[t] = "spawning" /\ opening' = [opening EXCEPT ![t] = "storing"]
        /\ chain' = Append(chain, w) /\ pty' = [pty EXCEPT ![t] = "alive"]
        /\ UNCHANGED <<host, authority, contained, stored, kept, endings, finishing, leases, call, failures,
                       slips, missed, intruded, active>>
    BY DEF Spawn, Go, unopened, clients, bounds
  <1>2. opening'[t] = "storing" /\ pty'[t] = "alive"
    BY <1>0, <1>1 DEF EndTypes
  <1>3. Guarded(t)' = Guarded(t) /\ Detached(t)' = Detached(t)
    BY <1>1 DEF Guarded, Detached
  <1>4. EndTypes'
    BY <1>0, <1>1 DEF EndTypes, Place, Running
  <1>5. s \in Stored /\ r \in Stored
    BY DEF Stored, LiveStatus
  <1>6. /\ w \in QueuedWrite /\ w.do = "store" /\ w.of = t /\ w.by = "open" /\ w.to = r /\ w.from = s
    BY <1>5, StoreOf DEF By, Once
  <1>7. w.by \notin Ways /\ w.by \notin Clients /\ w.by # "host" /\ w.by # "output"
    BY <1>6 DEF AttachmentAssumption, Ways
  <1>8. TerminalSound(t)'
    <2>1. ProcessSound(t)'
      <3>1. Guarded(t).exited = FALSE /\ Detached(t).place = "idle" /\ t \notin active
        <4>1. pty[t] = "none" /\ Detached(t).place = "idle" /\ t \notin active
          BY <1>0, <1>1 DEF TerminalSound, ProcessSound, Begun
        <4>2. <<t, "guarded">> \in Terminals \X Ways
          BY DEF Ways
        <4>3. Guarded(t).exited \in BOOLEAN
          BY <1>0, <4>2 DEF EndTypes, EndRecord, Guarded
        <4> QED BY <1>0, <4>1, <4>3 DEF TerminalSound, ProcessSound
      <3> QED BY <1>1, <1>2, <1>3, <3>1 DEF ProcessSound
    <2>2. BeforeSound(t)'
      BY <1>0, <1>1, <1>2, <1>3 DEF TerminalSound, BeforeSound, Beginning
    <2>3. AfterSound(t)'
      BY <1>0, <1>1, <1>2, <1>3 DEF TerminalSound, AfterSound, Beginning
    <2>4. StoppedSound(t)'
      <3>1. Running' /\ host' # "recovering"
        BY <1>1 DEF Running
      <3> QED BY <1>2, <3>1 DEF StoppedSound
    <2> QED BY <2>1, <2>2, <2>3, <2>4 DEF TerminalSound
  <1>9. PICK x : x = w
    OBVIOUS
  <1>10. WriteSound(x)'
    <2>1. host' # "recovering" /\ opening'[t] = "storing"
      BY <1>1, <1>2 DEF Running
    <2>2. x.of = t /\ x.by = "open" /\ x.do = "store" /\ x.to.status \in LiveStatus /\ x.to.cursor = x.from.cursor
      BY <1>6, <1>9 DEF LiveStatus
    <2> QED BY <1>7, <1>9, <2>1, <2>2 DEF WriteSound, Ways
  <1>11. \A u \in Terminals : u # t => pty'[u] = pty[u] /\ (u \in active' <=> u \in active)
    BY <1>0, <1>1 DEF EndTypes
  <1> HIDE DEF w
  <1> QED BY <1>0, <1>1, <1>4, <1>6, <1>8, <1>9, <1>10, <1>11, StartStep DEF Place

\* An event of a start that has come to its process, or has failed to.
LEMMA StartEvent ==
    ASSUME AttachmentAssumption, FileTypes, Running, host' = host, NEW t \in Terminals, NEW x, x = Event(t, "open"),
           opening'[t] \in {"reporting", "detaching"}
    PROVE  x \in QueuedWrite /\ x.do # "count" /\ x.of = t /\ x.by = "open" /\ WriteSound(x)'
  <1>1. x \in QueuedWrite /\ x.do = "event" /\ x.of = t /\ x.by = "open"
    BY EventOf DEF By, Once
  <1>2. x.by \notin Ways /\ x.by \notin Clients /\ x.by # "host" /\ x.by # "output"
    BY <1>1 DEF AttachmentAssumption, Ways
  <1>3. host' # "recovering"
    BY DEF Running
  <1> QED BY <1>1, <1>2, <1>3 DEF WriteSound, Ways

LEMMA SpawnFailsStep ==
    ASSUME AttachmentAssumption, AttachmentInv, NEW t \in Terminals, SpawnFails(t)
    PROVE  AttachmentInv'
  <1>0. HostTypes /\ FileTypes /\ EndTypes /\ ClientTypes /\ TerminalSound(t)
    BY DEF AttachmentInv
  <1>1. /\ Running /\ opening[t] = "spawning" /\ opening' = [opening EXCEPT ![t] = "detaching"]
        /\ chain' = Append(chain, Event(t, "open"))
        /\ UNCHANGED <<host, authority, contained, stored, kept, endings, finishing, leases, call, failures,
                       slips, missed, intruded, active, pty>>
    BY DEF SpawnFails, Go, unopened, clients, bounds
  <1>2. opening'[t] = "detaching"
    BY <1>0, <1>1 DEF EndTypes
  <1>3. Guarded(t)' = Guarded(t) /\ Detached(t)' = Detached(t)
    BY <1>1 DEF Guarded, Detached
  <1>4. EndTypes'
    BY <1>0, <1>1 DEF EndTypes, Place, Running
  <1>5. TerminalSound(t)'
    <2>1. ProcessSound(t)'
      BY <1>0, <1>1, <1>2, <1>3 DEF TerminalSound, ProcessSound, Begun
    <2>2. BeforeSound(t)'
      BY <1>0, <1>1, <1>2, <1>3 DEF TerminalSound, BeforeSound, Beginning
    <2>3. AfterSound(t)'
      BY <1>0, <1>1, <1>2, <1>3 DEF TerminalSound, AfterSound, Beginning
    <2>4. StoppedSound(t)'
      <3>1. Running' /\ host' # "recovering"
        BY <1>1 DEF Running
      <3> QED BY <1>2, <3>1 DEF StoppedSound
    <2> QED BY <2>1, <2>2, <2>3, <2>4 DEF TerminalSound
  <1>6. PICK x : x = Event(t, "open")
    OBVIOUS
  <1>7. x \in QueuedWrite /\ x.do # "count" /\ x.of = t /\ x.by = "open" /\ WriteSound(x)'
    BY <1>0, <1>1, <1>2, <1>6, StartEvent
  <1> QED BY <1>0, <1>1, <1>4, <1>5, <1>6, <1>7, StartStep DEF Place

LEMMA TakeStep ==
    ASSUME AttachmentAssumption, AttachmentInv, NEW t \in Terminals, Take(t)
    PROVE  AttachmentInv'
  <1>0. HostTypes /\ FileTypes /\ EndTypes /\ ClientTypes /\ TerminalSound(t)
    BY DEF AttachmentInv
  <1>1. /\ Running /\ opening[t] = "taking" /\ opening' = [opening EXCEPT ![t] = "reporting"]
        /\ chain' = Append(chain, Event(t, "open")) /\ active' = active \cup {t}
        /\ UNCHANGED <<host, authority, contained, stored, kept, endings, finishing, leases, call, failures,
                       slips, missed, intruded, pty>>
    BY DEF Take, Go, unopened, clients, bounds
  <1>2. opening'[t] = "reporting" /\ t \in active'
    BY <1>0, <1>1 DEF EndTypes
  <1>3. Guarded(t)' = Guarded(t) /\ Detached(t)' = Detached(t)
    BY <1>1 DEF Guarded, Detached
  <1>4. EndTypes'
    BY <1>0, <1>1 DEF EndTypes, Place, Running
  <1>5. TerminalSound(t)'
    <2>1. ProcessSound(t)'
      BY <1>0, <1>1, <1>2, <1>3 DEF TerminalSound, ProcessSound, Begun
    <2>2. BeforeSound(t)'
      BY <1>0, <1>1, <1>2, <1>3 DEF TerminalSound, BeforeSound, Beginning
    <2>3. AfterSound(t)'
      BY <1>0, <1>1, <1>2, <1>3 DEF TerminalSound, AfterSound, Beginning
    <2>4. StoppedSound(t)'
      <3>1. Running' /\ host' # "recovering"
        BY <1>1 DEF Running
      <3> QED BY <1>2, <3>1 DEF StoppedSound
    <2> QED BY <2>1, <2>2, <2>3, <2>4 DEF TerminalSound
  <1>6. PICK x : x = Event(t, "open")
    OBVIOUS
  <1>7. x \in QueuedWrite /\ x.do # "count" /\ x.of = t /\ x.by = "open" /\ WriteSound(x)'
    BY <1>0, <1>1, <1>2, <1>6, StartEvent
  <1> QED BY <1>0, <1>1, <1>4, <1>5, <1>6, <1>7, StartStep DEF Place

-----------------------------------------------------------------------------
(* The ends.                                                                *)

LEMMA EntryOf ==
    ASSUME AttachmentInv, NEW x \in Entries(chain)
    PROVE  x \in QueuedWrite /\ WriteSound(x) /\ x.of \in Terminals
  <1>1. x \in QueuedWrite /\ WriteSound(x)
    BY DEF AttachmentInv, FileTypes, Entries
  <1>2. x.of \in Terminals
    BY <1>1 DEF QueuedWrite
  <1> QED BY <1>1, <1>2

LEMMA EndOf ==
    ASSUME EndTypes, NEW t \in Terminals
    PROVE  /\ Guarded(t) \in EndRecord /\ Detached(t) \in EndRecord
           /\ Guarded(t) = endings[<<t, "guarded">>] /\ Detached(t) = endings[<<t, "detached">>]
           /\ \A way \in Ways : endings[<<t, way>>] \in EndRecord
  BY DEF EndTypes, Guarded, Detached, Ways

\* One end goes on.
LEMMA EndChanged ==
    ASSUME EndTypes, NEW t \in Terminals, NEW way \in Ways, NEW e \in EndRecord,
           endings' = [endings EXCEPT ![<<t, way>>] = e]
    PROVE  /\ endings' \in [Terminals \X Ways -> EndRecord] /\ endings'[<<t, way>>] = e
           /\ way = "guarded" => Guarded(t)' = e /\ Detached(t)' = Detached(t)
           /\ way = "detached" => Detached(t)' = e /\ Guarded(t)' = Guarded(t)
           /\ \A u \in Terminals : u # t => Guarded(u)' = Guarded(u) /\ Detached(u)' = Detached(u)
  <1>1. \A u \in Terminals, v \in Ways : <<u, v>> \in Terminals \X Ways
    OBVIOUS
  <1>2. \A u \in Terminals, v \in Ways : endings'[<<u, v>>] = IF u = t /\ v = way THEN e ELSE endings[<<u, v>>]
    BY <1>1 DEF EndTypes
  <1>3. "guarded" \in Ways /\ "detached" \in Ways
    BY DEF Ways
  <1>4. endings' \in [Terminals \X Ways -> EndRecord]
    BY <1>1 DEF EndTypes
  <1> QED BY <1>2, <1>3, <1>4 DEF Guarded, Detached

\* A step of an end, or of the process of one terminal.
LEMMA EndStep ==
    ASSUME AttachmentInv, failures' \in {failures, failures + 1}, NEW t \in Terminals, Running,
           UNCHANGED <<host, authority, contained, stored, kept, opening, missed, intruded, call>>,
           slips \subseteq slips', HostTypes', leases' \in Seq(Lease), EndTypes',
           \A u \in Terminals : u # t => /\ pty'[u] = pty[u] /\ (u \in active' <=> u \in active)
                                         /\ Guarded(u)' = Guarded(u) /\ Detached(u)' = Detached(u),
           TerminalSound(t)', pty'[t] = "alive" => pty[t] = "alive",
           \A x \in Entries(chain) : x.of = t => WriteSound(x)',
           NEW w, chain' = chain \/ (/\ chain' = Append(chain, w) /\ w \in QueuedWrite /\ w.do # "count"
                                     /\ w.of = t /\ WriteSound(w)'
                                     /\ w.by \in Once => \A x \in Entries(chain) : ~ (x.of = t /\ x.by = w.by))
    PROVE  AttachmentInv'
  <1>0. HostTypes /\ FileTypes /\ EndTypes /\ ClientTypes
    BY DEF AttachmentInv
  <1>a. failures' \in Nat /\ (failures > 0 => failures' > 0)
    BY <1>0, FailuresGrow
  <1>1. EnvKept
    BY <1>a DEF EnvKept, Running
  <1>2. \A u \in Terminals : u # t => Same(u)
    BY DEF Same
  <1>3. /\ chain' \in Seq(QueuedWrite) /\ InTurn(chain')
        /\ \A x \in Entries(chain') : x \in Entries(chain) \/ WriteSound(x)'
    <2>1. chain \in Seq(QueuedWrite) /\ InTurn(chain)
      BY <1>0 DEF AttachmentInv, FileTypes
    <2>2. CASE chain' = chain
      BY <2>1, <2>2
    <2>3. CASE chain' # chain
      <3>1. PICK q : q = chain
        OBVIOUS
      <3>2. w.by \in Once => \A x \in Entries(q) : ~ (x.of = w.of /\ x.by = w.by)
        BY <2>3, <3>1
      <3>3. /\ Append(q, w) \in Seq(QueuedWrite) /\ InTurn(Append(q, w))
            /\ Entries(Append(q, w)) = Entries(q) \cup {w}
        BY <2>1, <2>3, <3>1, <3>2, Appended
      <3> QED BY <2>3, <3>1, <3>3
    <2> QED BY <2>2, <2>3
  <1>4. FileTypes' /\ ClientTypes'
    BY <1>0, <1>3 DEF FileTypes, ClientTypes, CallOK
  <1>5. \A x \in Entries(chain') : (x \in Entries(chain) /\ x.of # t) \/ WriteSound(x)'
    BY <1>3
  <1>6. /\ host' = "down" => chain' = <<>>
        /\ ~ Running' => \A c \in Clients : call'[c] = NoCall
        /\ intruded' => failures' > 0
    BY <1>a DEF AttachmentInv, Running
  <1>7. /\ \A c \in Clients : call'[c] \in {call[c], NoCall}
        /\ opening'[t] = opening[t]
    OBVIOUS
  <1> QED BY <1>1, <1>2, <1>3, <1>4, <1>5, <1>6, <1>7, OneStep

\* A write stays when the end it is for does, or it is for none.
LEMMA WriteStays ==
    ASSUME AttachmentInv, NEW t \in Terminals, EnvKept, opening' = opening,
           pty'[t] = "alive" => pty[t] = "alive",
           NEW x \in Entries(chain), x.of = t,
           x.by = "guarded" => Guarded(t)'.place = Guarded(t).place,
           x.by = "detached" => Detached(t)'.place = Detached(t).place
    PROVE  WriteSound(x)'
  <1>1. WriteSound(x) /\ opening[t] # "none"
    BY EntryOf DEF WriteSound
  <1> QED BY <1>1, WriteKept

LEMMA OutputStep ==
    ASSUME AttachmentAssumption, AttachmentInv, NEW t \in Terminals, Output(t)
    PROVE  AttachmentInv'
  <1>0. HostTypes /\ FileTypes /\ EndTypes /\ ClientTypes /\ TerminalSound(t)
    BY DEF AttachmentInv
  <1>1. /\ Running /\ t \in active /\ chain' = Append(chain, Event(t, "output"))
        /\ UNCHANGED <<host, authority, contained, stored, kept, opening, endings, pty, active, finishing, leases,
                       call, failures, slips, missed, intruded>>
    BY DEF Output, endVars, clients
  <1>2. PICK x : x = Event(t, "output")
    OBVIOUS
  <1>3. x \in QueuedWrite /\ x.do = "event" /\ x.of = t /\ x.by = "output"
    BY <1>0, <1>2, EventOf DEF By
  <1>4. x.by \notin Once /\ x.by \notin Clients /\ x.by # "host"
    BY <1>3 DEF AttachmentAssumption, Once, Ways
  <1>5. EnvKept
    BY <1>1 DEF EnvKept, Running
  <1>6. Guarded(t)' = Guarded(t) /\ Detached(t)' = Detached(t)
    BY <1>1 DEF Guarded, Detached
  <1>7. \A u \in Terminals : Same(u)
    BY <1>1 DEF Same, Guarded, Detached
  <1>8. TerminalSound(t)'
    BY <1>0, <1>5, <1>7, TerminalKept
  <1>9. opening[t] # "none"
    BY <1>0, <1>1 DEF TerminalSound, ProcessSound, Begun
  <1>10. WriteSound(x)'
    <2>1. host' # "recovering"
      BY <1>1 DEF Running
    <2> QED BY <1>1, <1>3, <1>4, <1>9, <2>1 DEF WriteSound, Once, Ways
  <1>11. \A y \in Entries(chain) : y.of = t => WriteSound(y)'
    BY <1>1, <1>5, <1>6, WriteStays
  <1>12. HostTypes' /\ EndTypes' /\ leases' \in Seq(Lease)
    BY <1>0, <1>1 DEF HostTypes, EndTypes, ClientTypes, Running
  <1>13. \A u \in Terminals : /\ pty'[u] = pty[u] /\ (u \in active' <=> u \in active)
                              /\ Guarded(u)' = Guarded(u) /\ Detached(u)' = Detached(u)
    BY <1>1, <1>7 DEF Same
  <1> QED BY <1>1, <1>2, <1>3, <1>4, <1>8, <1>10, <1>11, <1>12, <1>13, EndStep

LEMMA ReadSessionStep ==
    ASSUME AttachmentAssumption, AttachmentInv, NEW t \in Terminals, ReadSession(t)
    PROVE  AttachmentInv'
  <1>0. HostTypes /\ FileTypes /\ EndTypes /\ ClientTypes /\ TerminalSound(t)
    BY DEF AttachmentInv
  <1>1. /\ Running /\ Guarded(t).place = "reading"
        /\ UNCHANGED <<host, authority, contained, stored, kept, opening, pty, leases, call, failures, slips,
                       missed, intruded>>
    BY DEF ReadSession, unended, Guarded, bounds
  <1>2. EnvKept
    BY <1>1 DEF EnvKept, Running
  <1>3. HostTypes' /\ leases' \in Seq(Lease)
    BY <1>0, <1>1 DEF HostTypes, ClientTypes
  <1>4. opening[t] # "none" /\ (~ contained => opening[t] \notin Beginning)
    BY <1>0, <1>1 DEF TerminalSound, StoppedSound, BeforeSound
  <1>5. Guarded(t) \in EndRecord /\ Guarded(t) = endings[<<t, "guarded">>]
    BY <1>0, EndOf
  <1>6. \A x \in Entries(chain) : ~ (x.of = t /\ x.by = "guarded")
    BY <1>1, EntryOf DEF WriteSound, WaysWrite
  <1>7. CASE stored[t].status \in LiveStatus
    <2> DEFINE e == [Guarded(t) EXCEPT !.place = "event"]
    <2>1. /\ active' = IF Guarded(t).exited THEN active \ {t} ELSE active
          /\ endings' = [endings EXCEPT ![<<t, "guarded">>].place = "event"]
          /\ chain' = Append(chain, Event(t, "guarded")) /\ finishing' = finishing
      BY <1>7 DEF ReadSession, Guarded
    <2>2. e \in EndRecord /\ e.place = "event" /\ e.exited = Guarded(t).exited
      BY <1>5 DEF EndRecord, EndPlace
    <2>3. endings' = [endings EXCEPT ![<<t, "guarded">>] = e]
      BY <1>5, <2>1
    <2>4. /\ endings' \in [Terminals \X Ways -> EndRecord]
          /\ Guarded(t)' = e /\ Detached(t)' = Detached(t)
          /\ \A u \in Terminals : u # t => Guarded(u)' = Guarded(u) /\ Detached(u)' = Detached(u)
      BY <1>0, <2>2, <2>3, EndChanged DEF Ways
    <2>5. EndTypes'
      <3>1. \A u \in Terminals : u \in finishing' <=> Guarded(u)'.place # "idle"
        BY <1>0, <1>1, <2>1, <2>2, <2>4 DEF EndTypes, Guarded
      <3> QED BY <1>0, <1>1, <2>1, <2>4, <3>1 DEF EndTypes, Guarded, Running
    <2>6. t \in active' => t \in active
      BY <2>1
    <2>7. t \in active /\ t \notin active' => pty[t] = "dead"
      BY <1>0, <2>1 DEF TerminalSound, ProcessSound
    <2> HIDE DEF e
    <2>8. TerminalSound(t)'
      <3>1. ProcessSound(t)'
        BY <1>0, <1>1, <2>2, <2>4, <2>6, <2>7 DEF TerminalSound, ProcessSound
      <3>2. BeforeSound(t)'
        BY <1>0, <1>1, <1>4, <2>2, <2>4 DEF TerminalSound, BeforeSound
      <3>3. AfterSound(t)'
        BY <1>0, <1>1, <2>2, <2>4 DEF TerminalSound, AfterSound
      <3>4. StoppedSound(t)'
        <4>1. Running' /\ host' # "recovering"
          BY <1>1 DEF Running
        <4> QED BY <1>1, <1>4, <4>1 DEF StoppedSound
      <3> QED BY <3>1, <3>2, <3>3, <3>4 DEF TerminalSound
    <2>9. PICK w : w = Event(t, "guarded")
      OBVIOUS
    <2>10. w \in QueuedWrite /\ w.do = "event" /\ w.of = t /\ w.by = "guarded"
      BY <1>0, <2>9, EventOf DEF By, Once, Ways
    <2>11. WriteSound(w)'
      <3>1. w.by \notin Clients /\ host' # "recovering"
        BY <1>1, <2>10 DEF AttachmentAssumption, Running
      <3> QED BY <1>1, <1>4, <2>2, <2>4, <2>10, <3>1 DEF WriteSound, WaysWrite
    <2>12. ASSUME NEW x \in Entries(chain), x.of = t PROVE WriteSound(x)'
      BY <1>1, <1>2, <1>6, <2>4, <2>12, WriteStays
    <2>13. \A u \in Terminals : /\ u # t => pty'[u] = pty[u] /\ (u \in active' <=> u \in active)
                                /\ u # t => Guarded(u)' = Guarded(u) /\ Detached(u)' = Detached(u)
      BY <1>1, <2>1, <2>4
    <2>14. /\ chain' = Append(chain, w) /\ w.do # "count"
           /\ \A x \in Entries(chain) : ~ (x.of = t /\ x.by = w.by)
      BY <1>6, <2>1, <2>9, <2>10
    <2> QED BY <1>1, <1>3, <2>5, <2>8, <2>10, <2>11, <2>12, <2>13, <2>14, EndStep
  <1>8. CASE stored[t].status \notin LiveStatus
    <2>1. /\ endings' = [endings EXCEPT ![<<t, "guarded">>] = NoEnd] /\ finishing' = finishing \ {t}
          /\ active' = active /\ chain' = chain
      BY <1>8 DEF ReadSession
    <2>2. NoEnd \in EndRecord /\ NoEnd.place = "idle" /\ NoEnd.exited = FALSE
      BY DEF NoEnd, EndRecord, EndPlace, EndedAs
    <2>3. /\ endings' \in [Terminals \X Ways -> EndRecord]
          /\ Guarded(t)' = NoEnd /\ Detached(t)' = Detached(t)
          /\ \A u \in Terminals : u # t => Guarded(u)' = Guarded(u) /\ Detached(u)' = Detached(u)
      BY <1>0, <2>1, <2>2, EndChanged DEF Ways
    <2>4. EndTypes'
      <3>1. \A u \in Terminals : u \in finishing' <=> Guarded(u)'.place # "idle"
        BY <1>0, <1>1, <2>1, <2>2, <2>3 DEF EndTypes, Guarded
      <3> QED BY <1>0, <1>1, <2>1, <2>3, <3>1 DEF EndTypes, Guarded, Running
    <2>5. TerminalSound(t)'
      <3>1. ProcessSound(t)'
        BY <1>0, <1>1, <2>1, <2>2, <2>3 DEF TerminalSound, ProcessSound
      <3>2. BeforeSound(t)'
        BY <1>0, <1>1, <1>4, <1>8, <2>2, <2>3 DEF TerminalSound, BeforeSound
      <3>3. AfterSound(t)'
        BY <1>0, <1>1, <1>8, <2>2, <2>3 DEF TerminalSound, AfterSound
      <3>4. StoppedSound(t)'
        <4>1. Running' /\ host' # "recovering"
          BY <1>1 DEF Running
        <4> QED BY <1>1, <1>4, <4>1 DEF StoppedSound
      <3> QED BY <3>1, <3>2, <3>3, <3>4 DEF TerminalSound
    <2>6. ASSUME NEW x \in Entries(chain), x.of = t PROVE WriteSound(x)'
      BY <1>1, <1>2, <1>6, <2>3, <2>6, WriteStays
    <2>7. \A u \in Terminals : u # t => pty'[u] = pty[u] /\ (u \in active' <=> u \in active)
      BY <1>1, <2>1
    <2> QED BY <1>1, <1>3, <2>1, <2>3, <2>4, <2>5, <2>6, <2>7, EndStep
  <1> QED BY <1>7, <1>8

LEMMA StoreOutcomeStep ==
    ASSUME AttachmentAssumption, AttachmentInv, NEW t \in Terminals, NEW way \in Ways, StoreOutcome(t, way)
    PROVE  AttachmentInv'
  <1> DEFINE e == [endings[<<t, way>>] EXCEPT !.place = "store"]
             s == [stored[t] EXCEPT !.status = endings[<<t, way>>].outcome]
  <1>0. HostTypes /\ FileTypes /\ EndTypes /\ ClientTypes /\ TerminalSound(t)
    BY DEF AttachmentInv
  <1>1. /\ Running /\ endings[<<t, way>>].place = "latest"
        /\ endings' = [endings EXCEPT ![<<t, way>>].place = "store"]
        /\ chain' = Append(chain, Store(t, way, stored[t], s))
        /\ UNCHANGED <<host, authority, contained, stored, kept, opening, pty, leases, call, failures, slips,
                       missed, intruded, active, finishing>>
    BY DEF StoreOutcome, unended, bounds
  <1>2. EnvKept
    BY <1>1 DEF EnvKept, Running
  <1>3. HostTypes' /\ leases' \in Seq(Lease)
    BY <1>0, <1>1 DEF HostTypes, ClientTypes
  <1>4. endings[<<t, way>>] \in EndRecord
    BY <1>0, EndOf
  <1>5. e \in EndRecord /\ e.place = "store" /\ e.exited = endings[<<t, way>>].exited
    BY <1>4 DEF EndRecord, EndPlace
  <1>6. endings' = [endings EXCEPT ![<<t, way>>] = e]
    BY <1>1, <1>4
  <1>7. /\ endings' \in [Terminals \X Ways -> EndRecord]
        /\ way = "guarded" => Guarded(t)' = e /\ Detached(t)' = Detached(t)
        /\ way = "detached" => Detached(t)' = e /\ Guarded(t)' = Guarded(t)
        /\ \A u \in Terminals : u # t => Guarded(u)' = Guarded(u) /\ Detached(u)' = Detached(u)
    <2>1. PICK f \in EndRecord : f = e
      BY <1>5
    <2>2. endings' = [endings EXCEPT ![<<t, way>>] = f]
      BY <1>6, <2>1
    <2> HIDE DEF e
    <2> QED BY <1>0, <2>1, <2>2, EndChanged
  <1>8. s \in Stored /\ s.status \in EndedAs /\ s.cursor = stored[t].cursor /\ stored[t] \in Stored
    <2>1. endings[<<t, way>>].outcome \in EndedAs
      BY <1>4 DEF EndRecord
    <2>2. stored[t] \in Stored
      BY <1>0, RecordOf
    <2> QED BY <2>1, <2>2 DEF Stored
  <1>9. way = "guarded" => endings[<<t, way>>] = Guarded(t)
    BY DEF Guarded
  <1>10. way = "detached" => endings[<<t, way>>] = Detached(t)
    BY DEF Detached
  <1> HIDE DEF e
  <1>11. way = "guarded" \/ way = "detached"
    BY DEF Ways
  <1>12. opening[t] # "none"
    BY <1>0, <1>1, <1>9, <1>10, <1>11 DEF TerminalSound, StoppedSound, ProcessSound
  <1>13. EndTypes'
    <2>1. \A u \in Terminals : u \in finishing' <=> Guarded(u)'.place # "idle"
      BY <1>0, <1>1, <1>5, <1>7, <1>9, <1>11 DEF EndTypes, Guarded
    <2> QED BY <1>0, <1>1, <1>7, <2>1 DEF EndTypes, Guarded, Running
  <1>14. TerminalSound(t)'
    <2>1. ProcessSound(t)'
      BY <1>0, <1>1, <1>5, <1>7, <1>9, <1>10, <1>11 DEF TerminalSound, ProcessSound
    <2>2. BeforeSound(t)'
      BY <1>0, <1>1, <1>5, <1>7, <1>9, <1>10, <1>11 DEF TerminalSound, BeforeSound
    <2>3. AfterSound(t)'
      BY <1>0, <1>1, <1>5, <1>7, <1>9, <1>10, <1>11 DEF TerminalSound, AfterSound
    <2>4. StoppedSound(t)'
      <3>1. Running' /\ host' # "recovering"
        BY <1>1 DEF Running
      <3> QED BY <1>1, <1>12, <3>1 DEF StoppedSound
    <2> QED BY <2>1, <2>2, <2>3, <2>4 DEF TerminalSound
  <1>15. PICK w : w = Store(t, way, stored[t], s)
    OBVIOUS
  <1>16. w \in QueuedWrite /\ w.do = "store" /\ w.of = t /\ w.by = way /\ w.from = stored[t] /\ w.to = s
    <2>1. way \in By
      BY DEF By, Once
    <2> HIDE DEF s
    <2> QED BY <1>8, <1>15, <2>1, StoreOf
  <1> HIDE DEF s
  <1>17. WriteSound(w)'
    <2>1. w.by \notin Clients /\ w.by \notin {"open", "host", "output"} /\ host' # "recovering"
      BY <1>1, <1>11, <1>16 DEF AttachmentAssumption, Running
    <2>2. /\ w.by = "guarded" => WaysWrite(w, Guarded(w.of)'.place)
          /\ w.by = "detached" => WaysWrite(w, Detached(w.of)'.place)
      BY <1>5, <1>7, <1>8, <1>16 DEF WaysWrite
    <2> QED BY <1>1, <1>8, <1>12, <1>16, <2>1, <2>2 DEF WriteSound, Guarded, Detached
  <1>18. \A x \in Entries(chain) : ~ (x.of = t /\ x.by = way)
    BY <1>1, <1>9, <1>10, <1>11, EntryOf DEF WriteSound, WaysWrite
  <1>19. ASSUME NEW x \in Entries(chain), x.of = t PROVE WriteSound(x)'
    <2>1. /\ x.by = "guarded" => Guarded(t)'.place = Guarded(t).place
          /\ x.by = "detached" => Detached(t)'.place = Detached(t).place
      BY <1>7, <1>11, <1>18, <1>19
    <2> QED BY <1>1, <1>2, <1>19, <2>1, WriteStays
  <1>20. \A u \in Terminals : /\ u # t => pty'[u] = pty[u] /\ (u \in active' <=> u \in active)
                              /\ u # t => Guarded(u)' = Guarded(u) /\ Detached(u)' = Detached(u)
    BY <1>1, <1>7
  <1>21. /\ chain' = Append(chain, w) /\ w.do # "count"
         /\ \A x \in Entries(chain) : ~ (x.of = t /\ x.by = w.by)
    BY <1>1, <1>15, <1>16, <1>18
  <1>22. /\ UNCHANGED <<host, authority, contained, stored, kept, opening, missed, intruded, call>>
         /\ slips \subseteq slips' /\ failures' \in {failures, failures + 1} /\ Running
         /\ pty'[t] = "alive" => pty[t] = "alive"
    BY <1>1
  <1>23. w \in QueuedWrite /\ w.of = t
    BY <1>16
  <1> QED BY <1>3, <1>13, <1>14, <1>17, <1>19, <1>20, <1>21, <1>22, <1>23, EndStep

LEMMA ClosedOf ==
    ASSUME leases \in Seq(Lease), NEW S
    PROVE  /\ Closed(S) \in Seq(Lease) /\ Len(Closed(S)) = Len(leases)
           /\ \A l \in 1 .. Len(leases) : Closed(S)[l] = [leases[l] EXCEPT !.open = @ /\ l \notin S]
  <1>1. DOMAIN leases = 1 .. Len(leases) /\ Len(leases) \in Nat /\ \A l \in 1 .. Len(leases) : leases[l] \in Lease
    OBVIOUS
  <1>2. \A l \in 1 .. Len(leases) : [leases[l] EXCEPT !.open = @ /\ l \notin S] \in Lease
    BY <1>1 DEF Lease
  <1>3. PICK n \in Nat : n = Len(leases)
    BY <1>1
  <1>4. Closed(S) = [l \in 1 .. n |-> [leases[l] EXCEPT !.open = @ /\ l \notin S]]
    BY <1>1, <1>3 DEF Closed
  <1>5. \A l \in 1 .. n : Closed(S)[l] \in Lease
    BY <1>2, <1>3, <1>4
  <1>6. Closed(S) \in Seq(Lease) /\ Len(Closed(S)) = n
    BY <1>4, <1>5
  <1> QED BY <1>3, <1>4, <1>6

\* An end that is over, or has come to the writing of the leases.
LEMMA EndGoesOn ==
    ASSUME AttachmentInv, failures' \in {failures, failures + 1}, NEW t \in Terminals, NEW way \in Ways, Running,
           endings[<<t, way>>].place \in {"leases", "closing"},
           NEW e \in EndRecord, e.place \in {"closing", "idle"},
           e.exited => endings[<<t, way>>].exited,
           endings' = [endings EXCEPT ![<<t, way>>] = e],
           finishing' = IF way = "guarded" /\ e.place = "idle" THEN finishing \ {t} ELSE finishing,
           UNCHANGED <<host, authority, contained, stored, kept, chain, opening, pty, active, missed,
                       intruded, call>>,
           slips \subseteq slips', slips' \subseteq {"sessions", "torn"}, leases' \in Seq(Lease)
    PROVE  AttachmentInv'
  <1>0. HostTypes /\ FileTypes /\ EndTypes /\ ClientTypes /\ TerminalSound(t)
    BY DEF AttachmentInv
  <1>a. failures' \in Nat /\ (failures > 0 => failures' > 0)
    BY <1>0, FailuresGrow
  <1>1. EnvKept
    BY <1>a DEF EnvKept, Running
  <1>2. HostTypes'
    BY <1>0 DEF HostTypes
  <1>3. /\ endings' \in [Terminals \X Ways -> EndRecord]
        /\ way = "guarded" => Guarded(t)' = e /\ Detached(t)' = Detached(t)
        /\ way = "detached" => Detached(t)' = e /\ Guarded(t)' = Guarded(t)
        /\ \A u \in Terminals : u # t => Guarded(u)' = Guarded(u) /\ Detached(u)' = Detached(u)
    BY <1>0, EndChanged
  <1>4. /\ way = "guarded" => endings[<<t, way>>] = Guarded(t)
        /\ way = "detached" => endings[<<t, way>>] = Detached(t)
    BY DEF Guarded, Detached
  <1>5. way = "guarded" \/ way = "detached"
    BY DEF Ways
  <1>6. EndTypes'
    <2>1. ASSUME NEW u \in Terminals PROVE u \in finishing' <=> Guarded(u)'.place # "idle"
      <3>1. u \in finishing <=> Guarded(u).place # "idle"
        BY <1>0 DEF EndTypes, Guarded
      <3> QED BY <1>3, <1>4, <1>5, <3>1
    <2> QED BY <1>0, <1>3, <2>1 DEF EndTypes, Guarded, Running
  <1>7. TerminalSound(t)'
    <2>1. ProcessSound(t)'
      BY <1>a, <1>0, <1>3, <1>4, <1>5 DEF TerminalSound, ProcessSound
    <2>2. BeforeSound(t)'
      BY <1>a, <1>0, <1>3, <1>4, <1>5 DEF TerminalSound, BeforeSound
    <2>3. AfterSound(t)'
      BY <1>a, <1>0, <1>3, <1>4, <1>5 DEF TerminalSound, AfterSound
    <2>4. StoppedSound(t)'
      <3>1. Running' /\ host' # "recovering"
        BY DEF Running
      <3>2. opening[t] = "none" => Guarded(t).place = "idle" /\ Guarded(t)'.place = "idle" /\ stored[t] = [status |-> "none", cursor |-> 0]
        BY <1>0, <1>3, <1>4, <1>5 DEF TerminalSound, StoppedSound
      <3> QED BY <3>1, <3>2 DEF StoppedSound
    <2> QED BY <2>1, <2>2, <2>3, <2>4 DEF TerminalSound
  <1>8. \A x \in Entries(chain) : ~ (x.of = t /\ x.by = way)
    BY <1>4, <1>5, EntryOf DEF WriteSound, WaysWrite
  <1>9. ASSUME NEW x \in Entries(chain), x.of = t PROVE WriteSound(x)'
    <2>1. /\ x.by = "guarded" => Guarded(t)'.place = Guarded(t).place
          /\ x.by = "detached" => Detached(t)'.place = Detached(t).place
      BY <1>3, <1>5, <1>8, <1>9
    <2> QED BY <1>1, <1>9, <2>1, WriteStays
  <1>10. \A u \in Terminals : /\ u # t => pty'[u] = pty[u] /\ (u \in active' <=> u \in active)
                              /\ u # t => Guarded(u)' = Guarded(u) /\ Detached(u)' = Detached(u)
    BY <1>3
  <1> QED BY <1>2, <1>6, <1>7, <1>9, <1>10, EndStep

LEMMA NoEndOf == /\ NoEnd \in EndRecord /\ NoEnd.place = "idle" /\ NoEnd.exited = FALSE
  BY DEF NoEnd, EndRecord, EndPlace, EndedAs

LEMMA CloseLeasesStep ==
    ASSUME AttachmentAssumption, AttachmentInv, NEW t \in Terminals, NEW way \in Ways, CloseLeases(t, way)
    PROVE  AttachmentInv'
  <1>0. HostTypes /\ FileTypes /\ EndTypes /\ ClientTypes
    BY DEF AttachmentInv
  <1>1. /\ Running
        /\ UNCHANGED <<host, authority, contained, stored, kept, chain, opening, pty, active, failures, missed,
                       intruded, call>>
    BY DEF CloseLeases, unended, files, bounds
  <1>2. PICK o \in EndRecord : o = endings[<<t, way>>]
    BY <1>0, EndOf
  <1>3. CASE o.place = "leases"
    <2>1. PICK c \in Seq(Lease) : c = Closed(LeasesOf(t))
      BY <1>0, ClosedOf DEF ClientTypes
    <2>3. /\ endings' = [endings EXCEPT ![<<t, way>>] = [@ EXCEPT !.place = "closing", !.to = c]]
          /\ UNCHANGED <<finishing, leases, slips>>
      BY <1>2, <1>3, <2>1 DEF CloseLeases, unended
    <2>4. PICK e : e = [o EXCEPT !.place = "closing", !.to = c]
      OBVIOUS
    <2>5. e \in EndRecord /\ e.place = "closing" /\ e.exited = o.exited
      BY <2>4 DEF EndRecord, EndPlace
    <2>6. endings' = [endings EXCEPT ![<<t, way>>] = e]
      BY <1>2, <2>3, <2>4
    <2>7. slips' \subseteq {"sessions", "torn"} /\ leases' \in Seq(Lease)
      BY <1>0, <2>3 DEF HostTypes, ClientTypes
    <2>8. /\ finishing' = IF way = "guarded" /\ e.place = "idle" THEN finishing \ {t} ELSE finishing
          /\ endings[<<t, way>>].place \in {"leases", "closing"}
          /\ e.exited => endings[<<t, way>>].exited
          /\ slips \subseteq slips'
      BY <1>2, <1>3, <2>3, <2>5
    <2> QED BY <1>1, <2>5, <2>6, <2>7, <2>8, EndGoesOn
  <1>4. CASE o.place = "closing"
    <2>1. /\ EndReleased(<<t, way>>) /\ leases' = o.to /\ slips' = slips
      BY <1>2, <1>4 DEF CloseLeases, unended
    <2>2. /\ endings' = [endings EXCEPT ![<<t, way>>] = NoEnd]
          /\ finishing' = IF way = "guarded" THEN finishing \ {t} ELSE finishing
      BY <2>1 DEF EndReleased
    <2>3. /\ slips \subseteq slips' /\ slips' \subseteq {"sessions", "torn"} /\ leases' \in Seq(Lease)
      <3>1. o.to \in Seq(Lease)
        BY <1>2 DEF EndRecord
      <3> QED BY <1>0, <2>1, <3>1 DEF HostTypes
    <2>4. PICK e \in EndRecord : e = NoEnd /\ e.place = "idle" /\ e.exited = FALSE
      BY NoEndOf
    <2>5. /\ endings' = [endings EXCEPT ![<<t, way>>] = e]
          /\ finishing' = IF way = "guarded" /\ e.place = "idle" THEN finishing \ {t} ELSE finishing
          /\ endings[<<t, way>>].place \in {"leases", "closing"}
          /\ e.exited => endings[<<t, way>>].exited
      BY <1>2, <1>4, <2>2, <2>4
    <2> QED BY <1>1, <2>3, <2>4, <2>5, EndGoesOn
  <1>5. o.place \in {"leases", "closing"}
    BY <1>2 DEF CloseLeases
  <1> QED BY <1>3, <1>4, <1>5

\* Ends that are begun.
LEMMA EndsBegun ==
    ASSUME EndTypes, NEW S \in SUBSET Terminals, NEW endedAs \in EndedAs, NEW exited \in BOOLEAN,
           BeginEnd(S, endedAs, exited)
    PROVE  /\ endings' \in [Terminals \X Ways -> EndRecord] /\ finishing' = finishing \cup S
           /\ \A u \in Terminals : u \in S => Guarded(u)'.place = "reading" /\ Guarded(u)'.exited = exited
           /\ \A u \in Terminals : u \notin S => Guarded(u)' = Guarded(u)
           /\ \A u \in Terminals : Detached(u)' = Detached(u)
           /\ \A u \in Terminals : u \in finishing' <=> Guarded(u)'.place # "idle"
  <1>1. PICK e : e = Ending(endedAs, exited)
    OBVIOUS
  <1>2. e \in EndRecord /\ e.place = "reading" /\ e.exited = exited
    <2>1. e = [place |-> "reading", outcome |-> endedAs, exited |-> exited, to |-> <<>>]
      BY <1>1 DEF Ending, NoEnd
    <2>2. <<>> \in Seq(Lease) /\ "reading" \in EndPlace
      BY DEF EndPlace
    <2> QED BY <2>1, <2>2 DEF EndRecord
  <1>3. /\ endings' = [x \in Terminals \X Ways |-> IF x[1] \in S /\ x[2] = "guarded" THEN e ELSE endings[x]]
        /\ finishing' = finishing \cup S
    BY <1>1 DEF BeginEnd
  <1>4. \A u \in Terminals, v \in Ways : <<u, v>> \in Terminals \X Ways
    OBVIOUS
  <1>5. \A u \in Terminals, v \in Ways : endings'[<<u, v>>] = IF u \in S /\ v = "guarded" THEN e ELSE endings[<<u, v>>]
    BY <1>3, <1>4
  <1>6. "guarded" \in Ways /\ "detached" \in Ways
    BY DEF Ways
  <1>7. endings' \in [Terminals \X Ways -> EndRecord]
    BY <1>2, <1>3 DEF EndTypes
  <1>8. \A u \in Terminals : /\ Guarded(u)' = IF u \in S THEN e ELSE Guarded(u)
                             /\ Detached(u)' = Detached(u)
    BY <1>5, <1>6 DEF Guarded, Detached
  <1>9. \A u \in Terminals : u \in finishing <=> Guarded(u).place # "idle"
    BY DEF EndTypes, Guarded
  <1> QED BY <1>2, <1>3, <1>7, <1>8, <1>9

LEMMA ExitStep ==
    ASSUME AttachmentAssumption, AttachmentInv, NEW t \in Terminals, Exit(t)
    PROVE  AttachmentInv'
  <1>0. HostTypes /\ FileTypes /\ EndTypes /\ ClientTypes /\ TerminalSound(t)
    BY DEF AttachmentInv
  <1>1. /\ pty[t] \in {"alive", "killed"} /\ pty' = [pty EXCEPT ![t] = "dead"]
        /\ UNCHANGED <<host, authority, contained, stored, kept, chain, opening, active, leases, call, failures, slips,
                       missed, intruded>>
    BY DEF Exit, files, clients, bounds
  <1>2. Running /\ pty'[t] = "dead" /\ \A u \in Terminals : u # t => pty'[u] = pty[u]
    BY <1>0, <1>1 DEF TerminalSound, StoppedSound, EndTypes
  <1>3. EnvKept
    BY <1>1 DEF EnvKept, Running
  <1>4. HostTypes' /\ leases' \in Seq(Lease)
    BY <1>0, <1>1 DEF HostTypes, ClientTypes
  <1>5. /\ endings' \in [Terminals \X Ways -> EndRecord] /\ finishing' \subseteq Terminals
        /\ Guarded(t)' = Guarded(t) \/ /\ Guarded(t)'.place = "reading" /\ Guarded(t).place = "idle" /\ opening[t] \in Begun
        /\ \A u \in Terminals : u # t => Guarded(u)' = Guarded(u)
        /\ \A u \in Terminals : Detached(u)' = Detached(u)
        /\ \A u \in Terminals : u \in finishing' <=> Guarded(u)'.place # "idle"
    <2>1. CASE (t \in active \/ pty[t] = "killed") /\ t \notin finishing
      <3>1. BeginEnd({t}, "exited", TRUE) /\ opening[t] \in Begun
        BY <1>0, <2>1 DEF Exit, TerminalSound, ProcessSound
      <3>2. Guarded(t).place = "idle" /\ finishing \subseteq Terminals
        BY <1>0, <2>1 DEF EndTypes, Guarded
      <3>3. {t} \in SUBSET Terminals /\ "exited" \in EndedAs /\ t \in {t} /\ \A u \in Terminals : u # t => u \notin {t}
        BY DEF EndedAs
      <3> QED BY <1>0, <3>1, <3>2, <3>3, EndsBegun
    <2>2. CASE ~ ((t \in active \/ pty[t] = "killed") /\ t \notin finishing)
      <3>1. endings' = endings /\ finishing' = finishing
        BY <2>2 DEF Exit
      <3> QED BY <1>0, <3>1 DEF EndTypes, Guarded, Detached
    <2> QED BY <2>1, <2>2
  <1>6. EndTypes'
    <2>1. pty' \in [Terminals -> {"none", "alive", "killed", "dead", "lost"}]
      BY <1>0, <1>1 DEF EndTypes
    <2> QED BY <1>0, <1>1, <1>2, <1>5, <2>1 DEF EndTypes, Guarded, Running
  <1>7. TerminalSound(t)'
    <2>1. ProcessSound(t)'
      BY <1>0, <1>1, <1>2, <1>5 DEF TerminalSound, ProcessSound
    <2>2. BeforeSound(t)'
      BY <1>0, <1>1, <1>2, <1>5 DEF TerminalSound, BeforeSound, Beginning, Begun
    <2>3. AfterSound(t)'
      BY <1>0, <1>1, <1>2, <1>5 DEF TerminalSound, AfterSound
    <2>4. StoppedSound(t)'
      <3>1. Running' /\ host' # "recovering"
        BY <1>1, <1>2 DEF Running
      <3>2. opening[t] # "none"
        BY <1>0, <1>1 DEF TerminalSound, ProcessSound
      <3> QED BY <1>1, <3>1, <3>2 DEF StoppedSound
    <2> QED BY <2>1, <2>2, <2>3, <2>4 DEF TerminalSound
  <1>8. ASSUME NEW x \in Entries(chain), x.of = t PROVE WriteSound(x)'
    <2>1. Guarded(t).place = "idle" => x.by # "guarded"
      BY <1>8, EntryOf DEF WriteSound, WaysWrite
    <2>2. /\ x.by = "guarded" => Guarded(t)'.place = Guarded(t).place
          /\ x.by = "detached" => Detached(t)'.place = Detached(t).place
      BY <1>5, <2>1
    <2> QED BY <1>1, <1>2, <1>3, <1>8, <2>2, WriteStays
  <1>9. \A u \in Terminals : /\ u # t => pty'[u] = pty[u] /\ (u \in active' <=> u \in active)
                             /\ u # t => Guarded(u)' = Guarded(u) /\ Detached(u)' = Detached(u)
    BY <1>1, <1>2, <1>5
  <1> QED BY <1>1, <1>2, <1>4, <1>6, <1>7, <1>8, <1>9, EndStep

-----------------------------------------------------------------------------
(* The calls.                                                               *)

LEMMA NoCallOf == CallOK(NoCall) /\ NoCall.place \notin UsePlace
  <1>1. <<>> \in Seq(Lease)
    OBVIOUS
  <1> QED BY <1>1 DEF CallOK, CallRecord, NoCall, Using, UsePlace, CallPlace

LEMMA CallGoesOn ==
    ASSUME AttachmentInv, failures' \in {failures, failures + 1}, NEW c \in Clients, Running, NEW k, CallOK(k),
           k.place \in UsePlace => opening[k.of] \in Begun,
           k.place = "authorized" /\ contained => failures > 0 \/ pty[k.of] # "alive",
           call' = [call EXCEPT ![c] = k],
           UNCHANGED <<host, authority, contained, missed, stored, kept, chain, opening, endings, pty,
                       active, finishing>>,
           slips \subseteq slips', slips' \subseteq {"sessions", "torn"}, leases' \in Seq(Lease),
           intruded' \in BOOLEAN, intruded' => failures' > 0
    PROVE  AttachmentInv'
  <1>0. HostTypes /\ FileTypes /\ EndTypes /\ ClientTypes
    BY DEF AttachmentInv
  <1>a. failures' \in Nat /\ (failures > 0 => failures' > 0)
    BY <1>0, FailuresGrow
  <1>1. HostTypes'
    BY <1>0 DEF HostTypes
  <1>2. /\ chain' \in Seq(QueuedWrite) /\ InTurn(chain')
        /\ \A w \in Entries(chain') : w \in Entries(chain) \/ WriteSound(w)'
    BY <1>0 DEF FileTypes, AttachmentInv
  <1>3. DOMAIN call' = Clients /\ call'[c] = k /\ \A d \in Clients : d # c => call'[d] = call[d]
    BY <1>0 DEF ClientTypes
  <1>4. UseSound(k)'
    BY <1>a DEF UseSound
  <1>5. UseSound(call[c])'
    BY <1>3, <1>4 DEF UseSound
  <1>6. \A d \in Clients : call'[d] \in {call[d], NoCall} \/ (CallOK(call'[d]) /\ UseSound(call[d])')
    BY <1>3, <1>5
  <1>7. /\ host' = "down" => chain' = <<>>
        /\ ~ Running' => \A d \in Clients : call'[d] = NoCall
    BY DEF AttachmentInv, Running
  <1> QED BY <1>1, <1>2, <1>3, <1>6, <1>7, NoStep

LEMMA CallStep ==
    ASSUME AttachmentAssumption, AttachmentInv, calls \in [Clients -> Nat], NEW c \in Clients, Call(c)
    PROVE  AttachmentInv'
  <1>0. HostTypes /\ FileTypes /\ EndTypes /\ ClientTypes
    BY DEF AttachmentInv
  <1>1. /\ Running
        /\ UNCHANGED <<host, authority, contained, missed, failures, stored, kept, chain, opening, endings, pty,
                       active, finishing, slips, leases, intruded>>
    BY DEF Call, Running, files, endVars, bounds
  <1>2. PICK k : call' = [call EXCEPT ![c] = k] /\ CallOK(k) /\ k.place = "expiring"
    <2>0. <<>> \in Seq(Lease)
      OBVIOUS
    <2>1. ASSUME NEW t \in Terminals, NEW owns \in BOOLEAN, NEW id \in Nat,
                 call' = [call EXCEPT ![c] = [NoCall EXCEPT !.what = "attach", !.of = t, !.owns = owns,
                                                            !.lease = id, !.place = "expiring"]]
          PROVE  \E k : call' = [call EXCEPT ![c] = k] /\ CallOK(k) /\ k.place = "expiring"
      <3>1. PICK k : k = [NoCall EXCEPT !.what = "attach", !.of = t, !.owns = owns, !.lease = id,
                                      !.place = "expiring"]
        OBVIOUS
      <3>2. CallOK(k) /\ k.place = "expiring"
        BY <2>0, <3>1 DEF CallOK, CallRecord, NoCall, Using, UsePlace, CallPlace
      <3> QED BY <2>1, <3>1, <3>2
    <2>2. ASSUME NEW l \in DOMAIN leases, NEW what \in {"detach", "write", "resize", "cancel"},
                 call' = [call EXCEPT ![c] = [NoCall EXCEPT !.what = what, !.of = leases[l].of, !.lease = leases[l].id,
                                                            !.place = "expiring"]]
          PROVE  \E k : call' = [call EXCEPT ![c] = k] /\ CallOK(k) /\ k.place = "expiring"
      <3>1. PICK k : k = [NoCall EXCEPT !.what = what, !.of = leases[l].of, !.lease = leases[l].id, !.place = "expiring"]
        OBVIOUS
      <3>2. leases[l].id \in Nat /\ leases[l].of \in Terminals
        <4>1. leases \in Seq(Lease)
          BY <1>0 DEF ClientTypes
        <4>2. l \in Nat /\ leases[l] \in Lease
          BY <4>1
        <4> QED BY <4>2 DEF Lease
      <3>3. CallOK(k) /\ k.place = "expiring"
        BY <2>0, <3>1, <3>2 DEF CallOK, CallRecord, NoCall, Using, UsePlace, CallPlace
      <3> QED BY <2>2, <3>1, <3>3
    <2>3. ASSUME call' = [call EXCEPT ![c] = [NoCall EXCEPT !.what = "getState", !.place = "expiring"]]
          PROVE  \E k : call' = [call EXCEPT ![c] = k] /\ CallOK(k) /\ k.place = "expiring"
      <3>1. PICK k : k = [NoCall EXCEPT !.what = "getState", !.place = "expiring"]
        OBVIOUS
      <3>2. CallOK(k) /\ k.place = "expiring"
        BY <2>0, <3>1 DEF CallOK, CallRecord, NoCall, Using, UsePlace, CallPlace
      <3> QED BY <2>3, <3>1, <3>2
    <2>4. PICK id \in Nat : id = calls'[c]
      <3>1. calls' = [calls EXCEPT ![c] = @ + 1]
        BY DEF Call
      <3> QED BY <3>1
    <2>5. ASSUME NEW t \in Terminals, NEW owns \in BOOLEAN,
                 call' = [call EXCEPT ![c] = [NoCall EXCEPT !.what = "attach", !.of = t, !.owns = owns,
                                                            !.lease = calls'[c], !.place = "expiring"]]
          PROVE  \E k : call' = [call EXCEPT ![c] = k] /\ CallOK(k) /\ k.place = "expiring"
      BY <2>1, <2>4, <2>5
    <2> QED BY <2>2, <2>3, <2>5 DEF Call
  <1>3. /\ k.place \notin UsePlace /\ k.place # "authorized" /\ slips \subseteq slips'
        /\ slips' \subseteq {"sessions", "torn"} /\ leases' \in Seq(Lease)
        /\ intruded' \in BOOLEAN /\ (intruded' => failures > 0)
    BY <1>0, <1>1, <1>2 DEF UsePlace, HostTypes, ClientTypes, AttachmentInv
  <1> QED BY <1>1, <1>2, <1>3, CallGoesOn

\* The other steps of a call change nothing but the call, the leases or the terminal.
LEMMA Uncalled ==
    ASSUME uncalled' = uncalled
    PROVE  UNCHANGED <<host, authority, contained, missed, failures, stored, kept, opening, slips>>
  BY DEF uncalled, bounds

LEMMA WritesOf ==
    ASSUME AttachmentInv, NEW to \in Seq(Lease), leases' = to, slips' = slips
    PROVE  slips \subseteq slips' /\ slips' \subseteq {"sessions", "torn"} /\ leases' \in Seq(Lease)
  BY DEF AttachmentInv, HostTypes

LEMMA LeasesKept ==
    ASSUME AttachmentInv, leases' = leases, slips' = slips
    PROVE  slips \subseteq slips' /\ slips' \subseteq {"sessions", "torn"} /\ leases' \in Seq(Lease)
  BY DEF AttachmentInv, HostTypes, ClientTypes

\* A call that comes to another place, with a write of the leases to come or without.
LEMMA CallAt ==
    ASSUME AttachmentInv, NEW c \in Clients
    PROVE  CallOK(call[c]) /\ UseSound(call[c]) /\ call[c].to \in Seq(Lease)
  BY DEF AttachmentInv, ClientTypes, CallOK, CallRecord

LEMMA PlacedCall ==
    ASSUME NEW o, CallOK(o), NEW place, place \in CallPlace, place # "idle", o.what # "none",
           place \in UsePlace => o.what \in {"write", "resize", "cancel"},
           place \in {"attach", "detach", "returning"} => o.what \in {"attach", "detach"},
           NEW k, k = [o EXCEPT !.place = place]
    PROVE  CallOK(k) /\ k.place = place /\ k.of = o.of /\ k.what = o.what
  BY DEF CallOK, CallRecord

LEMMA WrittenCall ==
    ASSUME NEW o, CallOK(o), NEW place, place \in {"expired", "returning"}, o.what # "none",
           place = "returning" => o.what \in {"attach", "detach"},
           NEW to \in Seq(Lease),
           NEW k, k = [o EXCEPT !.place = place, !.to = to]
    PROVE  CallOK(k) /\ k.place = place /\ k.place \notin UsePlace
  BY DEF CallOK, CallRecord, CallPlace, UsePlace

LEMMA ExpireStep ==
    ASSUME AttachmentAssumption, AttachmentInv, NEW c \in Clients, Expire(c)
    PROVE  AttachmentInv'
  <1>0. HostTypes /\ FileTypes /\ EndTypes /\ ClientTypes
    BY DEF AttachmentInv
  <1>1. UNCHANGED <<host, authority, contained, missed, failures, stored, kept, opening, chain, endings, pty,
                    active, finishing, intruded>>
    BY Uncalled DEF Expire, endVars
  <1>2. PICK o : o = call[c] /\ CallOK(o) /\ o.to \in Seq(Lease)
    BY CallAt
  <1>3. intruded' \in BOOLEAN /\ (intruded' => failures > 0)
    BY <1>0, <1>1 DEF HostTypes, AttachmentInv
  <1>4. CASE At(c, "expiring")
    <2>1. PICK to \in Seq(Lease) : to = Closed(Overdue)
      BY <1>0, ClosedOf DEF ClientTypes
    <2>2. /\ Running /\ o.place = "expiring"
          /\ call' = [call EXCEPT ![c] = [@ EXCEPT !.place = "expired", !.to = to]]
          /\ leases' = leases /\ slips' = slips
      BY <1>2, <1>4, <2>1 DEF Expire, At, WriteBack, uncalled
    <2>3. PICK k : k = [o EXCEPT !.place = "expired", !.to = to]
      OBVIOUS
    <2>4. CallOK(k) /\ k.place = "expired"
      <3>1. o.what # "none"
        BY <1>2, <2>2 DEF CallOK
      <3>2. PICK place : place = "expired" /\ place \in {"expired", "returning"} /\ place # "returning"
        OBVIOUS
      <3>3. k = [o EXCEPT !.place = place, !.to = to]
        BY <2>3, <3>2
      <3>4. CallOK(k) /\ k.place = place /\ k.place \notin UsePlace
        <4>1. CallOK(o) /\ o.what # "none" /\ place \in {"expired", "returning"} /\ to \in Seq(Lease)
          BY <1>2, <2>1, <3>1, <3>2
        <4>2. place = "returning" => o.what \in {"attach", "detach"}
          BY <3>2
        <4> QED BY <3>3, <4>1, <4>2, WrittenCall
      <3> QED BY <3>2, <3>4
    <2>5. call' = [call EXCEPT ![c] = k]
      BY <1>2, <2>2, <2>3
    <2>6. k.place \notin UsePlace /\ k.place # "authorized"
      BY <2>4 DEF UsePlace
    <2> QED BY <1>1, <1>3, <2>2, <2>4, <2>5, <2>6, LeasesKept, CallGoesOn
  <1>5. CASE At(c, "expired")
    <2>1. /\ Running /\ o.place = "expired"
          /\ call' = [call EXCEPT ![c].place = "checking"]
          /\ leases' = o.to /\ slips' = slips
      BY <1>2, <1>5 DEF Expire, At, Then, uncalled
    <2>2. PICK k : k = [o EXCEPT !.place = "checking"]
      OBVIOUS
    <2>3. CallOK(k) /\ k.place = "checking"
      <3>1. PICK place : place = "checking" /\ place \in CallPlace /\ place # "idle" /\ place \notin UsePlace
                         /\ place \notin {"attach", "detach", "returning"}
        BY DEF CallPlace, UsePlace
      <3>2. o.what # "none"
        BY <1>2, <2>1 DEF CallOK
      <3>3. k = [o EXCEPT !.place = place]
        BY <2>2, <3>1
      <3> QED BY <1>2, <3>1, <3>2, <3>3, PlacedCall
    <2>4. call' = [call EXCEPT ![c] = k]
      BY <1>2, <2>1, <2>2
    <2>5. k.place \notin UsePlace /\ k.place # "authorized"
      BY <2>3 DEF UsePlace
    <2> QED BY <1>1, <1>2, <1>3, <2>1, <2>3, <2>4, <2>5, WritesOf, CallGoesOn
  <1> QED BY <1>4, <1>5 DEF Expire

\* A call that returns.
LEMMA CallReturns ==
    ASSUME AttachmentInv, failures' \in {failures, failures + 1}, NEW c \in Clients, Running, Return(c),
           UNCHANGED <<host, authority, contained, missed, stored, kept, chain, opening, endings, pty,
                       active, finishing>>,
           slips \subseteq slips', slips' \subseteq {"sessions", "torn"}, leases' \in Seq(Lease),
           intruded' \in BOOLEAN, intruded' => failures' > 0
    PROVE  AttachmentInv'
  <1>1. PICK k : k = NoCall /\ CallOK(k) /\ k.place \notin UsePlace /\ k.place # "authorized"
    BY NoCallOf DEF UsePlace
  <1>2. call' = [call EXCEPT ![c] = k]
    BY <1>1 DEF Return
  <1> QED BY <1>1, <1>2, CallGoesOn

LEMMA IntrudedKept ==
    ASSUME AttachmentInv, intruded' = intruded
    PROVE  intruded' \in BOOLEAN /\ (intruded' => failures > 0)
  BY DEF AttachmentInv, HostTypes

LEMMA CheckStep ==
    ASSUME AttachmentAssumption, AttachmentInv, NEW c \in Clients, Check(c)
    PROVE  AttachmentInv'
  <1>1. /\ Running
        /\ UNCHANGED <<host, authority, contained, missed, failures, stored, kept, opening, chain, endings, pty,
                       active, finishing, intruded, leases, slips>>
    BY Uncalled DEF Check, endVars, At
  <1>2. PICK o : o = call[c] /\ CallOK(o) /\ UseSound(o)
    BY CallAt
  <1>3. CASE o.what # "getState" /\ Admitted(c)
    <2>1. call' = [call EXCEPT ![c].place = o.what]
      BY <1>2, <1>3 DEF Check, Then
    <2>2. o.what \in Using
      <3>1. o.place # "idle"
        BY <1>2 DEF Check, At
      <3> QED BY <1>2, <1>3, <3>1 DEF CallOK, CallRecord
    <2>3. o.what \in CallPlace /\ o.what # "idle" /\ o.what # "none" /\ o.what # "authorized"
          /\ (o.what \in UsePlace => o.what \in {"write", "resize", "cancel"})
          /\ (o.what \in {"attach", "detach", "returning"} => o.what \in {"attach", "detach"})
      BY <2>2 DEF CallPlace, UsePlace, Using
    <2>4. PICK k : k = [o EXCEPT !.place = o.what]
      OBVIOUS
    <2>5. CallOK(k) /\ k.place = o.what /\ k.of = o.of
      <3>1. PICK place : place = o.what
        OBVIOUS
      <3> QED BY <1>2, <2>3, <2>4, <3>1, PlacedCall
    <2>6. call' = [call EXCEPT ![c] = k]
      BY <1>2, <2>1, <2>4
    <2>7. k.place \in UsePlace => opening[k.of] \in Begun
      <3>1. SUFFICES ASSUME o.what \in UsePlace PROVE opening[o.of] \in Begun
        BY <2>5
      <3>2. o.of \in Terminals /\ o.of \in active
        BY <1>2, <1>3, <2>2, <3>1 DEF Admitted, CallOK, UsePlace
      <3>3. PICK t \in Terminals : t = o.of /\ TerminalSound(t)
        BY <3>2 DEF AttachmentInv
      <3> QED BY <3>2, <3>3 DEF TerminalSound, ProcessSound
    <2>8. k.place # "authorized"
      BY <2>3, <2>5
    <2> QED BY <1>1, <2>5, <2>6, <2>7, <2>8, LeasesKept, IntrudedKept, CallGoesOn
  <1>4. CASE ~ (o.what # "getState" /\ Admitted(c))
    <2>1. Return(c)
      BY <1>2, <1>4 DEF Check
    <2> QED BY <1>1, <2>1, LeasesKept, IntrudedKept, CallReturns
  <1> QED BY <1>3, <1>4

\* A call that is about to write the leases.
LEMMA WriteBackStep ==
    ASSUME AttachmentInv, NEW c \in Clients, Running, call[c].place \in {"attach", "detach"},
           NEW to \in Seq(Lease), WriteBack(c, "returning", to),
           UNCHANGED <<host, authority, contained, missed, failures, stored, kept, opening, chain, endings, pty,
                       active, finishing, intruded, leases, slips>>
    PROVE  AttachmentInv'
  <1>1. PICK o : o = call[c] /\ CallOK(o)
    BY CallAt
  <1>3. PICK k : k = [o EXCEPT !.place = "returning", !.to = to]
    OBVIOUS
  <1>4. call' = [call EXCEPT ![c] = k]
    BY <1>1, <1>3 DEF WriteBack
  <1>5. o.what # "none" /\ o.what \in {"attach", "detach"}
    BY <1>1 DEF CallOK
  <1>6. CallOK(k) /\ k.place \notin UsePlace /\ k.place # "authorized"
    <2>1. PICK place : place = "returning" /\ place \in {"expired", "returning"}
      OBVIOUS
    <2>2. k = [o EXCEPT !.place = place, !.to = to]
      BY <1>3, <2>1
    <2>3. CallOK(k) /\ k.place = place /\ k.place \notin UsePlace
      BY <1>1, <1>5, <2>1, <2>2, WrittenCall
    <2> QED BY <2>1, <2>3
  <1> QED BY <1>4, <1>6, LeasesKept, IntrudedKept, CallGoesOn

LEMMA AttachStep ==
    ASSUME AttachmentAssumption, AttachmentInv, NEW c \in Clients, Attach(c)
    PROVE  AttachmentInv'
  <1>1. /\ Running /\ call[c].place = "attach"
        /\ UNCHANGED <<host, authority, contained, missed, failures, stored, kept, opening, chain, endings, pty,
                       active, finishing, intruded, leases, slips>>
    BY Uncalled DEF Attach, endVars, At
  <1>2. CASE Refused(c)
    <2>1. Return(c)
      BY <1>2 DEF Attach
    <2> QED BY <1>1, <2>1, LeasesKept, IntrudedKept, CallReturns
  <1>3. CASE ~ Refused(c)
    <2>1. PICK l : l = [id |-> call[c].lease, of |-> call[c].of, client |-> c, owns |-> call[c].owns, open |-> TRUE]
      OBVIOUS
    <2>2. l \in Lease
      <3>1. PICK o : o = call[c] /\ CallOK(o) /\ o.what # "none" /\ o.what \in {"attach", "detach"}
        BY <1>1, CallAt DEF CallOK
      <3>2. o.lease \in Nat /\ o.of \in Terminals /\ o.owns \in BOOLEAN
        BY <3>1 DEF CallOK, CallRecord, Using
      <3> QED BY <2>1, <3>1, <3>2 DEF Lease
    <2>3. WriteBack(c, "returning", Append(leases, l))
      BY <1>3, <2>1 DEF Attach
    <2>4. PICK to \in Seq(Lease) : to = Append(leases, l)
      <3>1. leases \in Seq(Lease)
        BY DEF AttachmentInv, ClientTypes
      <3>2. Append(leases, l) \in Seq(Lease)
        BY <2>2, <3>1
      <3> QED BY <3>2
    <2>5. WriteBack(c, "returning", to)
      BY <2>3, <2>4
    <2> QED BY <1>1, <2>5, WriteBackStep
  <1> QED BY <1>2, <1>3

LEMMA DetachStep ==
    ASSUME AttachmentAssumption, AttachmentInv, NEW c \in Clients, Detach(c)
    PROVE  AttachmentInv'
  <1>1. /\ Running /\ call[c].place = "detach"
        /\ UNCHANGED <<host, authority, contained, missed, failures, stored, kept, opening, chain, endings, pty,
                       active, finishing, intruded, leases, slips>>
    BY Uncalled DEF Detach, endVars, At
  <1>2. PICK to \in Seq(Lease) : to = Closed(Named(c, call[c].lease))
    BY ClosedOf DEF AttachmentInv, ClientTypes
  <1>3. WriteBack(c, "returning", to)
    BY <1>2 DEF Detach
  <1> QED BY <1>1, <1>3, WriteBackStep

LEMMA WriteAndReturnStep ==
    ASSUME AttachmentAssumption, AttachmentInv, NEW c \in Clients, WriteAndReturn(c)
    PROVE  AttachmentInv'
  <1>1. /\ Running /\ Return(c)
        /\ UNCHANGED <<host, authority, contained, missed, failures, stored, kept, opening, chain, endings, pty,
                       active, finishing, intruded>>
    BY Uncalled DEF WriteAndReturn, endVars, At
  <1>2. PICK o : o = call[c] /\ o.to \in Seq(Lease)
    BY CallAt
  <1>3. leases' = o.to /\ slips' = slips
    BY <1>2 DEF WriteAndReturn, uncalled
  <1> QED BY <1>1, <1>2, <1>3, WritesOf, IntrudedKept, CallReturns

LEMMA WriteStep ==
    ASSUME AttachmentAssumption, AttachmentInv, NEW c \in Clients, Write(c)
    PROVE  AttachmentInv'
  <1>1. /\ Running /\ Return(c) /\ call[c].place = "authorized"
        /\ UNCHANGED <<host, authority, contained, missed, failures, stored, kept, opening, chain, endings, pty,
                       active, finishing, leases, slips>>
        /\ intruded' = (intruded \/ (contained /\ pty[call[c].of] = "alive"))
    BY Uncalled DEF Write, endVars, At
  <1>2. UseSound(call[c])
    BY CallAt
  <1>3. intruded' \in BOOLEAN /\ (intruded' => failures > 0)
    <2>1. contained /\ pty[call[c].of] = "alive" => failures > 0
      BY <1>1, <1>2 DEF UseSound
    <2>2. (intruded => failures > 0) /\ intruded \in BOOLEAN /\ contained \in BOOLEAN
      BY DEF AttachmentInv, HostTypes
    <2> QED BY <1>1, <2>1, <2>2
  <1> QED BY <1>1, <1>3, LeasesKept, CallReturns

LEMMA AuthorizedStep ==
    ASSUME AttachmentAssumption, AttachmentInv, NEW c \in Clients, AssertAuthority(c), authority
    PROVE  AttachmentInv'
  <1>1. /\ Running /\ call' = [call EXCEPT ![c].place = "authorized"]
        /\ UNCHANGED <<host, authority, contained, missed, failures, stored, kept, opening, chain, endings, pty,
                       active, finishing, intruded, leases, slips>>
    BY Uncalled DEF AssertAuthority, endVars, At, Then
  <1>2. PICK o : o = call[c] /\ CallOK(o) /\ UseSound(o) /\ o.what \in {"write", "cancel"} /\ o.place = o.what
    BY CallAt DEF AssertAuthority, At
  <1>3. PICK k : k = [o EXCEPT !.place = "authorized"]
    OBVIOUS
  <1>4. CallOK(k) /\ k.place = "authorized" /\ k.of = o.of
    <2>1. PICK place : place = "authorized" /\ place \in CallPlace /\ place # "idle"
                       /\ place \notin {"attach", "detach", "returning"}
      BY DEF CallPlace, UsePlace
    <2>2. o.what # "none" /\ o.what \in {"write", "resize", "cancel"}
      BY <1>2
    <2>3. k = [o EXCEPT !.place = place]
      BY <1>3, <2>1
    <2> QED BY <1>2, <2>1, <2>2, <2>3, PlacedCall
  <1>5. call' = [call EXCEPT ![c] = k]
    BY <1>1, <1>2, <1>3
  <1>6. o.of \in Terminals /\ opening[o.of] \in Begun
    <2>1. o.what \in Using /\ o.place \in UsePlace
      BY <1>2 DEF Using, UsePlace
    <2> QED BY <1>2, <2>1 DEF UseSound, CallOK
  <1>7. ~ contained
    BY <1>6 DEF AttachmentInv, TerminalSound, AfterSound
  <1>8. k.place \in UsePlace => opening[k.of] \in Begun
    BY <1>4, <1>6
  <1> QED BY <1>1, <1>4, <1>5, <1>7, <1>8, LeasesKept, IntrudedKept, CallGoesOn

LEMMA ResizeStep ==
    ASSUME AttachmentAssumption, AttachmentInv, NEW c \in Clients, Resize(c)
    PROVE  AttachmentInv'
  <1>0. HostTypes /\ FileTypes /\ EndTypes /\ ClientTypes
    BY DEF AttachmentInv
  <1>1. /\ Running /\ call' = [call EXCEPT ![c].place = "resizing"]
        /\ UNCHANGED <<host, authority, contained, missed, failures, stored, kept, opening, endings, pty,
                       active, finishing, intruded, leases, slips>>
        /\ chain' = Append(chain, Store(call[c].of, c, stored[call[c].of], stored[call[c].of]))
    BY Uncalled DEF Resize, endVars, At, Then
  <1>2. PICK o : o = call[c] /\ CallOK(o) /\ UseSound(o) /\ o.place = "resize"
    BY CallAt DEF Resize, At
  <1>3. PICK k : k = [o EXCEPT !.place = "resizing"]
    OBVIOUS
  <1>4. o.what # "none" /\ o.what \in {"write", "resize", "cancel"} /\ o.place \in UsePlace
    BY <1>2 DEF CallOK, UsePlace
  <1>5. PICK t \in Terminals : t = o.of /\ opening[t] \in Begun /\ TerminalSound(t)
    <2>1. o.of \in Terminals
      BY <1>2, <1>4 DEF CallOK, Using
    <2> QED BY <1>2, <1>4, <2>1 DEF UseSound, AttachmentInv
  <1>6. CallOK(k) /\ k.place = "resizing" /\ k.of = t
    <2>1. PICK place : place = "resizing" /\ place \in CallPlace /\ place # "idle"
                       /\ place \notin {"attach", "detach", "returning"}
      BY DEF CallPlace, UsePlace
    <2>2. k = [o EXCEPT !.place = place]
      BY <1>3, <2>1
    <2> QED BY <1>2, <1>4, <1>5, <2>1, <2>2, PlacedCall
  <1>7. call' = [call EXCEPT ![c] = k]
    BY <1>1, <1>2, <1>3
  <1>8. PICK w : w = Store(t, c, stored[t], stored[t])
    OBVIOUS
  <1>9. /\ w \in QueuedWrite /\ w.do = "store" /\ w.of = t /\ w.by = c /\ w.from = stored[t] /\ w.to = stored[t]
    <2>1. c \in By
      BY DEF By
    <2>2. PICK r \in Stored : r = stored[t]
      BY <1>0, RecordOf
    <2>3. w = Store(t, c, r, r)
      BY <1>8, <2>2
    <2> QED BY <2>1, <2>2, <2>3, StoreOf
  <1>10. w.by \notin Once /\ w.by \notin Ways /\ w.by \notin {"open", "output", "host"}
    BY <1>9 DEF AttachmentAssumption, Once, Ways
  <1>11. WriteSound(w)'
    <2>1. pty[t] = "alive" => contained \/ failures > 0 \/ w.to.status \in LiveStatus
      BY <1>5, <1>9 DEF TerminalSound, BeforeSound
    <2>2. host' # "recovering" /\ opening[t] # "none"
      BY <1>1, <1>5 DEF Running, Begun
    <2> QED BY <1>1, <1>5, <1>9, <1>10, <2>1, <2>2 DEF WriteSound, Ways
  <1>12. PICK q : q = chain /\ q \in Seq(QueuedWrite) /\ InTurn(q)
    BY <1>0 DEF FileTypes, AttachmentInv
  <1>13. /\ chain' \in Seq(QueuedWrite) /\ InTurn(chain')
         /\ \A x \in Entries(chain') : x \in Entries(chain) \/ WriteSound(x)'
    <2>1. /\ Append(q, w) \in Seq(QueuedWrite) /\ InTurn(Append(q, w))
          /\ Entries(Append(q, w)) = Entries(q) \cup {w}
      BY <1>9, <1>10, <1>12, Appended
    <2>2. chain' = Append(q, w)
      BY <1>1, <1>2, <1>5, <1>8, <1>12
    <2> QED BY <1>11, <1>12, <2>1, <2>2
  <1>14. DOMAIN call' = Clients /\ call'[c] = k /\ \A d \in Clients : d # c => call'[d] = call[d]
    BY <1>0, <1>7 DEF ClientTypes
  <1>15. \A d \in Clients : call'[d] \in {call[d], NoCall} \/ (CallOK(call'[d]) /\ UseSound(call[d])')
    <2>1. UseSound(call[c])'
      BY <1>1, <1>5, <1>6, <1>14 DEF UseSound
    <2> QED BY <1>6, <1>14, <2>1
  <1>16. /\ host' = "down" => chain' = <<>>
         /\ ~ Running' => \A d \in Clients : call'[d] = NoCall
    BY <1>1 DEF Running
  <1>17. HostTypes'
    BY <1>0, <1>1 DEF HostTypes
  <1> QED BY <1>1, <1>13, <1>14, <1>15, <1>16, <1>17, LeasesKept, IntrudedKept, NoStep

\* A lease whose time is over, and authority that is taken back, change nothing else.
LEMMA ElsewhereStep ==
    ASSUME AttachmentInv, authority' \in BOOLEAN, authority' => authority,
           UNCHANGED <<host, contained, missed, failures, stored, kept, chain, opening, endings, pty, active, finishing,
                       intruded, leases, slips, call>>
    PROVE  AttachmentInv'
  <1>0. HostTypes /\ FileTypes /\ EndTypes /\ ClientTypes
    BY DEF AttachmentInv
  <1>1. HostTypes'
    BY <1>0 DEF HostTypes
  <1>2. /\ chain' \in Seq(QueuedWrite) /\ InTurn(chain')
        /\ \A w \in Entries(chain') : w \in Entries(chain) \/ WriteSound(w)'
    BY <1>0 DEF FileTypes, AttachmentInv
  <1>3. DOMAIN call' = Clients /\ \A d \in Clients : call'[d] \in {call[d], NoCall}
    BY <1>0 DEF ClientTypes
  <1>4. /\ host' = "down" => chain' = <<>>
        /\ ~ Running' => \A d \in Clients : call'[d] = NoCall
    BY DEF AttachmentInv, Running
  <1> QED BY <1>1, <1>2, <1>3, <1>4, LeasesKept, IntrudedKept, NoStep

-----------------------------------------------------------------------------
(* What ends terminals.                                                     *)

LEMMA Terminated ==
    ASSUME AttachmentInv, NEW S \in SUBSET Terminals, NEW endedAs \in EndedAs, Terminate(S, endedAs)
    PROVE  \E T \in SUBSET Terminals :
             /\ T = S \ finishing /\ finishing' = finishing \cup T /\ active' = active \ T
             /\ endings' \in [Terminals \X Ways -> EndRecord]
             /\ pty' \in [Terminals -> {"none", "alive", "killed", "dead", "lost"}]
             /\ \A u \in Terminals : u \in T => /\ Guarded(u)'.place = "reading" /\ Guarded(u)'.exited = FALSE
                                                /\ Guarded(u).place = "idle"
             /\ \A u \in Terminals : u \notin T => Guarded(u)' = Guarded(u) /\ pty'[u] = pty[u]
             /\ \A u \in Terminals : Detached(u)' = Detached(u)
             /\ \A u \in Terminals : u \in T => pty'[u] = IF u \in active /\ pty[u] = "alive" THEN "killed" ELSE pty[u]
             /\ \A u \in Terminals : u \in finishing' <=> Guarded(u)'.place # "idle"
  <1>0. EndTypes
    BY DEF AttachmentInv
  <1>1. PICK T \in SUBSET Terminals : T = S \ finishing
    OBVIOUS
  <1>2. /\ BeginEnd(T, endedAs, FALSE) /\ active' = active \ T
        /\ pty' = [u \in Terminals |-> IF u \in T \cap active /\ pty[u] = "alive" THEN "killed" ELSE pty[u]]
    BY <1>1 DEF Terminate
  <1>3. FALSE \in BOOLEAN
    OBVIOUS
  <1>4. /\ endings' \in [Terminals \X Ways -> EndRecord] /\ finishing' = finishing \cup T
        /\ \A u \in Terminals : u \in T => Guarded(u)'.place = "reading" /\ Guarded(u)'.exited = FALSE
        /\ \A u \in Terminals : u \notin T => Guarded(u)' = Guarded(u)
        /\ \A u \in Terminals : Detached(u)' = Detached(u)
        /\ \A u \in Terminals : u \in finishing' <=> Guarded(u)'.place # "idle"
    BY <1>0, <1>2, <1>3, EndsBegun
  <1>5. \A u \in Terminals : u \in finishing <=> Guarded(u).place # "idle"
    BY <1>0 DEF EndTypes, Guarded
  <1>6. \A u \in Terminals : u \in T => Guarded(u).place = "idle"
    BY <1>1, <1>5
  <1>7. /\ \A u \in Terminals : u \notin T => pty'[u] = pty[u]
        /\ \A u \in Terminals : u \in T => pty'[u] = IF u \in active /\ pty[u] = "alive" THEN "killed" ELSE pty[u]
    BY <1>2
  <1>8. pty' \in [Terminals -> {"none", "alive", "killed", "dead", "lost"}]
    BY <1>0, <1>2 DEF EndTypes
  <1> QED BY <1>1, <1>2, <1>4, <1>6, <1>7, <1>8

LEMMA TerminateStep ==
    ASSUME AttachmentInv, NEW S \in SUBSET Terminals, NEW endedAs \in EndedAs, Terminate(S, endedAs),
           \A t \in S : opening[t] \in Begun,
           Running, host' \in {"up", "closing"},
           UNCHANGED <<authority, contained, missed, failures, stored, kept, chain, opening, leases, slips, intruded>>,
           DOMAIN call' = Clients, \A c \in Clients : call'[c] \in {call[c], NoCall}
    PROVE  AttachmentInv'
  <1>0. HostTypes /\ FileTypes /\ EndTypes /\ ClientTypes
    BY DEF AttachmentInv
  <1>1. PICK T \in SUBSET Terminals :
             /\ T = S \ finishing /\ finishing' = finishing \cup T /\ active' = active \ T
             /\ endings' \in [Terminals \X Ways -> EndRecord]
             /\ pty' \in [Terminals -> {"none", "alive", "killed", "dead", "lost"}]
             /\ \A u \in Terminals : u \in T => /\ Guarded(u)'.place = "reading" /\ Guarded(u)'.exited = FALSE
                                                /\ Guarded(u).place = "idle"
             /\ \A u \in Terminals : u \notin T => Guarded(u)' = Guarded(u) /\ pty'[u] = pty[u]
             /\ \A u \in Terminals : Detached(u)' = Detached(u)
             /\ \A u \in Terminals : u \in T => pty'[u] = IF u \in active /\ pty[u] = "alive" THEN "killed" ELSE pty[u]
             /\ \A u \in Terminals : u \in finishing' <=> Guarded(u)'.place # "idle"
    BY Terminated
  <1>2. Running' /\ host' # "recovering" /\ host' # "down"
    BY DEF Running
  <1>3. EnvKept
    BY <1>2 DEF EnvKept, Running
  <1>4. \A u \in Terminals \ T : Same(u)
    BY <1>1 DEF Same
  <1>5. HostTypes' /\ FileTypes'
    BY <1>0 DEF HostTypes, FileTypes
  <1>6. EndTypes'
    <2>1. active' \subseteq Terminals /\ finishing' \subseteq Terminals
      BY <1>0, <1>1 DEF EndTypes
    <2>2. \A u \in Terminals : u \in finishing' <=> endings'[<<u, "guarded">>].place # "idle"
      BY <1>1 DEF Guarded
    <2>3. opening' \in [Terminals -> Place]
      BY <1>0 DEF EndTypes
    <2> QED BY <1>1, <1>2, <2>1, <2>2, <2>3 DEF EndTypes
  <1>7. ClientTypes'
    <2>1. ASSUME NEW c \in Clients PROVE CallOK(call[c])'
      <3>1. CallOK(call'[c])
        BY <1>0, NoCallOf DEF ClientTypes
      <3> QED BY <3>1 DEF CallOK
    <2> QED BY <1>0, <2>1 DEF ClientTypes
  <1>8. ASSUME NEW t \in T PROVE TerminalSound(t)'
    <2>0. PICK u \in Terminals : u = t /\ u \in T /\ TerminalSound(u) /\ opening[u] \in Begun
      BY <1>1 DEF AttachmentInv
    <2>1. /\ Guarded(u)'.place = "reading" /\ Guarded(u)'.exited = FALSE /\ Detached(u)' = Detached(u)
          /\ u \notin active' /\ opening'[u] = opening[u]
          /\ pty'[u] = IF u \in active /\ pty[u] = "alive" THEN "killed" ELSE pty[u]
      BY <1>1, <2>0
    <2>2. ProcessSound(u)'
      BY <2>0, <2>1 DEF TerminalSound, ProcessSound, Begun
    <2>3. BeforeSound(u)'
      <3>1. pty'[u] = "alive" => failures > 0
        BY <2>0, <2>1 DEF TerminalSound, ProcessSound, Begun
      <3> QED BY <2>0, <2>1, <3>1 DEF BeforeSound, Begun, Beginning
    <2>4. AfterSound(u)'
      BY <2>0, <2>1 DEF TerminalSound, AfterSound
    <2>5. StoppedSound(u)'
      BY <1>2, <2>0, <2>1 DEF StoppedSound, Begun
    <2> QED BY <2>0, <2>2, <2>3, <2>4, <2>5 DEF TerminalSound
  <1>9. ASSUME NEW w \in Entries(chain) PROVE (w.of \notin T) \/ WriteSound(w)'
    <2>1. WriteSound(w) /\ w.of \in Terminals
      BY <1>9, EntryOf
    <2>2. SUFFICES ASSUME w.of \in T PROVE WriteSound(w)'
      OBVIOUS
    <2>3. w.by # "guarded"
      BY <1>1, <2>1, <2>2 DEF WriteSound, WaysWrite
    <2>4. Detached(w.of)'.place = Detached(w.of).place /\ (pty'[w.of] = "alive" => pty[w.of] = "alive")
      BY <1>1, <2>1
    <2>5. opening'[w.of] # "none" /\ opening'[w.of] = opening[w.of]
      BY <2>1 DEF WriteSound
    <2> QED BY <1>3, <2>1, <2>3, <2>4, <2>5, WriteKept
  <1>10. \A w \in Entries(chain') : (w \in Entries(chain) /\ w.of \notin T) \/ WriteSound(w)'
    BY <1>9
  <1>11. \A t \in T : /\ opening[t] \in Begun => opening'[t] \in Begun
                      /\ opening[t] \in Begun /\ pty'[t] = "alive" => pty[t] = "alive"
    BY <1>1
  <1>12. InTurn(chain') /\ (intruded' => failures' > 0)
    BY DEF AttachmentInv
  <1> QED BY <1>2, <1>3, <1>4, <1>5, <1>6, <1>7, <1>8, <1>10, <1>11, <1>12, SomeStep

\* A call that ends the terminal that it uses.
LEMMA CallEnds ==
    ASSUME AttachmentInv, NEW c \in Clients, Running, NEW endedAs \in EndedAs,
           call[c].place \in UsePlace, Return(c), Terminate({call[c].of}, endedAs),
           UNCHANGED <<host, authority, contained, missed, failures, stored, kept, opening, chain, leases, slips,
                       intruded>>
    PROVE  AttachmentInv'
  <1>1. PICK o : o = call[c] /\ CallOK(o) /\ UseSound(o) /\ o.place \in UsePlace
    BY CallAt
  <1>2. o.of \in Terminals /\ opening[o.of] \in Begun
    BY <1>1 DEF CallOK, UseSound, Using
  <1>3. PICK S \in SUBSET Terminals : S = {o.of}
    BY <1>2
  <1>4. Terminate(S, endedAs) /\ \A t \in S : opening[t] \in Begun
    BY <1>1, <1>2, <1>3
  <1>5. DOMAIN call' = Clients /\ \A d \in Clients : call'[d] \in {call[d], NoCall}
    BY DEF Return, AttachmentInv, ClientTypes
  <1>6. host' \in {"up", "closing"}
    BY DEF Running
  <1> QED BY <1>4, <1>5, <1>6, TerminateStep

LEMMA AssertAuthorityStep ==
    ASSUME AttachmentAssumption, AttachmentInv, NEW c \in Clients, AssertAuthority(c)
    PROVE  AttachmentInv'
  <1>1. CASE authority
    BY <1>1, AuthorizedStep
  <1>2. CASE ~ authority
    <2>1. /\ Running /\ call[c].place \in UsePlace /\ Return(c) /\ Terminate({call[c].of}, "revoked")
          /\ UNCHANGED <<host, authority, contained, missed, failures, stored, kept, opening, chain, leases, slips,
                         intruded>>
      BY <1>2, Uncalled DEF AssertAuthority, At, UsePlace
    <2>2. "revoked" \in EndedAs
      BY DEF EndedAs
    <2> QED BY <2>1, <2>2, CallEnds
  <1> QED BY <1>1, <1>2

LEMMA CancelStep ==
    ASSUME AttachmentAssumption, AttachmentInv, NEW c \in Clients, Cancel(c)
    PROVE  AttachmentInv'
  <1>1. /\ Running /\ call[c].place \in UsePlace /\ Return(c) /\ Terminate({call[c].of}, "cancelled")
        /\ UNCHANGED <<host, authority, contained, missed, failures, stored, kept, opening, chain, leases, slips,
                       intruded>>
    BY Uncalled DEF Cancel, At, UsePlace
  <1>2. "cancelled" \in EndedAs
    BY DEF EndedAs
  <1> QED BY <1>1, <1>2, CallEnds

LEMMA ShutdownStep ==
    ASSUME AttachmentAssumption, AttachmentInv, Shutdown
    PROVE  AttachmentInv'
  <1>1. /\ Running /\ host' \in {"up", "closing"} /\ Terminate(active, "cancelled")
        /\ UNCHANGED <<authority, contained, missed, failures, stored, kept, opening, chain, leases, slips, intruded, call>>
    BY DEF Shutdown, Running, files, clients
  <1>2. active \in SUBSET Terminals /\ \A t \in active : opening[t] \in Begun
    BY DEF AttachmentInv, EndTypes, TerminalSound, ProcessSound
  <1>3. DOMAIN call' = Clients /\ \A d \in Clients : call'[d] \in {call[d], NoCall}
    BY <1>1 DEF AttachmentInv, ClientTypes
  <1>4. "cancelled" \in EndedAs
    BY DEF EndedAs
  <1> QED BY <1>1, <1>2, <1>3, <1>4, TerminateStep

LEMMA ContainStep ==
    ASSUME AttachmentAssumption, AttachmentInv, Contain
    PROVE  AttachmentInv'
  <1>0. HostTypes /\ FileTypes /\ EndTypes /\ ClientTypes
    BY DEF AttachmentInv
  <1>1. PICK S \in SUBSET Terminals : S = {t \in Terminals : stored[t].status \in LiveStatus}
    OBVIOUS
  <1>2. /\ Running /\ ~ authority /\ ~ contained /\ contained' = TRUE /\ Terminate(S, "revoked")
        /\ missed' = {t \in Terminals : opening[t] \in Beginning}
        /\ UNCHANGED <<host, authority, failures, stored, kept, chain, opening, leases, slips, intruded, call>>
    BY <1>1 DEF Contain, Beginning, files, clients, bounds
  <1>3. PICK T \in SUBSET Terminals :
             /\ T = S \ finishing /\ finishing' = finishing \cup T /\ active' = active \ T
             /\ endings' \in [Terminals \X Ways -> EndRecord]
             /\ pty' \in [Terminals -> {"none", "alive", "killed", "dead", "lost"}]
             /\ \A u \in Terminals : u \in T => /\ Guarded(u)'.place = "reading" /\ Guarded(u)'.exited = FALSE
                                                /\ Guarded(u).place = "idle"
             /\ \A u \in Terminals : u \notin T => Guarded(u)' = Guarded(u) /\ pty'[u] = pty[u]
             /\ \A u \in Terminals : Detached(u)' = Detached(u)
             /\ \A u \in Terminals : u \in T => pty'[u] = IF u \in active /\ pty[u] = "alive" THEN "killed" ELSE pty[u]
             /\ \A u \in Terminals : u \in finishing' <=> Guarded(u)'.place # "idle"
    <2>1. "revoked" \in EndedAs
      BY DEF EndedAs
    <2> QED BY <1>2, <2>1, Terminated
  <1>4. Running' /\ host' # "recovering" /\ host' # "down"
    BY <1>2 DEF Running
  <1>5. HostTypes' /\ FileTypes' /\ ClientTypes'
    BY <1>0, <1>2 DEF HostTypes, FileTypes, ClientTypes, CallOK
  <1>6. EndTypes'
    <2>1. active' \subseteq Terminals /\ finishing' \subseteq Terminals
      BY <1>0, <1>3 DEF EndTypes
    <2>2. \A u \in Terminals : u \in finishing' <=> endings'[<<u, "guarded">>].place # "idle"
      BY <1>3 DEF Guarded
    <2>3. opening' \in [Terminals -> Place]
      BY <1>0, <1>2 DEF EndTypes
    <2> QED BY <1>3, <1>4, <2>1, <2>2, <2>3 DEF EndTypes
  <1>7. ASSUME NEW t \in Terminals
        PROVE  /\ t \notin active' => t \notin active \/ t \in T
               /\ t \in active' <=> t \in active /\ t \notin T
               /\ Detached(t)' = Detached(t) /\ opening'[t] = opening[t] /\ stored'[t] = stored[t]
               /\ pty'[t] = IF t \in T /\ t \in active /\ pty[t] = "alive" THEN "killed" ELSE pty[t]
               /\ t \in T => Guarded(t)'.place = "reading" /\ Guarded(t)'.exited = FALSE /\ Guarded(t).place = "idle"
               /\ t \notin T => Guarded(t)' = Guarded(t)
               /\ stored[t].status \in LiveStatus /\ t \notin T => Guarded(t).place # "idle"
               /\ TerminalSound(t)
    <2>1. t \in finishing <=> Guarded(t).place # "idle"
      BY <1>0 DEF EndTypes, Guarded
    <2>2. TerminalSound(t)
      BY DEF AttachmentInv
    <2>3. stored[t].status \in LiveStatus /\ t \notin T => Guarded(t).place # "idle"
      BY <1>1, <1>3, <2>1
    <2> QED BY <1>2, <1>3, <2>2, <2>3
  <1>8. ASSUME NEW t \in Terminals PROVE TerminalSound(t)'
    <2>1. ProcessSound(t)'
      BY <1>2, <1>7 DEF TerminalSound, ProcessSound
    <2>2. BeforeSound(t)'
      BY <1>2 DEF BeforeSound
    <2>3. AfterSound(t)'
      <3>1. opening'[t] \in Beginning => t \in missed'
        BY <1>2
      <3>2. stored'[t].status \in LiveStatus => Guarded(t)'.place \in {"reading", "event", "latest", "store"} \/ "sessions" \in slips'
        <4>1. CASE t \in T
          BY <1>7, <4>1
        <4>2. CASE t \notin T
          <5>1. SUFFICES ASSUME stored[t].status \in LiveStatus, "sessions" \notin slips
                         PROVE  Guarded(t).place \in {"reading", "event", "latest", "store"}
            BY <1>2, <1>7, <4>2
          <5>2. Guarded(t).place \in EndPlace /\ Guarded(t).place # "idle" /\ Guarded(t).place \notin {"leases", "closing"}
            <6>1. Guarded(t).place \in EndPlace
              BY <1>0, EndOf DEF EndRecord
            <6>2. Guarded(t).place \notin {"leases", "closing"}
              BY <1>2, <1>7, <5>1 DEF TerminalSound, BeforeSound
            <6> QED BY <1>7, <4>2, <5>1, <6>1, <6>2
          <5> QED BY <5>2 DEF EndPlace
        <4> QED BY <4>1, <4>2
      <3> QED BY <1>2, <3>1, <3>2 DEF AfterSound
    <2>4. StoppedSound(t)'
      <3>1. opening[t] = "none" => stored[t] = [status |-> "none", cursor |-> 0] /\ Guarded(t).place = "idle" /\ t \notin T
        <4>1. opening[t] = "none" => stored[t] = [status |-> "none", cursor |-> 0] /\ Guarded(t).place = "idle"
          BY <1>7 DEF TerminalSound, StoppedSound
        <4> QED BY <1>1, <1>3, <4>1 DEF LiveStatus
      <3> QED BY <1>4, <1>7, <3>1 DEF StoppedSound
    <2> QED BY <2>1, <2>2, <2>3, <2>4 DEF TerminalSound
  <1>9. ASSUME NEW w \in Entries(chain) PROVE WriteSound(w)'
    <2>1. WriteSound(w) /\ w.of \in Terminals
      BY <1>9, EntryOf
    <2>2. w.by = "guarded" => Guarded(w.of)' = Guarded(w.of)
      BY <1>7, <2>1 DEF WriteSound, WaysWrite
    <2>3. Detached(w.of)' = Detached(w.of) /\ opening'[w.of] = opening[w.of]
      BY <1>7, <2>1
    <2>4. /\ w.by = "open" => \/ opening'[w.of] \in {"prepending", "storing"} /\ w.do = "store" /\ w.to.status \in LiveStatus
                              \/ opening'[w.of] \in {"reporting", "detaching"} /\ w.do # "store"
          /\ opening'[w.of] # "none"
      BY <2>1, <2>3 DEF WriteSound
    <2>5. /\ w.by = "guarded" => WaysWrite(w, Guarded(w.of)'.place)
          /\ w.by = "detached" => WaysWrite(w, Detached(w.of)'.place)
      BY <2>1, <2>2, <2>3 DEF WriteSound
    <2>6. /\ w.by \in Clients => w.do = "store" /\ w.to = w.from /\ opening'[w.of] \in Begun
          /\ w.by \in {"output", "host"} => w.do # "store"
          /\ w.do = "store" => w.to.cursor = w.from.cursor
      BY <2>1, <2>3 DEF WriteSound
    <2> QED BY <1>2, <1>4, <2>4, <2>5, <2>6 DEF WriteSound, Guarded, Detached
  <1>10. ASSUME NEW c \in Clients PROVE UseSound(call[c])'
    <2>1. PICK o : o = call[c] /\ CallOK(o) /\ UseSound(o)
      BY CallAt
    <2>2. ASSUME o.place \in UsePlace
          PROVE  opening'[o.of] \in Begun /\ (failures > 0 \/ pty'[o.of] # "alive")
      <3>1. PICK t \in Terminals : t = o.of /\ opening[t] \in Begun
        BY <2>1, <2>2 DEF CallOK, UseSound, Using
      <3>2. pty'[t] = "alive" => failures > 0
        <4>1. SUFFICES ASSUME pty'[t] = "alive", ~ (failures > 0) PROVE FALSE
          OBVIOUS
        <4>2. pty[t] = "alive" /\ ~ (t \in T /\ t \in active) /\ TerminalSound(t)
          BY <1>7, <4>1
        <4>3. t \in active /\ stored[t].status \in LiveStatus /\ Guarded(t).place = "idle"
          BY <1>2, <3>1, <4>1, <4>2 DEF TerminalSound, ProcessSound, BeforeSound, Begun
        <4> QED BY <1>7, <4>2, <4>3
      <3> QED BY <1>2, <3>1, <3>2
    <2>3. o.place = "authorized" => o.place \in UsePlace
      BY DEF UsePlace
    <2>4. UseSound(o)'
      BY <1>2, <2>2, <2>3 DEF UseSound
    <2> QED BY <1>2, <2>1, <2>4 DEF UseSound
  <1>11. \A w \in Entries(chain)' : WriteSound(w)'
    BY <1>2, <1>9 DEF Entries
  <1>12. InTurn(chain)' /\ (intruded' => failures' > 0)
    BY <1>2 DEF AttachmentInv, InTurn
  <1> QED BY <1>4, <1>5, <1>6, <1>8, <1>10, <1>11, <1>12 DEF AttachmentInv

-----------------------------------------------------------------------------
(* The oldest write settles.                                                *)

\* The head of the queue is gone, for the terminal t; what it was for may put one more write.
LEMMA HeadStep ==
    ASSUME AttachmentInv, chain # <<>>, NEW w, w = Head(chain), NEW t \in Terminals, t = w.of, EnvKept,
           host' = host, host # "down", \A u \in Terminals : u # t => Same(u), TerminalSound(t)',
           HostTypes', EndTypes', stored' \in [Terminals -> Stored],
           UNCHANGED <<kept, leases, pty>>,
           opening'[t] # "none", opening[t] \in Begun => opening'[t] \in Begun,
           w.by # "open" => opening'[t] = opening[t],
           w.by # "guarded" => Guarded(t)'.place = Guarded(t).place,
           w.by # "detached" => Detached(t)'.place = Detached(t).place \/ Detached(t).place = "idle",
           DOMAIN call' = Clients, \A c \in Clients : call'[c] \in {call[c], NoCall},
           NEW n, chain' = Tail(chain) \/ (/\ chain' = Append(Tail(chain), n) /\ n \in QueuedWrite /\ n.do # "count"
                                           /\ n.of = t /\ WriteSound(n)'
                                           /\ n.by \in Once => \A x \in Entries(Tail(chain)) : ~ (x.of = t /\ x.by = n.by)),
           intruded' => failures' > 0
    PROVE  AttachmentInv'
  <1>0. HostTypes /\ FileTypes /\ EndTypes /\ ClientTypes
    BY DEF AttachmentInv
  <1>1. chain \in Seq(QueuedWrite) /\ InTurn(chain)
    BY <1>0 DEF AttachmentInv, FileTypes
  <1>2. PICK q : q = Tail(chain) /\ q \in Seq(QueuedWrite) /\ InTurn(q) /\ Entries(q) \subseteq Entries(chain)
                 /\ \A x \in Entries(q) : w.by \in Once => ~ (w.of = x.of /\ w.by = x.by)
    <2>1. Tail(chain) \in Seq(QueuedWrite) /\ Entries(Tail(chain)) \subseteq Entries(chain)
      BY <1>1, NotEmpty
    <2>2. /\ InTurn(Tail(chain))
          /\ \A x \in Entries(Tail(chain)) : w.by \in Once => ~ (w.of = x.of /\ w.by = x.by)
      BY <1>1, Rest
    <2> QED BY <2>1, <2>2
  <1>3. ASSUME NEW x \in Entries(q), x.of = t PROVE WriteSound(x)'
    <2>1. WriteSound(x) /\ ~ (w.by \in Once /\ w.by = x.by)
      <3>1. x \in Entries(chain)
        BY <1>2, <1>3
      <3> QED BY <1>2, <1>3, <3>1, EntryOf
    <2>2. "open" \in Once /\ "guarded" \in Once /\ "detached" \in Once
      BY DEF Once, Ways
    <2>3. /\ x.by = "open" => opening'[x.of] = opening[x.of]
          /\ x.by = "guarded" => Guarded(x.of)'.place = Guarded(x.of).place
      BY <1>3, <2>1, <2>2
    <2>4. x.by = "detached" => Detached(x.of)'.place = Detached(x.of).place
      <3>1. x.by = "detached" => Detached(x.of).place # "idle"
        BY <2>1 DEF WriteSound, WaysWrite
      <3> QED BY <1>3, <2>1, <2>2, <3>1
    <2>5. opening'[x.of] # "none" /\ (opening[x.of] \in Begun => opening'[x.of] \in Begun)
      BY <1>3
    <2> QED BY <2>1, <2>3, <2>4, <2>5, WriteKept
  <1>4. /\ chain' \in Seq(QueuedWrite) /\ InTurn(chain')
        /\ \A x \in Entries(chain') : (x \in Entries(chain) /\ x.of # t) \/ WriteSound(x)'
    <2>1. CASE chain' = q
      BY <1>2, <1>3, <2>1
    <2>2. CASE chain' # q
      <3>1. /\ chain' = Append(q, n) /\ n \in QueuedWrite /\ n.do # "count" /\ n.of = t /\ WriteSound(n)'
            /\ n.by \in Once => \A x \in Entries(q) : ~ (x.of = n.of /\ x.by = n.by)
        BY <1>2, <2>2
      <3>2. /\ Append(q, n) \in Seq(QueuedWrite) /\ InTurn(Append(q, n))
            /\ Entries(Append(q, n)) = Entries(q) \cup {n}
        BY <1>2, <3>1, Appended
      <3> QED BY <1>2, <1>3, <3>1, <3>2
    <2> QED BY <2>1, <2>2
  <1>5. FileTypes'
    BY <1>0, <1>4 DEF FileTypes
  <1>6. ClientTypes'
    <2>1. ASSUME NEW c \in Clients PROVE CallOK(call[c])'
      <3>1. CallOK(call'[c])
        BY <1>0, NoCallOf DEF ClientTypes
      <3> QED BY <3>1 DEF CallOK
    <2> QED BY <1>0, <2>1 DEF ClientTypes
  <1>7. /\ host' # "down"
        /\ ~ Running' => \A c \in Clients : call'[c] = NoCall
    BY DEF AttachmentInv, Running
  <1>8. pty'[t] = "alive" => pty[t] = "alive"
    OBVIOUS
  <1> QED BY <1>4, <1>5, <1>6, <1>7, <1>8, OneStep

\* The head, with the terminal, the end or the call that it is for.
LEMMA HeadOf ==
    ASSUME AttachmentInv, chain # <<>>
    PROVE  /\ Head(chain) \in QueuedWrite /\ WriteSound(Head(chain)) /\ Head(chain).of \in Terminals
           /\ Head(chain).from \in Stored /\ Head(chain).to \in Stored
           /\ Head(chain).by \in By /\ TerminalSound(Head(chain).of)
  <1>1. chain \in Seq(QueuedWrite)
    BY DEF AttachmentInv, FileTypes
  <1>2. PICK w : w = Head(chain) /\ w \in Entries(chain)
    BY <1>1, NotEmpty
  <1>3. w \in QueuedWrite /\ WriteSound(w) /\ w.of \in Terminals
    BY <1>2, EntryOf
  <1>4. w.from \in Stored /\ w.to \in Stored /\ w.by \in By
    BY <1>3 DEF QueuedWrite
  <1>5. TerminalSound(w.of)
    BY <1>3 DEF AttachmentInv
  <1> QED BY <1>2, <1>3, <1>4, <1>5

\* What a record may become by a write: it was computed from the present one, or it replaces
\* a newer one.
Written(w, s) ==
    \/ w.do = "store" /\ s = w.to /\ (stored[w.of] # w.from => "sessions" \in slips')
    \/ w.do = "count" /\ s.status = stored[w.of].status

\* A step that changes the record of the terminal, and where its start or one of its ends stands.
SettlesAt(w, t, s) ==
    /\ chain # <<>> /\ w = Head(chain) /\ t = w.of
    /\ stored' = [stored EXCEPT ![t] = s] /\ Written(w, s)
    /\ host # "down" /\ GoesOn(w, Tail(chain))
    /\ slips \subseteq slips' /\ slips' \subseteq {"sessions", "torn"}
    /\ UNCHANGED <<host, authority, contained, kept, pty, active, finishing, leases, failures, missed, intruded>>

LEMMA Settling ==
    ASSUME AttachmentAssumption, AttachmentInv, NEW w, NEW t \in Terminals, NEW s \in Stored, SettlesAt(w, t, s)
    PROVE  /\ HostTypes /\ FileTypes /\ EndTypes /\ ClientTypes /\ TerminalSound(t)
           /\ w \in QueuedWrite /\ WriteSound(w) /\ w.by \in By /\ w.of = t
           /\ EnvKept /\ HostTypes' /\ stored' \in [Terminals -> Stored] /\ stored'[t] = s
           /\ \A u \in Terminals : u # t => stored'[u] = stored[u]
           /\ (intruded' => failures' > 0) /\ opening[t] # "none"
           /\ host' = host /\ host # "down" /\ pty' = pty /\ active' = active /\ contained' = contained
           /\ failures' = failures /\ missed' = missed /\ authority' = authority
  <1>1. HostTypes /\ FileTypes /\ EndTypes /\ ClientTypes /\ TerminalSound(t)
    BY DEF AttachmentInv
  <1>2. w \in QueuedWrite /\ WriteSound(w) /\ w.by \in By /\ w.of = t
    BY HeadOf DEF SettlesAt
  <1>3. EnvKept
    BY DEF SettlesAt, EnvKept, Running
  <1>4. HostTypes'
    BY <1>1 DEF SettlesAt, HostTypes
  <1>5. /\ stored' \in [Terminals -> Stored] /\ stored'[t] = s
        /\ \A u \in Terminals : u # t => stored'[u] = stored[u]
    BY <1>1 DEF SettlesAt, FileTypes
  <1>6. (intruded' => failures' > 0) /\ opening[t] # "none"
    BY <1>2 DEF SettlesAt, AttachmentInv, WriteSound
  <1> QED BY <1>1, <1>2, <1>3, <1>4, <1>5, <1>6 DEF SettlesAt

\* The record of a start, or its last event.
LEMMA SettleStart ==
    ASSUME AttachmentAssumption, AttachmentInv, NEW w, NEW t \in Terminals, NEW s \in Stored, SettlesAt(w, t, s),
           w.by = "open", opening[t] # "detaching"
    PROVE  AttachmentInv'
  <1>0. /\ HostTypes /\ FileTypes /\ EndTypes /\ ClientTypes /\ TerminalSound(t)
        /\ w \in QueuedWrite /\ WriteSound(w) /\ w.by \in By /\ w.of = t
        /\ EnvKept /\ HostTypes' /\ stored' \in [Terminals -> Stored] /\ stored'[t] = s
        /\ \A u \in Terminals : u # t => stored'[u] = stored[u]
        /\ (intruded' => failures' > 0) /\ opening[t] # "none"
        /\ host' = host /\ host # "down" /\ pty' = pty /\ active' = active /\ contained' = contained
        /\ failures' = failures /\ missed' = missed /\ authority' = authority
    BY Settling
  <1>1. \/ opening[t] \in {"prepending", "storing"} /\ w.do = "store" /\ w.to.status \in LiveStatus
        \/ opening[t] = "reporting" /\ w.do # "store"
    BY <1>0 DEF WriteSound
  <1>b. PICK p : p = CASE opening[t] = "prepending" -> "recording"
                       [] opening[t] = "storing" -> "taking"
                       [] OTHER -> "done"
    OBVIOUS
  <1>2. /\ opening' = [opening EXCEPT ![t] = p]
        /\ chain' = Tail(chain) /\ endings' = endings /\ call' = call
    <2>1. GoesOn(w, Tail(chain)) /\ w.of = t
      BY <1>0 DEF SettlesAt
    <2>2. w.by \notin Ways /\ w.by \notin Clients
      BY DEF AttachmentAssumption, Ways
    <2> QED BY <1>b, <2>1, <2>2 DEF GoesOn, Go
  <1>3. \/ opening[t] = "prepending" /\ p = "recording" /\ s.status \in LiveStatus
        \/ opening[t] = "storing" /\ p = "taking" /\ s.status \in LiveStatus
        \/ opening[t] = "reporting" /\ p = "done" /\ s.status = stored[t].status
    BY <1>0, <1>1, <1>b DEF SettlesAt, Written
  <1>4. opening'[t] = p /\ \A u \in Terminals : u # t => opening'[u] = opening[u]
    BY <1>0, <1>2 DEF EndTypes
  <1>5. \A u \in Terminals : Guarded(u)' = Guarded(u) /\ Detached(u)' = Detached(u)
    BY <1>2 DEF Guarded, Detached
  <1>6. EndTypes'
    <2>1. finishing' = finishing
      BY DEF SettlesAt
    <2>2. p \in Place
      BY <1>3 DEF Place
    <2>3. opening' \in [Terminals -> Place]
      BY <1>0, <1>2, <2>2 DEF EndTypes
    <2> QED BY <1>0, <1>2, <2>1, <2>3 DEF EndTypes, Running
  <1>7. TerminalSound(t)'
    <2>1. ProcessSound(t)'
      BY <1>0, <1>3, <1>4, <1>5 DEF TerminalSound, ProcessSound, Begun
    <2>2. BeforeSound(t)'
      <3>1. \/ p \in Beginning /\ opening[t] \in Beginning /\ s.status \in LiveStatus
            \/ p \notin Beginning /\ s.status = stored[t].status
        BY <1>3 DEF Beginning
      <3>2. slips \subseteq slips'
        BY DEF SettlesAt
      <3>3. CASE p \in Beginning
        <4>1. ~ contained => Guarded(t).place = "idle"
          BY <1>0, <3>1, <3>3 DEF TerminalSound, BeforeSound
        <4> QED BY <1>0, <1>4, <1>5, <3>1, <3>3, <4>1 DEF BeforeSound
      <3>4. CASE p \notin Beginning
        BY <1>0, <1>4, <1>5, <3>1, <3>2, <3>4 DEF TerminalSound, BeforeSound
      <3> QED BY <3>3, <3>4
    <2>3. AfterSound(t)'
      <3>1. \/ p \in Beginning /\ opening[t] \in Beginning
            \/ p \notin Beginning /\ s.status = stored[t].status
        BY <1>3 DEF Beginning
      <3>2. slips \subseteq slips'
        BY DEF SettlesAt
      <3>3. CASE p \in Beginning
        BY <1>0, <1>4, <1>5, <3>1, <3>3 DEF TerminalSound, AfterSound
      <3>4. CASE p \notin Beginning
        BY <1>0, <1>4, <1>5, <3>1, <3>2, <3>4 DEF TerminalSound, AfterSound
      <3> QED BY <3>3, <3>4
    <2>4. StoppedSound(t)'
      <3>1. Running
        BY <1>0, <1>3 DEF TerminalSound, StoppedSound
      <3> QED BY <1>0, <1>3, <1>4, <3>1 DEF StoppedSound, Running
    <2> QED BY <2>1, <2>2, <2>3, <2>4 DEF TerminalSound
  <1>8. \A u \in Terminals : u # t => Same(u)
    BY <1>0, <1>4, <1>5 DEF Same
  <1>9. opening'[t] # "none" /\ (opening[t] \in Begun => opening'[t] \in Begun)
    BY <1>3, <1>4 DEF Begun
  <1>10. DOMAIN call' = Clients /\ \A c \in Clients : call'[c] \in {call[c], NoCall}
    BY <1>0, <1>2 DEF ClientTypes
  <1>11. chain # <<>> /\ w = Head(chain) /\ UNCHANGED <<kept, leases, pty>>
    BY DEF SettlesAt
  <1> QED BY <1>0, <1>2, <1>5, <1>6, <1>7, <1>8, <1>9, <1>10, <1>11, HeadStep

\* The last event of a start that failed: it is completed apart.
LEMMA SettleDetaching ==
    ASSUME AttachmentAssumption, AttachmentInv, NEW w, NEW t \in Terminals, NEW s \in Stored, SettlesAt(w, t, s),
           w.by = "open", opening[t] = "detaching"
    PROVE  AttachmentInv'
  <1>0. /\ HostTypes /\ FileTypes /\ EndTypes /\ ClientTypes /\ TerminalSound(t)
        /\ w \in QueuedWrite /\ WriteSound(w) /\ w.by \in By /\ w.of = t
        /\ EnvKept /\ HostTypes' /\ stored' \in [Terminals -> Stored] /\ stored'[t] = s
        /\ \A u \in Terminals : u # t => stored'[u] = stored[u]
        /\ (intruded' => failures' > 0) /\ opening[t] # "none"
        /\ host' = host /\ host # "down" /\ pty' = pty /\ active' = active /\ contained' = contained
        /\ failures' = failures /\ missed' = missed /\ authority' = authority
    BY Settling
  <1>1. s.status = stored[t].status /\ Running /\ Detached(t).place = "idle"
    BY <1>0 DEF SettlesAt, Written, WriteSound, TerminalSound, ProcessSound, StoppedSound
  <1>2. PICK e : e = [NoEnd EXCEPT !.place = "event"]
    OBVIOUS
  <1>3. e \in EndRecord /\ e.place = "event"
    BY <1>2, NoEndOf DEF EndRecord, EndPlace
  <1>4. PICK n : n = Event(t, "detached")
    OBVIOUS
  <1>5. /\ opening' = [opening EXCEPT ![t] = "done"] /\ chain' = Append(Tail(chain), n)
        /\ endings' = [endings EXCEPT ![<<t, "detached">>] = e] /\ call' = call
    <2>1. GoesOn(w, Tail(chain)) /\ w.of = t
      BY <1>0 DEF SettlesAt
    <2>2. w.by \notin Ways /\ w.by \notin Clients
      BY DEF AttachmentAssumption, Ways
    <2>3. /\ Go(w.of, "done") /\ chain' = Append(Tail(chain), Event(w.of, "detached"))
          /\ endings' = [endings EXCEPT ![<<w.of, "detached">>] = [NoEnd EXCEPT !.place = "event"]]
          /\ call' = call
      BY <2>1, <2>2 DEF GoesOn
    <2> QED BY <1>2, <1>4, <2>1, <2>3 DEF Go
  <1>6. opening'[t] = "done" /\ \A u \in Terminals : u # t => opening'[u] = opening[u]
    BY <1>0, <1>5 DEF EndTypes
  <1>7. /\ endings' \in [Terminals \X Ways -> EndRecord]
        /\ Detached(t)' = e /\ Guarded(t)' = Guarded(t)
        /\ \A u \in Terminals : u # t => Guarded(u)' = Guarded(u) /\ Detached(u)' = Detached(u)
    <2>1. EndTypes /\ "detached" \in Ways
      BY <1>0 DEF Ways
    <2>2. PICK way \in Ways : way = "detached" /\ endings' = [endings EXCEPT ![<<t, way>>] = e]
      BY <1>5, <2>1
    <2>3. e \in EndRecord
      BY <1>3
    <2> QED BY <2>1, <2>2, <2>3, EndChanged
  <1>8. EndTypes'
    <2>1. finishing' = finishing
      BY DEF SettlesAt
    <2>2. opening' \in [Terminals -> Place]
      BY <1>0, <1>5 DEF EndTypes, Place
    <2>3. \A u \in Terminals : u \in finishing' <=> Guarded(u)'.place # "idle"
      <3>1. \A u \in Terminals : u \in finishing <=> Guarded(u).place # "idle"
        BY <1>0 DEF EndTypes, Guarded
      <3>2. \A u \in Terminals : Guarded(u)' = Guarded(u)
        BY <1>7
      <3> QED BY <2>1, <3>1, <3>2
    <2> QED BY <1>0, <1>7, <2>1, <2>2, <2>3 DEF EndTypes, Running, Guarded
  <1>9. TerminalSound(t)'
    <2>0. slips \subseteq slips'
      BY DEF SettlesAt
    <2>1. ProcessSound(t)'
      BY <1>0, <1>3, <1>6, <1>7 DEF TerminalSound, ProcessSound, Begun
    <2>2. BeforeSound(t)'
      BY <1>0, <1>1, <1>6, <1>7, <2>0 DEF TerminalSound, BeforeSound, Beginning
    <2>3. AfterSound(t)'
      BY <1>0, <1>1, <1>6, <1>7, <2>0 DEF TerminalSound, AfterSound, Beginning
    <2>4. StoppedSound(t)'
      BY <1>0, <1>1, <1>6 DEF StoppedSound, Running
    <2> QED BY <2>1, <2>2, <2>3, <2>4 DEF TerminalSound
  <1>10. \A u \in Terminals : u # t => Same(u)
    BY <1>0, <1>6, <1>7 DEF Same
  <1>11. opening'[t] # "none" /\ opening'[t] \in Begun
    BY <1>6 DEF Begun
  <1>12. DOMAIN call' = Clients /\ \A c \in Clients : call'[c] \in {call[c], NoCall}
    BY <1>0, <1>5 DEF ClientTypes
  <1>13. chain # <<>> /\ w = Head(chain) /\ UNCHANGED <<kept, leases, pty>>
    BY DEF SettlesAt
  <1>14. n \in QueuedWrite /\ n.do = "event" /\ n.of = t /\ n.by = "detached"
    BY <1>0, <1>4, EventOf DEF By, Once, Ways
  <1>15. WriteSound(n)'
    <2>1. n.by \notin Clients /\ n.by \notin {"open", "guarded", "output", "host"} /\ host' # "recovering"
      BY <1>0, <1>1, <1>14 DEF AttachmentAssumption, Running
    <2> QED BY <1>3, <1>7, <1>11, <1>14, <2>1 DEF WriteSound, WaysWrite
  <1>16. \A x \in Entries(Tail(chain)) : ~ (x.of = t /\ x.by = n.by)
    <2>1. chain \in Seq(QueuedWrite)
      BY <1>0 DEF FileTypes
    <2>2. Entries(Tail(chain)) \subseteq Entries(chain)
      BY <1>13, <2>1, NotEmpty
    <2> QED BY <1>1, <1>14, <2>2, EntryOf DEF WriteSound, WaysWrite
  <1>17. chain' = Append(Tail(chain), n) /\ n.do # "count"
    BY <1>5, <1>14
  <1> QED BY <1>0, <1>1, <1>7, <1>8, <1>9, <1>10, <1>11, <1>12, <1>13, <1>14, <1>15, <1>16, <1>17, HeadStep

\* The event of an end, or its outcome.
LEMMA SettleEnd ==
    ASSUME AttachmentAssumption, AttachmentInv, NEW w, NEW t \in Terminals, NEW s \in Stored, SettlesAt(w, t, s),
           NEW way \in Ways, w.by = way
    PROVE  AttachmentInv'
  <1>0. /\ HostTypes /\ FileTypes /\ EndTypes /\ ClientTypes /\ TerminalSound(t)
        /\ w \in QueuedWrite /\ WriteSound(w) /\ w.by \in By /\ w.of = t
        /\ EnvKept /\ HostTypes' /\ stored' \in [Terminals -> Stored] /\ stored'[t] = s
        /\ \A u \in Terminals : u # t => stored'[u] = stored[u]
        /\ (intruded' => failures' > 0) /\ opening[t] # "none"
        /\ host' = host /\ host # "down" /\ pty' = pty /\ active' = active /\ contained' = contained
        /\ failures' = failures /\ missed' = missed /\ authority' = authority
    BY Settling
  <1>1. PICK o \in EndRecord : o = endings[<<t, way>>]
    BY <1>0, EndOf
  <1>2. way = "guarded" \/ way = "detached"
    BY DEF Ways
  <1>3. /\ way = "guarded" => o = Guarded(t)
        /\ way = "detached" => o = Detached(t)
    BY <1>1 DEF Guarded, Detached
  <1>4. \/ o.place = "event" /\ w.do # "store"
        \/ o.place = "store" /\ w.do = "store" /\ w.to.status \in EndedAs
    BY <1>0, <1>2, <1>3 DEF WriteSound, WaysWrite
  <1>5. PICK p : p = IF o.place = "event" THEN "latest" ELSE "leases"
    OBVIOUS
  <1>6. \/ o.place = "event" /\ p = "latest" /\ s.status = stored[t].status
        \/ o.place = "store" /\ p = "leases" /\ s.status \in EndedAs
    BY <1>0, <1>4, <1>5 DEF SettlesAt, Written
  <1>7. PICK e : e = [o EXCEPT !.place = p]
    OBVIOUS
  <1>8. e \in EndRecord /\ e.place = p /\ e.exited = o.exited
    BY <1>6, <1>7 DEF EndRecord, EndPlace
  <1>9. /\ endings' = [endings EXCEPT ![<<t, way>>] = e]
        /\ chain' = Tail(chain) /\ opening' = opening /\ call' = call
    <2>1. GoesOn(w, Tail(chain)) /\ w.of = t
      BY <1>0 DEF SettlesAt
    <2>2. w.by # "open" /\ w.by \notin Clients /\ w.by \in Ways
      BY <1>2 DEF AttachmentAssumption
    <2>3. /\ endings' = [endings EXCEPT ![<<t, way>>].place = IF @ = "event" THEN "latest" ELSE "leases"]
          /\ chain' = Tail(chain) /\ opening' = opening /\ call' = call
      BY <2>1, <2>2 DEF GoesOn
    <2> QED BY <1>1, <1>5, <1>7, <2>3
  <1>10. /\ endings' \in [Terminals \X Ways -> EndRecord]
         /\ way = "guarded" => Guarded(t)' = e /\ Detached(t)' = Detached(t)
         /\ way = "detached" => Detached(t)' = e /\ Guarded(t)' = Guarded(t)
         /\ \A u \in Terminals : u # t => Guarded(u)' = Guarded(u) /\ Detached(u)' = Detached(u)
    <2>1. EndTypes /\ e \in EndRecord
      BY <1>0, <1>8
    <2>2. endings' = [endings EXCEPT ![<<t, way>>] = e]
      BY <1>9
    <2> QED BY <2>1, <2>2, EndChanged
  <1>11. EndTypes'
    <2>1. finishing' = finishing
      BY DEF SettlesAt
    <2>2. ASSUME NEW u \in Terminals PROVE u \in finishing' <=> Guarded(u)'.place # "idle"
      <3>1. u \in finishing <=> Guarded(u).place # "idle"
        BY <1>0 DEF EndTypes, Guarded
      <3>2. Guarded(u)' = Guarded(u) \/ (Guarded(u)'.place # "idle" /\ Guarded(u).place # "idle")
        BY <1>2, <1>3, <1>6, <1>8, <1>10
      <3> QED BY <2>1, <3>1, <3>2
    <2> QED BY <1>0, <1>9, <1>10, <2>1, <2>2 DEF EndTypes, Running, Guarded
  <1>12. Running
    BY <1>0, <1>2, <1>3, <1>6 DEF TerminalSound, StoppedSound
  <1>13. slips \subseteq slips'
    BY DEF SettlesAt
  <1>14. s.status \in EndedAs => s.status \notin LiveStatus
    BY DEF EndedAs, LiveStatus
  <1>15. TerminalSound(t)'
    <2>1. ProcessSound(t)'
      BY <1>0, <1>2, <1>3, <1>6, <1>8, <1>9, <1>10 DEF TerminalSound, ProcessSound
    <2>2. BeforeSound(t)'
      <3>1. SUFFICES ASSUME ~ contained PROVE BeforeSound(t)'
        BY <1>0 DEF BeforeSound
      <3>2. CASE way = "guarded"
        BY <1>0, <1>3, <1>6, <1>8, <1>9, <1>10, <1>13, <1>14, <3>1, <3>2 DEF TerminalSound, BeforeSound
      <3>3. CASE way = "detached"
        <4>1. opening[t] = "done" /\ (pty[t] = "alive" => failures > 0)
          BY <1>0, <1>3, <1>6, <3>3 DEF TerminalSound, ProcessSound
        <4>2. Guarded(t)' = Guarded(t)
          BY <1>10, <3>3
        <4> QED BY <1>0, <1>6, <1>9, <1>13, <1>14, <3>1, <4>1, <4>2 DEF TerminalSound, BeforeSound, Beginning
      <3> QED BY <1>2, <3>2, <3>3
    <2>3. AfterSound(t)'
      <3>1. CASE way = "guarded"
        BY <1>0, <1>3, <1>6, <1>8, <1>9, <1>10, <1>13, <1>14, <3>1 DEF TerminalSound, AfterSound
      <3>2. CASE way = "detached"
        <4>1. Guarded(t)' = Guarded(t)
          BY <1>10, <3>2
        <4> QED BY <1>0, <1>6, <1>9, <1>13, <1>14, <4>1 DEF TerminalSound, AfterSound
      <3> QED BY <1>2, <3>1, <3>2
    <2>4. StoppedSound(t)'
      BY <1>0, <1>9, <1>12 DEF StoppedSound, Running
    <2> QED BY <2>1, <2>2, <2>3, <2>4 DEF TerminalSound
  <1>16. \A u \in Terminals : u # t => Same(u)
    BY <1>0, <1>9, <1>10 DEF Same
  <1>17. opening'[t] # "none" /\ (opening[t] \in Begun => opening'[t] \in Begun) /\ opening'[t] = opening[t]
    BY <1>0, <1>9
  <1>18. DOMAIN call' = Clients /\ \A c \in Clients : call'[c] \in {call[c], NoCall}
    BY <1>0, <1>9 DEF ClientTypes
  <1>19. chain # <<>> /\ w = Head(chain) /\ UNCHANGED <<kept, leases, pty>>
    BY DEF SettlesAt
  <1>20. /\ w.by # "guarded" => Guarded(t)'.place = Guarded(t).place
         /\ w.by # "detached" => Detached(t)'.place = Detached(t).place
    BY <1>2, <1>10
  <1> QED BY <1>0, <1>9, <1>11, <1>15, <1>16, <1>17, <1>18, <1>19, <1>20, HeadStep

\* The record of a resize, or an event that nothing waits for.
LEMMA SettleOther ==
    ASSUME AttachmentAssumption, AttachmentInv, NEW w, NEW t \in Terminals, NEW s \in Stored, SettlesAt(w, t, s),
           w.by \notin Once
    PROVE  AttachmentInv'
  <1>0. /\ HostTypes /\ FileTypes /\ EndTypes /\ ClientTypes /\ TerminalSound(t)
        /\ w \in QueuedWrite /\ WriteSound(w) /\ w.by \in By /\ w.of = t
        /\ EnvKept /\ HostTypes' /\ stored' \in [Terminals -> Stored] /\ stored'[t] = s
        /\ \A u \in Terminals : u # t => stored'[u] = stored[u]
        /\ (intruded' => failures' > 0) /\ opening[t] # "none"
        /\ host' = host /\ host # "down" /\ pty' = pty /\ active' = active /\ contained' = contained
        /\ failures' = failures /\ missed' = missed /\ authority' = authority
    BY Settling
  <1>1. w.by # "open" /\ w.by \notin Ways /\ w.by # "guarded" /\ w.by # "detached"
    BY DEF Once, Ways
  <1>2. chain' = Tail(chain) /\ opening' = opening /\ endings' = endings
    <2>1. GoesOn(w, Tail(chain)) /\ w.of = t
      BY <1>0 DEF SettlesAt
    <2>2. CASE w.by \in Clients
      BY <1>1, <2>1, <2>2 DEF GoesOn
    <2>3. CASE w.by \notin Clients
      BY <1>1, <2>1, <2>3 DEF GoesOn
    <2> QED BY <2>2, <2>3
  <1>3. DOMAIN call' = Clients /\ \A c \in Clients : call'[c] \in {call[c], NoCall}
    <2>1. GoesOn(w, Tail(chain)) /\ w.of = t
      BY <1>0 DEF SettlesAt
    <2>2. CASE w.by \in Clients
      <3>1. call' = [call EXCEPT ![w.by] = NoCall]
        BY <1>1, <2>1, <2>2 DEF GoesOn
      <3> QED BY <1>0, <3>1 DEF ClientTypes
    <2>3. CASE w.by \notin Clients
      <3>1. call' = call
        BY <1>1, <2>1, <2>3 DEF GoesOn
      <3> QED BY <1>0, <3>1 DEF ClientTypes
    <2> QED BY <2>2, <2>3
  <1>4. \A u \in Terminals : Guarded(u)' = Guarded(u) /\ Detached(u)' = Detached(u)
    BY <1>2 DEF Guarded, Detached
  <1>5. slips \subseteq slips'
    BY DEF SettlesAt
  <1>6. \/ s.status = stored[t].status
        \/ /\ w.by \in Clients /\ "sessions" \in slips' /\ opening[t] \in Begun
           /\ pty[t] = "alive" => contained \/ failures > 0 \/ s.status \in LiveStatus
    <2>1. CASE w.do = "count"
      BY <1>0, <2>1 DEF SettlesAt, Written
    <2>2. CASE w.do # "count"
      <3>1. w.do = "store" /\ s = w.to /\ (stored[t] # w.from => "sessions" \in slips')
        BY <1>0, <2>2 DEF SettlesAt, Written
      <3>2. w.by \in Clients
        BY <1>0, <3>1, <1>1 DEF WriteSound, By, Once
      <3>3. w.to = w.from /\ opening[t] \in Begun /\ (pty[t] = "alive" => contained \/ failures > 0 \/ w.to.status \in LiveStatus)
        BY <1>0, <3>2 DEF WriteSound
      <3> QED BY <3>1, <3>2, <3>3
    <2> QED BY <2>1, <2>2
  <1>7. host = "recovering" => s.status = stored[t].status
    <2>1. ASSUME host = "recovering" PROVE w.by \notin Clients
      <3>1. w.by = "host"
        BY <1>0, <2>1 DEF WriteSound
      <3> QED BY <3>1 DEF AttachmentAssumption
    <2> QED BY <1>6, <2>1
  <1>8. EndTypes'
    <2>1. finishing' = finishing
      BY DEF SettlesAt
    <2> QED BY <1>0, <1>2, <2>1 DEF EndTypes, Running
  <1>9. TerminalSound(t)'
    <2>1. ProcessSound(t)'
      BY <1>0, <1>2, <1>4 DEF TerminalSound, ProcessSound
    <2>2. BeforeSound(t)'
      <3>1. CASE s.status = stored[t].status
        BY <1>0, <1>2, <1>4, <1>5, <3>1 DEF TerminalSound, BeforeSound
      <3>2. CASE s.status # stored[t].status
        <4>1. opening[t] \notin Beginning /\ "sessions" \in slips'
          BY <1>6, <3>2 DEF Begun, Beginning
        <4>2. ~ contained /\ pty[t] = "alive" => failures > 0 \/ (s.status \in LiveStatus /\ Guarded(t).place = "idle")
          BY <1>0, <1>6, <3>2 DEF TerminalSound, BeforeSound
        <4> QED BY <1>0, <1>2, <1>4, <4>1, <4>2 DEF BeforeSound
      <3> QED BY <3>1, <3>2
    <2>3. AfterSound(t)'
      <3>1. CASE s.status = stored[t].status
        BY <1>0, <1>2, <1>4, <1>5, <3>1 DEF TerminalSound, AfterSound
      <3>2. CASE s.status # stored[t].status
        <4>1. "sessions" \in slips'
          BY <1>6, <3>2
        <4> QED BY <1>0, <1>2, <1>4, <4>1 DEF TerminalSound, AfterSound
      <3> QED BY <3>1, <3>2
    <2>4. StoppedSound(t)'
      <3>1. ~ Running => /\ t \notin active' /\ Guarded(t)'.place = "idle" /\ Detached(t)'.place = "idle"
                         /\ opening'[t] \in {"none", "done"} /\ pty'[t] \notin {"alive", "killed"}
        BY <1>0, <1>2, <1>4 DEF TerminalSound, StoppedSound
      <3>2. host = "recovering" => s.status \notin LiveStatus
        BY <1>0, <1>7 DEF TerminalSound, StoppedSound
      <3> QED BY <1>0, <1>2, <3>1, <3>2 DEF StoppedSound, Running
    <2> QED BY <2>1, <2>2, <2>3, <2>4 DEF TerminalSound
  <1>10. \A u \in Terminals : u # t => Same(u)
    BY <1>0, <1>2, <1>4 DEF Same
  <1>11. chain # <<>> /\ w = Head(chain) /\ UNCHANGED <<kept, leases, pty>>
    BY DEF SettlesAt
  <1>12. opening'[t] # "none" /\ (opening[t] \in Begun => opening'[t] \in Begun) /\ opening'[t] = opening[t]
    BY <1>0, <1>2
  <1> QED BY <1>0, <1>2, <1>3, <1>4, <1>8, <1>9, <1>10, <1>11, <1>12, HeadStep

Kept == [of : Terminals, cursor : Nat]

LEMMA WithoutOf ==
    ASSUME NEW S, NEW all \in Seq(S), Len(all) >= 1, NEW i
    PROVE  /\ Without(all, i) \in Seq(S) /\ Len(Without(all, i)) = Len(all) - 1
           /\ \A j \in 1 .. Len(all) - 1 : Without(all, i)[j] = all[IF j < i THEN j ELSE j + 1]
  <1>1. PICK n \in Nat : n = Len(all) /\ n >= 1
    OBVIOUS
  <1>2. Without(all, i) = [j \in 1 .. n - 1 |-> all[IF j < i THEN j ELSE j + 1]]
    BY <1>1 DEF Without
  <1>3. ASSUME NEW j \in 1 .. n - 1 PROVE all[IF j < i THEN j ELSE j + 1] \in S
    <2>1. j \in 1 .. n /\ j + 1 \in 1 .. n
      BY <1>1
    <2>2. all[j] \in S /\ all[j + 1] \in S
      BY <1>1, <2>1
    <2> QED BY <2>2
  <1>4. n - 1 \in Nat
    BY <1>1
  <1>5. Without(all, i) \in Seq(S) /\ Len(Without(all, i)) = n - 1
    BY <1>2, <1>3, <1>4
  <1> QED BY <1>1, <1>2, <1>5

LEMMA RetainOf ==
    ASSUME AttachmentAssumption, NEW all \in Seq(Kept), Len(all) >= 1, NEW t
    PROVE  Retain(t, all) \in Seq(Kept)
  <1> DEFINE own == {i \in DOMAIN all : all[i].of = t}
  <1>1. PICK mine : mine = IF Cardinality(own) > KeptOwn THEN Without(all, Min(own)) ELSE all
    OBVIOUS
  <1>2. mine \in Seq(Kept)
    <2>1. PICK i : i = Min(own)
      OBVIOUS
    <2>2. Without(all, i) \in Seq(Kept)
      BY WithoutOf
    <2> QED BY <1>1, <2>1, <2>2
  <1>3. Retain(t, all) = IF Len(mine) > KeptAll THEN Without(mine, 1) ELSE mine
    BY <1>1 DEF Retain
  <1>4. CASE Len(mine) > KeptAll
    <2>1. Len(mine) >= 1
      BY <1>2, <1>4 DEF AttachmentAssumption
    <2> QED BY <1>2, <1>3, <1>4, <2>1, WithoutOf
  <1> QED BY <1>2, <1>3, <1>4

\* The events are written; the cursor is yet to be.
LEMMA EventWritten ==
    ASSUME AttachmentAssumption, AttachmentInv, chain # <<>>, NEW w, w = Head(chain), w.do = "event", host # "down",
           kept' \in Seq(Kept), chain' = <<[w EXCEPT !.do = "count"]>> \o Tail(chain),
           UNCHANGED <<host, authority, contained, stored, opening, endings, pty, active, finishing, leases, call,
                       failures, slips, missed, intruded>>
    PROVE  AttachmentInv'
  <1>0. HostTypes /\ FileTypes /\ EndTypes /\ ClientTypes
    BY DEF AttachmentInv
  <1>1. w \in QueuedWrite /\ WriteSound(w) /\ w.of \in Terminals
    BY HeadOf
  <1>2. PICK t \in Terminals : t = w.of /\ TerminalSound(t)
    BY <1>1 DEF AttachmentInv
  <1>3. EnvKept
    BY DEF EnvKept, Running
  <1>4. \A u \in Terminals : Same(u)
    BY DEF Same, Guarded, Detached
  <1>5. TerminalSound(t)'
    BY <1>2, <1>3, <1>4, TerminalKept
  <1>6. PICK n : n = [w EXCEPT !.do = "count"]
    OBVIOUS
  <1>7. /\ n \in QueuedWrite /\ n.do = "count" /\ n.of = w.of /\ n.by = w.by /\ n.from = w.from /\ n.to = w.to
    BY <1>1, <1>6 DEF QueuedWrite
  <1>8. WriteSound(n)
    BY <1>1, <1>7 DEF WriteSound, WaysWrite
  <1>9. PICK q \in Seq(QueuedWrite) : q = chain /\ q # <<>> /\ InTurn(q)
    BY <1>0 DEF AttachmentInv, FileTypes
  <1>10. Entries(Tail(q)) \subseteq Entries(q)
    BY <1>9, NotEmpty
  <1>11. /\ chain' \in Seq(QueuedWrite) /\ InTurn(chain')
         /\ Entries(chain') = {n} \cup Entries(Tail(q))
    <2>1. n.of = Head(q).of /\ n.by = Head(q).by
      BY <1>7, <1>9
    <2>2. /\ <<n>> \o Tail(q) \in Seq(QueuedWrite) /\ InTurn(<<n>> \o Tail(q))
          /\ Entries(<<n>> \o Tail(q)) = {n} \cup Entries(Tail(q))
      BY <1>7, <1>9, <2>1, Headed
    <2> QED BY <1>6, <1>9, <2>2
  <1>12. ASSUME NEW x \in Entries(chain'), ~ (x \in Entries(chain) /\ x.of # t) PROVE WriteSound(x)'
    <2>1. WriteSound(x)
      BY <1>8, <1>9, <1>10, <1>11, <1>12, EntryOf
    <2>2. opening'[x.of] # "none" /\ Guarded(x.of)' = Guarded(x.of) /\ Detached(x.of)' = Detached(x.of)
      BY <2>1 DEF WriteSound, Guarded, Detached
    <2> QED BY <1>3, <2>1, <2>2, WriteKept
  <1>13. HostTypes' /\ FileTypes' /\ EndTypes' /\ ClientTypes'
    BY <1>0, <1>11 DEF HostTypes, FileTypes, EndTypes, ClientTypes, CallOK, Running, Kept
  <1>14. /\ host' # "down" /\ \A c \in Clients : call'[c] \in {call[c], NoCall}
         /\ ~ Running' => \A c \in Clients : call'[c] = NoCall
         /\ intruded' => failures' > 0
    BY DEF AttachmentInv, Running
  <1>15. /\ opening[t] \in Begun => opening'[t] \in Begun
         /\ pty'[t] = "alive" => pty[t] = "alive"
    OBVIOUS
  <1>16. \A u \in Terminals : u # t => Same(u)
    BY <1>4
  <1>17. \A x \in Entries(chain') : (x \in Entries(chain) /\ x.of # t) \/ WriteSound(x)'
    BY <1>12
  <1> QED BY <1>3, <1>5, <1>11, <1>13, <1>14, <1>15, <1>16, <1>17, OneStep

LEMMA PersistStep ==
    ASSUME AttachmentAssumption, AttachmentInv, Persist
    PROVE  AttachmentInv'
  <1>0. HostTypes /\ FileTypes /\ EndTypes /\ ClientTypes
    BY DEF AttachmentInv
  <1>1. /\ host # "down" /\ chain # <<>>
        /\ UNCHANGED <<host, authority, contained, pty, active, finishing, leases, failures, missed, intruded>>
    BY DEF Persist, bounds
  <1>2. PICK w : w = Head(chain)
    OBVIOUS
  <1>3. w \in QueuedWrite /\ WriteSound(w) /\ w.of \in Terminals /\ w.from \in Stored /\ w.to \in Stored /\ w.by \in By
    BY <1>1, <1>2, HeadOf
  <1>4. PICK t \in Terminals : t = w.of
    BY <1>3
  <1>5. PICK n : n = stored[t].cursor + 1
    OBVIOUS
  <1>6. n \in Nat /\ stored[t] \in Stored
    BY <1>0, <1>5, RecordOf
  <1>7. ASSUME NEW s \in Stored, SettlesAt(w, t, s) PROVE AttachmentInv'
    <2>1. CASE w.by = "open" /\ opening[t] # "detaching"
      BY <1>7, <2>1, SettleStart
    <2>2. CASE w.by = "open" /\ opening[t] = "detaching"
      BY <1>7, <2>2, SettleDetaching
    <2>3. CASE w.by \in Ways
      BY <1>7, <2>3, SettleEnd
    <2>4. CASE w.by \notin Once
      BY <1>7, <2>4, SettleOther
    <2> QED BY <2>1, <2>2, <2>3, <2>4 DEF Once
  <1>8. CASE w.do = "store"
    <2>1. /\ stored' = [stored EXCEPT ![t] = w.to] /\ GoesOn(w, Tail(chain)) /\ kept' = kept
          /\ slips' = IF stored[t] = w.from THEN slips ELSE slips \cup {"sessions"}
      BY <1>2, <1>4, <1>8 DEF Persist
    <2>2. /\ slips \subseteq slips' /\ slips' \subseteq {"sessions", "torn"}
          /\ stored[t] # w.from => "sessions" \in slips'
      BY <1>0, <2>1 DEF HostTypes
    <2>3. PICK s \in Stored : s = w.to
      BY <1>3
    <2>4. SettlesAt(w, t, s)
      BY <1>1, <1>2, <1>4, <1>8, <2>1, <2>2, <2>3 DEF SettlesAt, Written
    <2> QED BY <1>7, <2>4
  <1>9. CASE w.do = "event"
    <2>1. /\ kept' = Retain(w.of, Append(kept, [of |-> w.of, cursor |-> n]))
          /\ chain' = <<[w EXCEPT !.do = "count"]>> \o Tail(chain)
          /\ UNCHANGED <<stored, slips, opening, endings, call>>
      BY <1>2, <1>4, <1>5, <1>9 DEF Persist
    <2>2. PICK a : a = Append(kept, [of |-> w.of, cursor |-> n])
      OBVIOUS
    <2>3. a \in Seq(Kept) /\ Len(a) >= 1
      <3>1. [of |-> w.of, cursor |-> n] \in Kept
        BY <1>3, <1>6 DEF Kept
      <3>2. kept \in Seq(Kept)
        BY <1>0 DEF FileTypes, Kept
      <3>3. a \in Seq(Kept) /\ Len(a) = Len(kept) + 1 /\ Len(kept) \in Nat
        BY <2>2, <3>1, <3>2, AppendProperties
      <3> QED BY <3>3
    <2>4. kept' \in Seq(Kept)
      BY <2>1, <2>2, <2>3, RetainOf
    <2> QED BY <1>1, <1>2, <1>9, <2>1, <2>4, EventWritten
  <1>10. CASE w.do = "count"
    <2>1. /\ stored' = [stored EXCEPT ![t].cursor = n] /\ GoesOn(w, Tail(chain)) /\ kept' = kept /\ slips' = slips
      BY <1>2, <1>4, <1>5, <1>10 DEF Persist
    <2>2. PICK s : s = [stored[t] EXCEPT !.cursor = n]
      OBVIOUS
    <2>3. s \in Stored /\ s.status = stored[t].status
      BY <1>6, <2>2 DEF Stored
    <2>4. stored' = [stored EXCEPT ![t] = s]
      BY <2>1, <2>2
    <2>5. slips' \subseteq {"sessions", "torn"} /\ slips \subseteq slips'
      BY <1>0, <2>1 DEF HostTypes
    <2>6. SettlesAt(w, t, s)
      BY <1>1, <1>2, <1>4, <1>10, <2>1, <2>3, <2>4, <2>5 DEF SettlesAt, Written
    <2> QED BY <1>7, <2>3, <2>6
  <1>11. w.do \in {"event", "count", "store"}
    BY <1>3 DEF QueuedWrite
  <1> QED BY <1>8, <1>9, <1>10, <1>11

-----------------------------------------------------------------------------
(* Failures, shutdown and initialize.                                       *)

\* What a failure leaves of a terminal: its start is over or to be completed apart, an end is
\* given up.
LEMMA TerminalFails ==
    ASSUME NEW t \in Terminals, TerminalSound(t), Running, HostTypes, failures' = failures + 1, slips \subseteq slips',
           UNCHANGED <<host, authority, contained, stored, pty, active, missed>>, opening[t] # "none",
           \/ opening'[t] = opening[t]
           \/ opening[t] # "done" /\ opening'[t] \in {"detaching", "done"},
           \/ Guarded(t)' = Guarded(t)
           \/ Guarded(t)'.place = "idle" /\ Guarded(t)'.exited = FALSE,
           Detached(t)' = Detached(t) \/ Detached(t)'.place = "idle"
    PROVE  TerminalSound(t)'
  <1>0. failures' > 0
    BY DEF HostTypes
  <1>1. ProcessSound(t)'
    BY <1>0 DEF TerminalSound, ProcessSound, Begun
  <1>2. BeforeSound(t)'
    BY <1>0 DEF TerminalSound, BeforeSound, Beginning
  <1>3. AfterSound(t)'
    BY <1>0 DEF TerminalSound, AfterSound, Beginning
  <1>4. StoppedSound(t)'
    <2>1. Running' /\ host' # "recovering" /\ opening'[t] # "none"
      BY DEF Running
    <2> QED BY <2>1 DEF StoppedSound
  <1> QED BY <1>1, <1>2, <1>3, <1>4 DEF TerminalSound

LEMMA PersistFailsStep ==
    ASSUME AttachmentAssumption, AttachmentInv, Running, failures' = failures + 1, PersistFails,
           UNCHANGED <<host, authority, contained, stored, kept, pty, active, leases, missed, intruded>>
    PROVE  AttachmentInv'
  <1>0. HostTypes /\ FileTypes /\ EndTypes /\ ClientTypes /\ chain # <<>>
    BY DEF AttachmentInv, PersistFails
  <1>1. failures' \in Nat /\ (failures > 0 => failures' > 0) /\ failures' > 0
    BY <1>0 DEF HostTypes
  <1>2. PICK w : w = Head(chain)
    OBVIOUS
  <1>3. w \in QueuedWrite /\ WriteSound(w) /\ w.of \in Terminals /\ w.by \in By
    BY <1>0, <1>2, HeadOf
  <1>4. PICK t \in Terminals : t = w.of /\ TerminalSound(t) /\ opening[t] # "none"
    BY <1>3 DEF AttachmentInv, WriteSound
  <1>5. slips' = IF w.do = "count" THEN slips \cup {"torn"} ELSE slips
    BY <1>2 DEF PersistFails
  <1>6. slips \subseteq slips' /\ slips' \subseteq {"sessions", "torn"}
    BY <1>0, <1>5 DEF HostTypes
  <1>7. EnvKept
    BY <1>1, <1>6 DEF EnvKept, Running
  <1>8. HostTypes'
    BY <1>0, <1>1, <1>6 DEF HostTypes
  <1>9. PICK n : n = Event(t, "open")
    OBVIOUS
  <1>10. DOMAIN call' = Clients /\ \A c \in Clients : call'[c] \in {call[c], NoCall}
    <2>1. call' = IF w.by \in Clients THEN [call EXCEPT ![w.by] = NoCall] ELSE call
      BY <1>2 DEF PersistFails
    <2> QED BY <1>0, <2>1 DEF ClientTypes
  <1>11. host # "down" /\ stored' \in [Terminals -> Stored] /\ (intruded' => failures' > 0)
    BY <1>0, <1>1 DEF Running, FileTypes
  <1>12. CASE w.by = "open"
    <2>1. endings' = endings /\ finishing' = finishing
      BY <1>2, <1>12 DEF PersistFails, Ways
    <2>2. \A u \in Terminals : Guarded(u)' = Guarded(u) /\ Detached(u)' = Detached(u)
      BY <2>1 DEF Guarded, Detached
    <2>3. PICK p : /\ p \in {"detaching", "done"} /\ opening' = [opening EXCEPT ![t] = p]
                   /\ chain' = Tail(chain) \/ (p = "detaching" /\ chain' = Append(Tail(chain), n))
      <3>1. CASE opening[t] \in {"storing", "reporting"}
        <4>1. opening' = [opening EXCEPT ![t] = "detaching"] /\ chain' = Append(Tail(chain), n)
          BY <1>2, <1>4, <1>9, <1>12, <3>1 DEF PersistFails, Go
        <4> QED BY <4>1
      <3>2. CASE opening[t] \notin {"storing", "reporting"}
        <4>1. opening' = [opening EXCEPT ![t] = "done"] /\ chain' = Tail(chain)
          BY <1>2, <1>4, <1>12, <3>2 DEF PersistFails
        <4> QED BY <4>1
      <3> QED BY <3>1, <3>2
    <2>4. opening'[t] = p /\ \A u \in Terminals : u # t => opening'[u] = opening[u]
      BY <1>0, <2>3 DEF EndTypes
    <2>5. opening[t] # "done"
      BY <1>3, <1>4, <1>12 DEF WriteSound
    <2>6. TerminalSound(t)'
      BY <1>0, <1>4, <1>6, <2>2, <2>3, <2>4, <2>5, TerminalFails
    <2>7. EndTypes'
      <3>1. p \in Place
        BY <2>3 DEF Place
      <3>2. opening' \in [Terminals -> Place]
        BY <1>0, <2>3, <3>1 DEF EndTypes
      <3> QED BY <1>0, <2>1, <3>2 DEF EndTypes, Running
    <2>8. \A u \in Terminals : u # t => Same(u)
      BY <2>2, <2>4 DEF Same
    <2>9. opening'[t] # "none" /\ opening'[t] \in Begun
      BY <2>3, <2>4 DEF Begun
    <2>10. chain' = Tail(chain) \/ (/\ chain' = Append(Tail(chain), n) /\ n \in QueuedWrite /\ n.do # "count"
                                    /\ n.of = t /\ n.by = "open" /\ WriteSound(n)')
      <3>1. CASE chain' = Tail(chain)
        BY <3>1
      <3>2. CASE chain' # Tail(chain)
        <4>1. opening'[t] \in {"reporting", "detaching"} /\ chain' = Append(Tail(chain), n)
          BY <2>3, <2>4, <3>2
        <4>2. host' = host
          OBVIOUS
        <4> QED BY <1>0, <1>9, <4>1, <4>2, StartEvent
      <3> QED BY <3>1, <3>2
    <2>11. \A x \in Entries(Tail(chain)) : ~ (x.of = t /\ x.by = "open")
      <3>1. chain \in Seq(QueuedWrite) /\ InTurn(chain)
        BY <1>0 DEF FileTypes, AttachmentInv
      <3>2. \A x \in Entries(Tail(chain)) : w.by \in Once => ~ (w.of = x.of /\ w.by = x.by)
        BY <1>0, <1>2, <3>1, Rest
      <3> QED BY <1>4, <1>12, <3>2 DEF Once
    <2>12. chain' = Tail(chain) \/ (/\ chain' = Append(Tail(chain), n) /\ n \in QueuedWrite /\ n.do # "count"
                                    /\ n.of = t /\ WriteSound(n)'
                                    /\ n.by \in Once => \A x \in Entries(Tail(chain)) : ~ (x.of = t /\ x.by = n.by))
      BY <2>10, <2>11
    <2> QED BY <1>0, <1>2, <1>4, <1>7, <1>8, <1>10, <1>11, <1>12, <2>2, <2>6, <2>7, <2>8, <2>9, <2>12, HeadStep
  <1>13. CASE w.by # "open"
    <2>1. opening' = opening /\ chain' = Tail(chain)
      BY <1>2, <1>13 DEF PersistFails
    <2>2. CASE w.by \in Ways
      <3>1. PICK way \in Ways : way = w.by
        BY <2>2
      <3>2. PICK e \in EndRecord : e = NoEnd /\ e.place = "idle" /\ e.exited = FALSE
        BY NoEndOf
      <3>3. /\ endings' = [endings EXCEPT ![<<t, way>>] = e]
            /\ finishing' = IF way = "guarded" THEN finishing \ {t} ELSE finishing
        <4>1. EndReleased(<<w.of, w.by>>)
          BY <1>2, <2>2 DEF PersistFails
        <4> QED BY <1>4, <3>1, <3>2, <4>1 DEF EndReleased
      <3>4. /\ endings' \in [Terminals \X Ways -> EndRecord]
            /\ way = "guarded" => Guarded(t)' = e /\ Detached(t)' = Detached(t)
            /\ way = "detached" => Detached(t)' = e /\ Guarded(t)' = Guarded(t)
            /\ \A u \in Terminals : u # t => Guarded(u)' = Guarded(u) /\ Detached(u)' = Detached(u)
        BY <1>0, <3>3, EndChanged
      <3>5. way = "guarded" \/ way = "detached"
        BY DEF Ways
      <3>6. EndTypes'
        <4>1. ASSUME NEW u \in Terminals PROVE u \in finishing' <=> Guarded(u)'.place # "idle"
          <5>1. u \in finishing <=> Guarded(u).place # "idle"
            BY <1>0 DEF EndTypes, Guarded
          <5> QED BY <3>2, <3>3, <3>4, <3>5, <5>1
        <4> QED BY <1>0, <2>1, <3>3, <3>4, <4>1 DEF EndTypes, Guarded, Running
      <3>7. TerminalSound(t)'
        BY <1>0, <1>4, <1>6, <2>1, <3>2, <3>4, <3>5, TerminalFails
      <3>8. \A u \in Terminals : u # t => Same(u)
        BY <2>1, <3>4 DEF Same
      <3>9. /\ w.by # "guarded" => Guarded(t)'.place = Guarded(t).place
            /\ w.by # "detached" => Detached(t)'.place = Detached(t).place
        BY <3>1, <3>4, <3>5
      <3>10. opening'[t] # "none" /\ opening'[t] = opening[t]
        BY <1>4, <2>1
      <3> QED BY <1>0, <1>2, <1>4, <1>7, <1>8, <1>10, <1>11, <2>1, <3>6, <3>7, <3>8, <3>9, <3>10, HeadStep
    <2>3. CASE w.by \notin Ways
      <3>1. endings' = endings /\ finishing' = finishing
        BY <1>2, <2>3 DEF PersistFails
      <3>2. \A u \in Terminals : Same(u) /\ Guarded(u)' = Guarded(u) /\ Detached(u)' = Detached(u)
        BY <2>1, <3>1 DEF Same, Guarded, Detached
      <3>3. TerminalSound(t)'
        BY <1>4, <1>7, <3>2, TerminalKept
      <3>4. EndTypes'
        BY <1>0, <2>1, <3>1 DEF EndTypes, Running
      <3>5. opening'[t] # "none" /\ opening'[t] = opening[t]
        BY <1>4, <2>1
      <3> QED BY <1>0, <1>2, <1>4, <1>7, <1>8, <1>10, <1>11, <2>1, <3>2, <3>3, <3>4, <3>5, HeadStep
    <2> QED BY <2>2, <2>3
  <1> QED BY <1>12, <1>13

LEMMA StepFailsStep ==
    ASSUME AttachmentAssumption, AttachmentInv, Running, failures' = failures + 1, StepFails,
           UNCHANGED <<host, authority, contained, stored, kept, pty, active, leases, missed, intruded>>
    PROVE  AttachmentInv'
  <1>0. HostTypes /\ FileTypes /\ EndTypes /\ ClientTypes /\ chain' = chain /\ slips' = slips
    BY DEF AttachmentInv, StepFails
  <1>1. failures' \in Nat /\ (failures > 0 => failures' > 0) /\ failures' > 0 /\ failures' \in {failures, failures + 1}
    BY <1>0 DEF HostTypes
  <1>2. EnvKept
    BY <1>0, <1>1 DEF EnvKept, Running
  <1>3. HostTypes' /\ FileTypes'
    BY <1>0, <1>1 DEF HostTypes, FileTypes
  <1>4. slips \subseteq slips' /\ slips' \subseteq {"sessions", "torn"} /\ leases' \in Seq(Lease)
    BY <1>0, LeasesKept
  <1>5. ASSUME NEW t \in Terminals, opening[t] = "recording", Go(t, "done"), UNCHANGED <<endings, finishing, call>>
        PROVE  AttachmentInv'
    <2>1. opening'[t] = "done" /\ \A u \in Terminals : u # t => opening'[u] = opening[u]
      BY <1>0, <1>5 DEF Go, EndTypes
    <2>2. \A u \in Terminals : Guarded(u)' = Guarded(u) /\ Detached(u)' = Detached(u)
      BY <1>5 DEF Guarded, Detached
    <2>3. \A u \in Terminals : u # t => Same(u)
      BY <2>1, <2>2 DEF Same
    <2>4. TerminalSound(t)'
      <3>1. TerminalSound(t) /\ opening[t] # "none" /\ opening[t] # "done"
        BY <1>5 DEF AttachmentInv
      <3> QED BY <1>0, <1>4, <2>1, <2>2, <3>1, TerminalFails
    <2>5. EndTypes'
      <3>1. opening' \in [Terminals -> Place]
        BY <1>0, <1>5 DEF EndTypes, Go, Place
      <3> QED BY <1>0, <1>5, <3>1 DEF EndTypes, Running
    <2>6. ClientTypes'
      BY <1>0, <1>5 DEF ClientTypes, CallOK
    <2>7. ASSUME NEW x \in Entries(chain), x.of = t PROVE WriteSound(x)'
      <3>1. WriteSound(x) /\ opening[t] \notin Begun /\ opening[t] \notin {"prepending", "storing", "reporting", "detaching"}
        BY <1>5, EntryOf DEF Begun
      <3>2. x.by # "open"
        BY <2>7, <3>1 DEF WriteSound
      <3>3. opening'[x.of] # "none"
        BY <2>1, <2>7
      <3> QED BY <1>2, <2>2, <2>7, <3>1, <3>2, <3>3, WriteKept
    <2>8. \A x \in Entries(chain') : (x \in Entries(chain) /\ x.of # t) \/ WriteSound(x)'
      BY <1>0, <2>7
    <2>9. /\ InTurn(chain') /\ host' # "down" /\ Running' /\ (intruded' => failures' > 0)
          /\ \A c \in Clients : call'[c] \in {call[c], NoCall}
          /\ opening'[t] \in Begun /\ (pty'[t] = "alive" => pty[t] = "alive")
      BY <1>0, <1>1, <1>5, <2>1 DEF AttachmentInv, Running, Begun
    <2> QED BY <1>2, <1>3, <2>3, <2>4, <2>5, <2>6, <2>8, <2>9, OneStep
  <1>6. ASSUME NEW t \in Terminals, NEW way \in Ways, endings[<<t, way>>].place = "closing", EndReleased(<<t, way>>),
               UNCHANGED <<opening, call>>
        PROVE  AttachmentInv'
    <2>1. PICK e \in EndRecord : e = NoEnd /\ e.place = "idle" /\ e.exited = FALSE
      BY NoEndOf
    <2>2. /\ endings' = [endings EXCEPT ![<<t, way>>] = e]
          /\ finishing' = IF way = "guarded" /\ e.place = "idle" THEN finishing \ {t} ELSE finishing
          /\ endings[<<t, way>>].place \in {"leases", "closing"}
          /\ e.exited => endings[<<t, way>>].exited
      BY <1>6, <2>1 DEF EndReleased
    <2> QED BY <1>0, <1>1, <1>4, <1>6, <2>1, <2>2, EndGoesOn
  <1>7. ASSUME NEW c \in Clients, Return(c), UNCHANGED <<opening, endings, finishing>>
        PROVE  AttachmentInv'
    <2>1. intruded' \in BOOLEAN /\ (intruded' => failures' > 0)
      BY <1>0, <1>1 DEF HostTypes
    <2> QED BY <1>0, <1>1, <1>4, <1>7, <2>1, CallReturns
  <1> QED BY <1>5, <1>6, <1>7 DEF StepFails

LEMMA FailsStep ==
    ASSUME AttachmentAssumption, AttachmentInv, Fails
    PROVE  AttachmentInv'
  <1>1. /\ Running /\ failures' = failures + 1 /\ (PersistFails \/ StepFails)
        /\ UNCHANGED <<host, authority, contained, stored, kept, pty, active, leases, missed, intruded>>
    BY DEF Fails
  <1> QED BY <1>1, PersistFailsStep, StepFailsStep

LEMMA DownStep ==
    ASSUME AttachmentAssumption, AttachmentInv, Down, leases' \in Seq(Lease)
    PROVE  AttachmentInv'
  <1>0. HostTypes /\ FileTypes /\ EndTypes /\ ClientTypes
    BY DEF AttachmentInv
  <1>1. /\ host' = "down" /\ chain' = <<>> /\ active' = {} /\ finishing' = {}
        /\ opening' = [t \in Terminals |-> IF opening[t] = "none" THEN "none" ELSE "done"]
        /\ endings' = [x \in Terminals \X Ways |-> NoEnd]
        /\ call' = [c \in Clients |-> NoCall]
        /\ pty' = [t \in Terminals |-> IF pty[t] \in {"alive", "killed"} THEN "lost" ELSE pty[t]]
        /\ UNCHANGED <<authority, contained, stored, kept, failures, missed, intruded>>
    BY DEF Down
  <1>2. slips \subseteq slips' /\ slips' \subseteq {"sessions", "torn"}
    BY <1>0 DEF Down, HostTypes
  <1>3. HostTypes'
    BY <1>0, <1>1, <1>2 DEF HostTypes
  <1>4. FileTypes'
    <2>1. <<>> \in Seq(QueuedWrite)
      OBVIOUS
    <2> QED BY <1>0, <1>1, <2>1 DEF FileTypes
  <1>5. \A t \in Terminals : Guarded(t)' = NoEnd /\ Detached(t)' = NoEnd
    BY <1>1 DEF Guarded, Detached, Ways
  <1>6. EndTypes'
    <2>1. opening' \in [Terminals -> Place]
      BY <1>1 DEF Place
    <2>2. pty' \in [Terminals -> {"none", "alive", "killed", "dead", "lost"}]
      BY <1>0, <1>1 DEF EndTypes
    <2>3. endings' \in [Terminals \X Ways -> EndRecord]
      BY <1>1, NoEndOf
    <2>4. \A t \in Terminals : t \in finishing' <=> Guarded(t)'.place # "idle"
      BY <1>1, <1>5, NoEndOf
    <2> QED BY <1>1, <2>1, <2>2, <2>3, <2>4 DEF EndTypes, Guarded
  <1>7. ClientTypes'
    <2>1. \A c \in Clients : CallOK(call'[c])
      BY <1>1, NoCallOf
    <2>2. ASSUME NEW c \in Clients PROVE CallOK(call[c])'
      BY <2>1 DEF CallOK
    <2> QED BY <1>1, <2>2 DEF ClientTypes
  <1>8. ASSUME NEW t \in Terminals PROVE TerminalSound(t)'
    <2>1. /\ opening'[t] = IF opening[t] = "none" THEN "none" ELSE "done"
          /\ pty'[t] = IF pty[t] \in {"alive", "killed"} THEN "lost" ELSE pty[t]
      BY <1>1
    <2>2. Guarded(t)' = NoEnd /\ Detached(t)' = NoEnd /\ NoEnd.place = "idle" /\ NoEnd.exited = FALSE
      BY <1>5, NoEndOf
    <2>3. TerminalSound(t)
      BY DEF AttachmentInv
    <2>4. ProcessSound(t)'
      BY <1>1, <2>1, <2>2, <2>3 DEF TerminalSound, ProcessSound, Begun
    <2>5. BeforeSound(t)'
      BY <2>1, <2>2 DEF BeforeSound, Beginning
    <2>6. AfterSound(t)'
      BY <1>1, <2>1, <2>3 DEF TerminalSound, AfterSound, Beginning
    <2>7. StoppedSound(t)'
      <3>1. opening[t] = "none" => stored[t] = [status |-> "none", cursor |-> 0]
        BY <2>3 DEF TerminalSound, StoppedSound
      <3> QED BY <1>1, <2>1, <2>2, <3>1 DEF StoppedSound
    <2> QED BY <2>4, <2>5, <2>6, <2>7 DEF TerminalSound
  <1>9. Len(chain') = 0
    BY <1>1
  <1>10. InTurn(chain)' /\ \A w \in Entries(chain)' : WriteSound(w)'
    BY <1>9 DEF InTurn, Entries
  <1>11. \A c \in Clients : call'[c] = NoCall
    BY <1>1
  <1>12. \A c \in Clients : UseSound(call[c])'
    BY <1>11, NoCallOf DEF UseSound, UsePlace
  <1>13. intruded' => failures' > 0
    BY <1>1 DEF AttachmentInv
  <1> QED BY <1>1, <1>3, <1>4, <1>6, <1>7, <1>8, <1>10, <1>11, <1>12, <1>13 DEF AttachmentInv

LEMMA StopStep ==
    ASSUME AttachmentAssumption, AttachmentInv, Quit \/ StopHost
    PROVE  AttachmentInv'
  <1>1. Down
    BY DEF Quit, StopHost
  <1>2. leases \in Seq(Lease)
    BY DEF AttachmentInv, ClientTypes
  <1>3. leases' \in Seq(Lease)
    <2>1. Closed(DOMAIN leases) \in Seq(Lease)
      BY <1>2, ClosedOf
    <2> QED BY <1>2, <2>1 DEF Quit, StopHost
  <1> QED BY <1>1, <1>3, DownStep

LEMMA RestartStep ==
    ASSUME AttachmentAssumption, AttachmentInv, Restart
    PROVE  AttachmentInv'
  <1>0. HostTypes /\ FileTypes /\ EndTypes /\ ClientTypes
    BY DEF AttachmentInv
  <1>1. /\ host = "down" /\ host' = "recovering"
        /\ stored' = [t \in Terminals |-> IF t \in Interrupted THEN [stored[t] EXCEPT !.status = "failed"]
                                          ELSE stored[t]]
        /\ UNCHANGED <<authority, contained, kept, opening, endings, pty, active, finishing, leases, call, failures, slips,
                       missed, intruded>>
    BY DEF Restart, recovery, endVars, bounds
  <1>2. PICK m \in Nat : m = Cardinality(Interrupted)
    <2>1. IsFiniteSet(Interrupted)
      BY FS_Subset DEF AttachmentAssumption, Interrupted
    <2> QED BY <2>1, FS_CardinalityType
  <1>3. PICK order \in [1 .. m -> Interrupted] : chain' = [i \in DOMAIN order |-> Event(order[i], "host")]
    <2>1. PICK order \in Bijection(1 .. m, Interrupted) : chain' = [i \in DOMAIN order |-> Event(order[i], "host")]
      BY <1>2 DEF Restart
    <2> QED BY <2>1 DEF Bijection, Injection
  <1>4. /\ DOMAIN chain' = 1 .. m
        /\ \A i \in 1 .. m : /\ order[i] \in Terminals /\ stored[order[i]].status \in LiveStatus
                             /\ chain'[i] = Event(order[i], "host")
    BY <1>3 DEF Interrupted
  <1>5. "host" \in By
    BY DEF By
  <1>6. \A i \in 1 .. m : /\ chain'[i] \in QueuedWrite /\ chain'[i].do = "event" /\ chain'[i].by = "host"
                          /\ chain'[i].of = order[i]
    BY <1>0, <1>4, <1>5, EventOf
  <1>7. chain' \in Seq(QueuedWrite) /\ Len(chain') = m
    <2>1. chain' = [i \in 1 .. m |-> chain'[i]]
      BY <1>3, <1>4
    <2>2. chain' \in [1 .. m -> QueuedWrite]
      BY <1>6, <2>1
    <2> QED BY <2>2
  <1>8. HostTypes' /\ ClientTypes'
    BY <1>0, <1>1 DEF HostTypes, ClientTypes, CallOK
  <1>9. FileTypes'
    <2>1. \A t \in Terminals : stored[t] \in Stored /\ [stored[t] EXCEPT !.status = "failed"] \in Stored
      BY <1>0 DEF FileTypes, Stored, EndedAs
    <2>2. stored' \in [Terminals -> Stored]
      BY <1>1, <2>1
    <2> QED BY <1>0, <1>1, <1>7, <2>2 DEF FileTypes
  <1>10. EndTypes'
    BY <1>0, <1>1 DEF EndTypes, Running
  <1>11. ASSUME NEW t \in Terminals PROVE TerminalSound(t)'
    <2>1. TerminalSound(t) /\ ~ Running
      BY <1>1 DEF AttachmentInv, Running
    <2>2. /\ t \notin active /\ Guarded(t).place = "idle" /\ Detached(t).place = "idle"
          /\ opening[t] \in {"none", "done"} /\ pty[t] \notin {"alive", "killed"}
          /\ opening[t] = "none" => stored[t] = [status |-> "none", cursor |-> 0]
      BY <2>1 DEF TerminalSound, StoppedSound
    <2>3. Guarded(t)' = Guarded(t) /\ Detached(t)' = Detached(t)
      BY <1>1 DEF Guarded, Detached
    <2>4. stored'[t].status \notin LiveStatus /\ (stored[t].status = "none" => stored'[t] = stored[t])
      <3>1. CASE t \in Interrupted
        <4>1. stored'[t] = [stored[t] EXCEPT !.status = "failed"] /\ stored[t] \in Stored
          BY <1>0, <1>1, <3>1, RecordOf
        <4> QED BY <3>1, <4>1 DEF Stored, LiveStatus, Interrupted
      <3>2. CASE t \notin Interrupted
        BY <1>1, <3>2 DEF Interrupted
      <3> QED BY <3>1, <3>2
    <2>5. ProcessSound(t)'
      BY <1>1, <2>1, <2>3 DEF TerminalSound, ProcessSound
    <2>6. BeforeSound(t)'
      BY <1>1, <2>2, <2>3 DEF BeforeSound, Beginning
    <2>7. AfterSound(t)'
      BY <1>1, <2>1, <2>2, <2>4 DEF TerminalSound, AfterSound, Beginning
    <2>8. StoppedSound(t)'
      <3>1. opening[t] = "none" => stored'[t] = [status |-> "none", cursor |-> 0]
        BY <2>2, <2>4
      <3> QED BY <1>1, <2>2, <2>3, <2>4, <3>1 DEF StoppedSound
    <2> QED BY <2>5, <2>6, <2>7, <2>8 DEF TerminalSound
  <1>12. ASSUME NEW i \in 1 .. m, NEW w, w = chain'[i] PROVE WriteSound(w)'
    <2>1. w.do = "event" /\ w.by = "host" /\ w.of = order[i]
      BY <1>6, <1>12
    <2>2. w.by \notin Clients /\ w.by \notin {"open", "guarded", "detached"}
      BY <2>1 DEF AttachmentAssumption
    <2>3. opening'[w.of] # "none"
      <3>1. PICK t \in Terminals : t = w.of /\ stored[t].status \in LiveStatus
        BY <1>4, <2>1
      <3>2. opening[t] # "none"
        BY <3>1 DEF AttachmentInv, TerminalSound, StoppedSound, LiveStatus
      <3> QED BY <1>1, <3>1, <3>2
    <2> QED BY <2>1, <2>2, <2>3 DEF WriteSound
  <1>13. \A w \in Entries(chain)' : WriteSound(w)'
    BY <1>7, <1>12 DEF Entries
  <1>14. InTurn(chain)'
    <2>1. "host" \notin Once
      BY DEF Once, Ways
    <2>2. \A i, j \in 1 .. Len(chain') : i < j =>
             /\ chain'[j].do # "count"
             /\ chain'[i].by \in Once => ~ (chain'[i].of = chain'[j].of /\ chain'[i].by = chain'[j].by)
      BY <1>6, <1>7, <2>1
    <2> QED BY <2>2 DEF InTurn
  <1>15. \A c \in Clients : call'[c] = NoCall
    BY <1>1 DEF AttachmentInv, Running
  <1>16. \A c \in Clients : UseSound(call[c])'
    BY <1>15, NoCallOf DEF UseSound, UsePlace
  <1>17. intruded' => failures' > 0
    BY <1>1 DEF AttachmentInv
  <1>18. host' # "down"
    BY <1>1
  <1> QED BY <1>8, <1>9, <1>10, <1>11, <1>13, <1>14, <1>15, <1>16, <1>17, <1>18 DEF AttachmentInv

LEMMA RecoverStep ==
    ASSUME AttachmentAssumption, AttachmentInv, Recover
    PROVE  AttachmentInv'
  <1>0. HostTypes /\ FileTypes /\ EndTypes /\ ClientTypes
    BY DEF AttachmentInv
  <1>1. /\ host = "recovering" /\ host' = "up" /\ chain = <<>> /\ chain' = <<>> /\ leases' = Closed(DOMAIN leases)
        /\ UNCHANGED <<authority, contained, stored, kept, opening, endings, pty, active, finishing, call, failures, slips,
                       missed, intruded>>
    BY DEF Recover, recovery, endVars, bounds
  <1>2. leases' \in Seq(Lease)
    BY <1>0, <1>1, ClosedOf DEF ClientTypes
  <1>3. HostTypes' /\ FileTypes' /\ ClientTypes'
    BY <1>0, <1>1, <1>2 DEF HostTypes, FileTypes, ClientTypes, CallOK
  <1>4. EndTypes'
    BY <1>0, <1>1 DEF EndTypes, Running
  <1>5. ASSUME NEW t \in Terminals PROVE TerminalSound(t)'
    <2>1. TerminalSound(t) /\ ~ Running
      BY <1>1 DEF AttachmentInv, Running
    <2>2. Guarded(t)' = Guarded(t) /\ Detached(t)' = Detached(t)
      BY <1>1 DEF Guarded, Detached
    <2>3. stored[t].status \notin LiveStatus
      BY <1>1, <2>1 DEF TerminalSound, StoppedSound
    <2>4. ProcessSound(t)'
      BY <1>1, <2>1, <2>2 DEF TerminalSound, ProcessSound
    <2>5. BeforeSound(t)'
      BY <1>1, <2>1, <2>2 DEF TerminalSound, BeforeSound
    <2>6. AfterSound(t)'
      BY <1>1, <2>1, <2>3 DEF TerminalSound, AfterSound
    <2>7. StoppedSound(t)'
      <3>1. opening[t] = "none" => stored[t] = [status |-> "none", cursor |-> 0] /\ Guarded(t).place = "idle"
        BY <2>1 DEF TerminalSound, StoppedSound
      <3>2. Running' /\ host' # "recovering"
        BY <1>1 DEF Running
      <3> QED BY <1>1, <2>2, <3>1, <3>2 DEF StoppedSound
    <2> QED BY <2>4, <2>5, <2>6, <2>7 DEF TerminalSound
  <1>6. Len(chain') = 0
    BY <1>1
  <1>7. InTurn(chain)' /\ \A w \in Entries(chain)' : WriteSound(w)'
    BY <1>6 DEF InTurn, Entries
  <1>8. \A c \in Clients : call'[c] = NoCall
    BY <1>1 DEF AttachmentInv, Running
  <1>9. \A c \in Clients : UseSound(call[c])'
    BY <1>8, NoCallOf DEF UseSound, UsePlace
  <1>10. intruded' => failures' > 0
    BY <1>1 DEF AttachmentInv
  <1> QED BY <1>1, <1>3, <1>4, <1>5, <1>7, <1>8, <1>9, <1>10 DEF AttachmentInv

LEMMA AttachmentBegins ==
    ASSUME AttachmentAssumption, AttachmentInit
    PROVE  AttachmentInv
  <1>0. /\ <<>> \in Seq(QueuedWrite) /\ <<>> \in Seq(Lease) /\ <<>> \in Seq([of : Terminals, cursor : Nat])
        /\ Len(<<>>) = 0
    OBVIOUS
  <1>1. HostTypes
    BY DEF AttachmentInit, HostTypes
  <1>2. FileTypes
    <2>1. stored \in [Terminals -> Stored]
      BY DEF AttachmentInit, Stored
    <2> QED BY <1>0, <2>1 DEF AttachmentInit, FileTypes
  <1>3. \A t \in Terminals : Guarded(t) = NoEnd /\ Detached(t) = NoEnd
    BY DEF AttachmentInit, Guarded, Detached, Ways
  <1>4. EndTypes
    <2>1. endings \in [Terminals \X Ways -> EndRecord]
      BY NoEndOf DEF AttachmentInit
    <2>2. \A t \in Terminals : t \in finishing <=> Guarded(t).place # "idle"
      BY <1>3, NoEndOf DEF AttachmentInit
    <2>3. opening \in [Terminals -> Place] /\ pty \in [Terminals -> {"none", "alive", "killed", "dead", "lost"}]
      BY DEF AttachmentInit, Place
    <2> QED BY <2>1, <2>2, <2>3 DEF AttachmentInit, EndTypes, Guarded
  <1>5. ClientTypes
    BY <1>0, NoCallOf DEF AttachmentInit, ClientTypes
  <1>6. ASSUME NEW t \in Terminals PROVE TerminalSound(t)
    <2>1. opening[t] = "none" /\ pty[t] = "none" /\ t \notin active /\ stored[t] = [status |-> "none", cursor |-> 0]
      BY DEF AttachmentInit
    <2>2. Guarded(t).place = "idle" /\ Detached(t).place = "idle" /\ Guarded(t).exited = FALSE
      BY <1>3, NoEndOf
    <2>3. host = "up" /\ contained = FALSE
      BY DEF AttachmentInit
    <2>4. ProcessSound(t)
      BY <2>1, <2>2 DEF ProcessSound
    <2>5. BeforeSound(t) /\ AfterSound(t)
      BY <2>1, <2>2, <2>3 DEF BeforeSound, AfterSound, Beginning
    <2>6. StoppedSound(t)
      BY <2>1, <2>2, <2>3 DEF StoppedSound, Running
    <2> QED BY <2>4, <2>5, <2>6 DEF TerminalSound
  <1>7. InTurn(chain) /\ \A w \in Entries(chain) : WriteSound(w)
    BY <1>0 DEF AttachmentInit, InTurn, Entries
  <1>8. \A c \in Clients : call[c] = NoCall /\ UseSound(call[c])
    BY NoCallOf DEF AttachmentInit, UseSound, UsePlace
  <1> QED BY <1>1, <1>2, <1>4, <1>5, <1>6, <1>7, <1>8 DEF AttachmentInv, AttachmentInit

\* The calls are counted.
LEMMA CallsCounted ==
    ASSUME [AttachmentNext]_attachmentVars
    PROVE  calls' = calls \/ \E c \in Clients : calls' = [calls EXCEPT ![c] = @ + 1]
  <1>1. ASSUME NEW t \in Terminals, StartTerminal(t) \/ StartSteps(t) \/ EndSteps(t) \/ Exit(t) \/ Output(t)
        PROVE  calls' = calls
    BY <1>1 DEF StartTerminal, StartSteps, RecordStart, Spawn, SpawnFails, Take, EndSteps, ReadSession, StoreOutcome,
                CloseLeases, Exit, Output, unopened, unended, clients
  <1>2. ASSUME NEW c \in Clients, CallSteps(c)
        PROVE  calls' = calls
    BY <1>2 DEF CallSteps, Expire, Check, Attach, Detach, WriteAndReturn, AssertAuthority, Write, Cancel, Resize, uncalled
  <1>3. ASSUME NEW c \in Clients, Call(c)
        PROVE  calls' = [calls EXCEPT ![c] = @ + 1]
    BY <1>3 DEF Call
  <1>4. ASSUME NEW l \in DOMAIN leases, TimePasses(l)
        PROVE  calls' = calls
    BY <1>4 DEF TimePasses
  <1>5. Persist \/ Withdraw \/ Contain \/ Fails => calls' = calls
    BY DEF Persist, Withdraw, Contain, Fails, clients
  <1>6. Shutdown \/ Quit \/ StopHost \/ Restart \/ Recover => calls' = calls
    BY DEF Shutdown, Quit, StopHost, Down, Restart, Recover, recovery, clients
  <1>7. UNCHANGED attachmentVars => calls' = calls
    BY DEF attachmentVars, clients
  <1> QED BY <1>1, <1>2, <1>3, <1>4, <1>5, <1>6, <1>7 DEF AttachmentNext

LEMMA AttachmentStep ==
    ASSUME AttachmentAssumption, AttachmentInv, calls \in [Clients -> Nat], [AttachmentNext]_attachmentVars
    PROVE  AttachmentInv' /\ calls' \in [Clients -> Nat]
  <1>1. ASSUME NEW t \in Terminals, StartTerminal(t) \/ StartSteps(t) \/ EndSteps(t) \/ Exit(t) \/ Output(t)
        PROVE  AttachmentInv'
    BY <1>1, StartTerminalStep, RecordStartStep, SpawnStep, SpawnFailsStep, TakeStep, ReadSessionStep,
       StoreOutcomeStep, CloseLeasesStep, ExitStep, OutputStep DEF StartSteps, EndSteps
  <1>2. ASSUME NEW c \in Clients, Call(c) \/ CallSteps(c)
        PROVE  AttachmentInv'
    BY <1>2, CallStep, ExpireStep, CheckStep, AttachStep, DetachStep, WriteAndReturnStep, AssertAuthorityStep,
       WriteStep, CancelStep, ResizeStep DEF CallSteps
  <1>3. ASSUME NEW l \in DOMAIN leases, TimePasses(l)
        PROVE  AttachmentInv'
    BY <1>3, ElsewhereStep DEF TimePasses, files, endVars, bounds, AttachmentInv, HostTypes
  <1>4. ASSUME Withdraw
        PROVE  AttachmentInv'
    BY <1>4, ElsewhereStep DEF Withdraw, files, endVars, clients, bounds
  <1>5. ASSUME UNCHANGED attachmentVars
        PROVE  AttachmentInv'
    BY <1>5, ElsewhereStep DEF attachmentVars, files, endVars, clients, bounds, AttachmentInv, HostTypes
  <1>6. calls' = calls \/ \E c \in Clients : calls' = [calls EXCEPT ![c] = @ + 1]
    BY CallsCounted
  <1> QED BY <1>1, <1>2, <1>3, <1>4, <1>5, <1>6, PersistStep, ContainStep, FailsStep, ShutdownStep, StopStep, RestartStep,
             RecoverStep DEF AttachmentNext

\* Whatever the calls, outputs, failures, containments, shutdowns and crashes, and for any
\* terminals, clients and bounds: the terminals, their starts and ends, the queued writes and
\* the calls stay as AttachmentInv relates them.
THEOREM AttachmentsHold == AttachmentSpec => []AttachmentInv
  <1>1. AttachmentInit => AttachmentInv /\ calls \in [Clients -> Nat]
    <2>1. AttachmentInit => calls \in [Clients -> Nat]
      BY DEF AttachmentInit
    <2> QED BY <2>1, AttachmentAssumption, AttachmentBegins
  <1>2. AttachmentInv /\ calls \in [Clients -> Nat] /\ [AttachmentNext]_attachmentVars =>
            (AttachmentInv /\ calls \in [Clients -> Nat])'
    BY AttachmentAssumption, AttachmentStep
  <1> QED BY <1>1, <1>2, PTL DEF AttachmentSpec

\* No process of a terminal runs out of control but after a failed write, no input reaches one
\* after the containment, and what the revocation found is ended when nothing is in progress,
\* although each check of a call is older than its next step and a start may outlast the
\* revocation.
THEOREM TerminalsHold == AttachmentSpec => []TerminalsInv
  <1>1. AttachmentInv => TerminalsInv
    BY InvTerminals
  <1> QED BY <1>1, AttachmentsHold, PTL

-----------------------------------------------------------------------------
(* The leases.                                                              *)

Holding(list, l) == list[l].open /\ list[l].owns /\ <<list[l].client, list[l].id>> \notin past
OneOwner(list) ==
    \A l, m \in DOMAIN list : Holding(list, l) /\ Holding(list, m) => list[l].client = list[m].client

\* One client at most owns what the leases say, and what those say that a call or an end is
\* about to write over them.
OwnersInv ==
    /\ OneOwner(leases)
    /\ \A c \in Clients : OneOwner(call[c].to)
    /\ \A x \in Terminals \X Ways : OneOwner(endings[x].to)

\* Refused asks for the leases that own a terminal and are in force.
LEMMA OwningHolds ==
    ASSUME leases \in Seq(Lease)
    PROVE  Owning = {l \in DOMAIN leases : Holding(leases, l)}
  BY DEF Owning, Overdue, Holding

\* Time takes owners away, it makes none.
LEMMA OneOwnerLater ==
    ASSUME past \subseteq past', NEW list, OneOwner(list)
    PROVE  OneOwner(list)'
  BY DEF OneOwner, Holding

LEMMA NoOwner == OneOwner(<<>>)
  BY DEF OneOwner

\* Closing leases makes no owner either.
LEMMA OwnersClosed ==
    ASSUME leases \in Seq(Lease), OneOwner(leases), NEW S
    PROVE  OneOwner(Closed(S))
  <1>1. PICK c : c = Closed(S)
    OBVIOUS
  <1>2. DOMAIN c = DOMAIN leases /\ \A l \in DOMAIN c : c[l] = [leases[l] EXCEPT !.open = @ /\ l \notin S]
    BY <1>1 DEF Closed
  <1>3. \A l \in DOMAIN leases : leases[l] \in Lease
    OBVIOUS
  <1>4. \A l \in DOMAIN c : /\ c[l].open = (leases[l].open /\ l \notin S) /\ c[l].owns = leases[l].owns
                            /\ c[l].id = leases[l].id /\ c[l].client = leases[l].client
    BY <1>2, <1>3 DEF Lease
  <1>5. \A l \in DOMAIN c : Holding(c, l) => Holding(leases, l)
    BY <1>2, <1>4 DEF Holding
  <1>6. OneOwner(c)
    BY <1>2, <1>4, <1>5 DEF OneOwner
  <1> QED BY <1>1, <1>6

\* Some numbers have a least one.
LEMMA Earliest ==
    ASSUME NEW S, S \subseteq Nat, S # {}
    PROVE  Min(S) \in S /\ \A y \in S : Min(S) <= y
  <1> DEFINE Less == {ss \in Nat \X Nat : ss[1] < ss[2]}
  <1>1. IsWellFoundedOn(Less, Nat)
    BY NatLessThanWellFounded DEF OpToRel
  <1>2. PICK x \in S : \A y \in S : ~ (<<y, x>> \in Less)
    <2> HIDE DEF Less
    <2> QED BY <1>1, WFMin
  <1>3. ASSUME NEW y \in S PROVE x <= y
    <2>1. x \in Nat /\ y \in Nat /\ ~ (<<y, x>> \in Less)
      BY <1>2
    <2> QED BY <2>1
  <1> HIDE DEF Less
  <1> QED BY <1>3 DEF Min

\* The newest of the leases that own a terminal.
LEMMA NewestOwning ==
    ASSUME leases \in Seq(Lease), Owning # {}
    PROVE  Max(Owning) \in Owning
  <1>1. PICK S : S = Owning /\ S # {}
    OBVIOUS
  <1>2. PICK n \in Nat : n = Len(leases) /\ S \subseteq 1 .. n
    BY <1>1 DEF Owning
  <1> DEFINE Above == {a \in Nat : \A y \in S : y <= a}
  <1>3. n \in Above
    BY <1>2
  <1>5. PICK x \in Above : \A a \in Above : x <= a
    <2>1. Above \subseteq Nat /\ Above # {}
      BY <1>3
    <2> HIDE DEF Above
    <2> QED BY <2>1, Earliest
  <1>6. x \in S
    <2> SUFFICES ASSUME x \notin S PROVE FALSE
      OBVIOUS
    <2>1. \A y \in S : y \in Nat /\ y >= 1 /\ y <= x /\ y # x
      BY <1>2
    <2>2. x \in Nat /\ x >= 1
      BY <1>1, <2>1
    <2>3. x - 1 \in Above
      BY <2>1, <2>2
    <2> QED BY <1>5, <2>2, <2>3
  <1>7. \A y \in S : x >= y
    BY <1>2
  <1> HIDE DEF Above
  <1>8. Max(S) \in S
    BY <1>6, <1>7 DEF Max
  <1> QED BY <1>1, <1>8

\* attach adds an owner only if the newest of the others is the same client.
LEMMA OwnersAttached ==
    ASSUME leases \in Seq(Lease), OneOwner(leases), NEW c \in Clients, call[c] \in CallRecord, ~ Refused(c),
           NEW new \in Lease, new.client = c, new.owns = call[c].owns
    PROVE  OneOwner(Append(leases, new))
  <1>1. PICK n \in Nat : n = Len(leases) /\ DOMAIN leases = 1 .. n
    OBVIOUS
  <1>2. PICK a : a = Append(leases, new)
    OBVIOUS
  <1>3. /\ DOMAIN a = 1 .. n + 1 /\ a[n + 1] = new
        /\ \A l \in 1 .. n : a[l] = leases[l]
    BY <1>1, <1>2
  <1>4. ASSUME NEW l \in 1 .. n, Holding(leases, l), new.owns
        PROVE  leases[l].client = c
    <2>1. l \in Owning
      BY <1>1, <1>4, OwningHolds
    <2>2. PICK k \in Owning : leases[k].client = c
      <3>1. Max(Owning) \in Owning
        BY <2>1, NewestOwning
      <3>2. leases[Max(Owning)].client = c
        BY <1>4, <2>1 DEF Refused
      <3> QED BY <3>1, <3>2
    <2>3. k \in DOMAIN leases /\ Holding(leases, k)
      BY <2>2, OwningHolds
    <2> QED BY <1>1, <1>4, <2>2, <2>3 DEF OneOwner
  <1>5. \A l \in 1 .. n : Holding(a, l) = Holding(leases, l)
    BY <1>3 DEF Holding
  <1>6. Holding(a, n + 1) => new.owns
    BY <1>3 DEF Holding
  <1>7. ASSUME NEW l \in 1 .. n + 1, NEW m \in 1 .. n + 1, Holding(a, l), Holding(a, m)
        PROVE  a[l].client = a[m].client
    <2>1. (l \in 1 .. n \/ l = n + 1) /\ (m \in 1 .. n \/ m = n + 1)
      OBVIOUS
    <2>2. CASE l = n + 1 /\ m = n + 1
      BY <2>2
    <2>3. CASE l = n + 1 /\ m \in 1 .. n
      BY <1>3, <1>4, <1>5, <1>6, <1>7, <2>3
    <2>4. CASE l \in 1 .. n /\ m = n + 1
      BY <1>3, <1>4, <1>5, <1>6, <1>7, <2>4
    <2>5. CASE l \in 1 .. n /\ m \in 1 .. n
      BY <1>1, <1>3, <1>5, <1>7, <2>5 DEF OneOwner
    <2> QED BY <2>1, <2>2, <2>3, <2>4, <2>5
  <1> QED BY <1>2, <1>3, <1>7 DEF OneOwner

\* What a step leaves of the writes to come: those of the calls and of the ends.
LEMMA OwnersKept ==
    ASSUME OwnersInv, past \subseteq past', OneOwner(leases'),
           \A c \in Clients : OneOwner(call'[c].to),
           \A x \in Terminals \X Ways : OneOwner(endings'[x].to)
    PROVE  OwnersInv'
  <1>1. OneOwner(leases)'
    <2>1. PICK list : list = leases'
      OBVIOUS
    <2>2. OneOwner(list)
      BY <2>1
    <2>3. OneOwner(list)'
      BY <2>2, OneOwnerLater
    <2> QED BY <2>1, <2>3 DEF OneOwner, Holding
  <1>2. ASSUME NEW c \in Clients PROVE OneOwner(call[c].to)'
    <2>1. PICK list : list = call'[c].to
      OBVIOUS
    <2>2. OneOwner(list)
      BY <2>1
    <2>3. OneOwner(list)'
      BY <2>2, OneOwnerLater
    <2> QED BY <2>1, <2>3 DEF OneOwner, Holding
  <1>3. ASSUME NEW x \in Terminals \X Ways PROVE OneOwner(endings[x].to)'
    <2>1. PICK list : list = endings'[x].to
      OBVIOUS
    <2>2. OneOwner(list)
      BY <2>1
    <2>3. OneOwner(list)'
      BY <2>2, OneOwnerLater
    <2> QED BY <2>1, <2>3 DEF OneOwner, Holding
  <1> QED BY <1>1, <1>2, <1>3 DEF OwnersInv

CallsTo == \A c \in Clients : call'[c].to \in {call[c].to, <<>>}
EndsTo == \A x \in Terminals \X Ways : endings'[x].to \in {endings[x].to, <<>>}

LEMMA CallsToKept ==
    ASSUME OwnersInv, CallsTo
    PROVE  \A c \in Clients : OneOwner(call'[c].to)
  <1> SUFFICES ASSUME NEW c \in Clients PROVE OneOwner(call'[c].to)
    OBVIOUS
  <1>1. PICK list : list = call[c].to /\ OneOwner(list)
    BY DEF OwnersInv
  <1>2. call'[c].to = list \/ call'[c].to = <<>>
    BY <1>1 DEF CallsTo
  <1> QED BY <1>1, <1>2, NoOwner

LEMMA EndsToKept ==
    ASSUME OwnersInv, EndsTo
    PROVE  \A x \in Terminals \X Ways : OneOwner(endings'[x].to)
  <1> SUFFICES ASSUME NEW x \in Terminals \X Ways PROVE OneOwner(endings'[x].to)
    OBVIOUS
  <1>1. PICK list : list = endings[x].to /\ OneOwner(list)
    BY DEF OwnersInv
  <1>2. endings'[x].to = list \/ endings'[x].to = <<>>
    BY <1>1 DEF EndsTo
  <1> QED BY <1>1, <1>2, NoOwner

\* A step that computes no leases: it leaves them, closes them or writes some that were computed.
LEMMA NothingComputed ==
    ASSUME AttachmentInv, OwnersInv, past \subseteq past', CallsTo, EndsTo,
           \/ leases' = leases
           \/ \E S : leases' = Closed(S)
           \/ \E c \in Clients : leases' = call[c].to
           \/ \E x \in Terminals \X Ways : leases' = endings[x].to
    PROVE  OwnersInv'
  <1>1. leases \in Seq(Lease) /\ OneOwner(leases)
    BY DEF AttachmentInv, ClientTypes, OwnersInv
  <1>2. PICK list : list = leases'
    OBVIOUS
  <1>3. OneOwner(list)
    <2>1. CASE leases' = leases
      BY <1>1, <1>2, <2>1
    <2>2. ASSUME NEW S, leases' = Closed(S)
          PROVE  OneOwner(list)
      BY <1>1, <1>2, <2>2, OwnersClosed
    <2>3. ASSUME NEW c \in Clients, leases' = call[c].to
          PROVE  OneOwner(list)
      BY <1>2, <2>3 DEF OwnersInv
    <2>4. ASSUME NEW x \in Terminals \X Ways, leases' = endings[x].to
          PROVE  OneOwner(list)
      BY <1>2, <2>4 DEF OwnersInv
    <2> QED BY <2>1, <2>2, <2>3, <2>4
  <1>4. OneOwner(leases')
    BY <1>2, <1>3
  <1> QED BY <1>4, CallsToKept, EndsToKept, OwnersKept

\* How a call and an end change.
LEMMA CallTo ==
    ASSUME AttachmentInv, NEW c \in Clients,
           \/ \E place : call' = [call EXCEPT ![c].place = place]
           \/ \E k : call' = [call EXCEPT ![c] = k] /\ k.to = <<>>
    PROVE  CallsTo
  <1>1. DOMAIN call = Clients /\ \A d \in Clients : call[d] \in CallRecord
    BY DEF AttachmentInv, ClientTypes, CallOK
  <1>2. ASSUME NEW place, call' = [call EXCEPT ![c].place = place], NEW d \in Clients
        PROVE  call'[d].to = call[d].to
    BY <1>1, <1>2 DEF CallRecord
  <1>3. ASSUME NEW k, call' = [call EXCEPT ![c] = k], k.to = <<>>, NEW d \in Clients
        PROVE  call'[d].to \in {call[d].to, <<>>}
    BY <1>1, <1>3
  <1> QED BY <1>2, <1>3 DEF CallsTo

LEMMA EndTo ==
    ASSUME AttachmentInv, NEW x \in Terminals \X Ways,
           \/ \E place : endings' = [endings EXCEPT ![x].place = place]
           \/ \E e : endings' = [endings EXCEPT ![x] = e] /\ e.to = <<>>
    PROVE  EndsTo
  <1>1. DOMAIN endings = Terminals \X Ways /\ \A y \in Terminals \X Ways : endings[y] \in EndRecord
    BY DEF AttachmentInv, EndTypes
  <1>2. ASSUME NEW place, endings' = [endings EXCEPT ![x].place = place], NEW y \in Terminals \X Ways
        PROVE  endings'[y].to = endings[y].to
    BY <1>1, <1>2 DEF EndRecord
  <1>3. ASSUME NEW e, endings' = [endings EXCEPT ![x] = e], e.to = <<>>, NEW y \in Terminals \X Ways
        PROVE  endings'[y].to \in {endings[y].to, <<>>}
    BY <1>1, <1>3
  <1> QED BY <1>2, <1>3 DEF EndsTo

LEMMA BeginTo ==
    ASSUME NEW S, NEW endedAs, NEW exited, BeginEnd(S, endedAs, exited)
    PROVE  EndsTo
  <1>1. PICK e : e = Ending(endedAs, exited)
    OBVIOUS
  <1>2. e.to = <<>>
    BY <1>1 DEF Ending, NoEnd
  <1>3. \A x \in Terminals \X Ways : endings'[x] \in {e, endings[x]}
    BY <1>1 DEF BeginEnd
  <1> QED BY <1>2, <1>3 DEF EndsTo

LEMMA TerminateTo ==
    ASSUME NEW S, NEW endedAs, Terminate(S, endedAs)
    PROVE  EndsTo
  <1>1. PICK T : T = S \ finishing
    OBVIOUS
  <1>2. BeginEnd(T, endedAs, FALSE)
    BY <1>1 DEF Terminate
  <1> QED BY <1>2, BeginTo

LEMMA SameTo ==
    /\ call' = call => CallsTo
    /\ endings' = endings => EndsTo
  BY DEF CallsTo, EndsTo

\* What the actions do to the leases, and to those that are about to be written.
LEMMA OwnersStart ==
    ASSUME AttachmentInv, OwnersInv, NEW t \in Terminals,
           StartTerminal(t) \/ StartSteps(t) \/ Output(t)
    PROVE  OwnersInv'
  <1>1. UNCHANGED <<leases, past, call, endings>>
    BY DEF StartTerminal, StartSteps, RecordStart, Spawn, SpawnFails, Take, Output, unopened, clients, endVars
  <1> QED BY <1>1, SameTo, NothingComputed

LEMMA OwnersExit ==
    ASSUME AttachmentInv, OwnersInv, NEW t \in Terminals, Exit(t)
    PROVE  OwnersInv'
  <1>1. UNCHANGED <<leases, past, call>>
    BY DEF Exit, clients
  <1>2. EndsTo
    <2>1. BeginEnd({t}, "exited", TRUE) \/ endings' = endings
      BY DEF Exit
    <2> QED BY <2>1, BeginTo, SameTo
  <1> QED BY <1>1, <1>2, SameTo, NothingComputed

LEMMA OwnersEnd ==
    ASSUME AttachmentInv, OwnersInv, NEW t \in Terminals, EndSteps(t)
    PROVE  OwnersInv'
  <1>0. NoEnd.to = <<>>
    BY DEF NoEnd
  <1>1. CASE ReadSession(t)
    <2>1. PICK x \in Terminals \X Ways : x = <<t, "guarded">>
      BY DEF Ways
    <2>2. UNCHANGED <<leases, past, call>>
      BY <1>1 DEF ReadSession, unended
    <2>3. endings' = [endings EXCEPT ![x].place = "event"] \/ endings' = [endings EXCEPT ![x] = NoEnd]
      BY <1>1, <2>1 DEF ReadSession
    <2>4. EndsTo
      BY <1>0, <2>3, EndTo
    <2> QED BY <2>2, <2>4, SameTo, NothingComputed
  <1>2. ASSUME NEW way \in Ways, StoreOutcome(t, way)
        PROVE  OwnersInv'
    <2>1. PICK x \in Terminals \X Ways : x = <<t, way>>
      OBVIOUS
    <2>2. UNCHANGED <<leases, past, call>>
      BY <1>2 DEF StoreOutcome, unended
    <2>3. endings' = [endings EXCEPT ![x].place = "store"]
      BY <1>2, <2>1 DEF StoreOutcome
    <2>4. EndsTo
      BY <2>3, EndTo
    <2> QED BY <2>2, <2>4, SameTo, NothingComputed
  <1>3. ASSUME NEW way \in Ways, CloseLeases(t, way)
        PROVE  OwnersInv'
    <2>1. PICK x \in Terminals \X Ways : x = <<t, way>>
      OBVIOUS
    <2>2. UNCHANGED <<past, call>>
      BY <1>3 DEF CloseLeases, unended
    <2>3. CASE endings[x].place = "leases" /\ leases' = leases
               /\ endings' = [endings EXCEPT ![x] = [@ EXCEPT !.place = "closing", !.to = Closed(LeasesOf(t))]]
      <3>1. leases \in Seq(Lease) /\ OneOwner(leases)
        BY DEF AttachmentInv, ClientTypes, OwnersInv
      <3>2. PICK list : list = Closed(LeasesOf(t)) /\ OneOwner(list)
        BY <3>1, OwnersClosed
      <3>3. /\ endings' = [endings EXCEPT ![x] = [@ EXCEPT !.place = "closing", !.to = list]]
            /\ DOMAIN endings = Terminals \X Ways /\ \A y \in Terminals \X Ways : endings[y] \in EndRecord
        BY <2>3, <3>2 DEF AttachmentInv, EndTypes
      <3>4. ASSUME NEW y \in Terminals \X Ways PROVE OneOwner(endings'[y].to)
        <4>1. CASE y = x
          <5>1. endings'[y].to = list
            BY <3>3, <4>1 DEF EndRecord
          <5> QED BY <3>2, <5>1
        <4>2. CASE y # x
          <5>1. endings'[y] = endings[y]
            BY <3>3, <4>2
          <5> QED BY <5>1 DEF OwnersInv
        <4> QED BY <4>1, <4>2
      <3>5. CallsTo
        BY <2>2, SameTo
      <3>6. OneOwner(leases')
        BY <2>3, <3>1
      <3> QED BY <2>2, <3>4, <3>5, <3>6, CallsToKept, OwnersKept
    <2>4. CASE endings' = [endings EXCEPT ![x] = NoEnd] /\ leases' = endings[x].to
      <3>1. EndsTo
        BY <1>0, <2>4, EndTo
      <3> QED BY <2>2, <2>4, <3>1, SameTo, NothingComputed
    <2> QED BY <1>3, <2>1, <2>3, <2>4 DEF CloseLeases, EndReleased
  <1> QED BY <1>1, <1>2, <1>3 DEF EndSteps

\* A call that computes leases to be written.
LEMMA OwnersWriteBack ==
    ASSUME AttachmentInv, OwnersInv, NEW c \in Clients, NEW list, OneOwner(list), NEW place,
           WriteBack(c, place, list), UNCHANGED <<leases, past, endings>>
    PROVE  OwnersInv'
  <1>1. /\ call' = [call EXCEPT ![c] = [@ EXCEPT !.place = place, !.to = list]]
        /\ DOMAIN call = Clients /\ \A d \in Clients : call[d] \in CallRecord
    BY DEF WriteBack, AttachmentInv, ClientTypes, CallOK
  <1>2. ASSUME NEW d \in Clients PROVE OneOwner(call'[d].to)
    <2>1. CASE d = c
      <3>1. call'[d].to = list
        BY <1>1, <2>1 DEF CallRecord
      <3> QED BY <3>1
    <2>2. CASE d # c
      <3>1. call'[d] = call[d]
        BY <1>1, <2>2
      <3> QED BY <3>1 DEF OwnersInv
    <2> QED BY <2>1, <2>2
  <1>3. OneOwner(leases')
    BY DEF OwnersInv
  <1> QED BY <1>2, <1>3, SameTo, EndsToKept, OwnersKept

LEMMA OwnersCall ==
    ASSUME AttachmentInv, OwnersInv, NEW c \in Clients, Call(c) \/ CallSteps(c)
    PROVE  OwnersInv'
  <1>0. /\ NoCall.to = <<>> /\ leases \in Seq(Lease) /\ OneOwner(leases)
        /\ DOMAIN call = Clients /\ \A d \in Clients : call[d] \in CallRecord
    BY DEF NoCall, AttachmentInv, ClientTypes, OwnersInv, CallOK
  <1>1. CASE Call(c)
    <2>1. UNCHANGED <<leases, past, endings>>
      BY <1>1 DEF Call, endVars
    <2>2. \E k : call' = [call EXCEPT ![c] = k] /\ k.to = <<>>
      <3>3. ASSUME NEW what, call' = [call EXCEPT ![c] = [NoCall EXCEPT !.what = what, !.place = "expiring"]]
            PROVE  \E k : call' = [call EXCEPT ![c] = k] /\ k.to = <<>>
        <4>1. PICK k : k = [NoCall EXCEPT !.what = what, !.place = "expiring"]
          OBVIOUS
        <4>2. call' = [call EXCEPT ![c] = k] /\ k.to = <<>>
          BY <3>3, <4>1 DEF NoCall
        <4> QED BY <4>2
      <3>4. PICK id : id = calls'[c]
        OBVIOUS
      <3>5. ASSUME NEW t \in Terminals, NEW owns \in BOOLEAN,
                   call' = [call EXCEPT ![c] = [NoCall EXCEPT !.what = "attach", !.of = t, !.owns = owns,
                                                              !.lease = calls'[c], !.place = "expiring"]]
            PROVE  \E k : call' = [call EXCEPT ![c] = k] /\ k.to = <<>>
        <4>1. PICK k : k = [NoCall EXCEPT !.what = "attach", !.of = t, !.owns = owns, !.lease = id, !.place = "expiring"]
          OBVIOUS
        <4>2. call' = [call EXCEPT ![c] = k] /\ k.to = <<>>
          BY <3>4, <3>5, <4>1 DEF NoCall
        <4> QED BY <4>2
      <3>6. ASSUME NEW l \in DOMAIN leases, NEW what \in {"detach", "write", "resize", "cancel"},
                   call' = [call EXCEPT ![c] = [NoCall EXCEPT !.what = what, !.of = leases[l].of,
                                                              !.lease = leases[l].id, !.place = "expiring"]]
            PROVE  \E k : call' = [call EXCEPT ![c] = k] /\ k.to = <<>>
        <4>1. PICK k : k = [NoCall EXCEPT !.what = what, !.of = leases[l].of, !.lease = leases[l].id, !.place = "expiring"]
          OBVIOUS
        <4>2. call' = [call EXCEPT ![c] = k] /\ k.to = <<>>
          BY <3>6, <4>1 DEF NoCall
        <4> QED BY <4>2
      <3> QED BY <1>1, <3>3, <3>5, <3>6 DEF Call
    <2>3. CallsTo
      BY <2>2, CallTo
    <2> QED BY <2>1, <2>3, SameTo, NothingComputed
  <1>2. ASSUME NEW place, Then(c, place) PROVE CallsTo
    BY <1>2, CallTo DEF Then
  <1>3. ASSUME Return(c) PROVE CallsTo
    BY <1>0, <1>3, CallTo DEF Return
  <1>4. CASE Expire(c)
    <2>1. UNCHANGED <<past, endings>>
      BY <1>4 DEF Expire, uncalled, endVars
    <2>2. CASE WriteBack(c, "expired", Closed(Overdue)) /\ leases' = leases
      <3>1. PICK list : list = Closed(Overdue)
        OBVIOUS
      <3>2. OneOwner(list)
        BY <1>0, <3>1, OwnersClosed
      <3>3. WriteBack(c, "expired", list)
        BY <2>2, <3>1
      <3> QED BY <2>1, <2>2, <3>2, <3>3, OwnersWriteBack
    <2>3. CASE Then(c, "checking") /\ leases' = call[c].to
      BY <1>2, <2>1, <2>3, SameTo, NothingComputed
    <2> QED BY <1>4, <2>2, <2>3 DEF Expire
  <1>5. CASE Check(c)
    <2>1. UNCHANGED <<leases, past, endings>>
      BY <1>5 DEF Check, uncalled, endVars
    <2>2. Return(c) \/ \E place : Then(c, place)
      BY <1>5 DEF Check
    <2> QED BY <1>2, <1>3, <2>1, <2>2, SameTo, NothingComputed
  <1>6. CASE Attach(c)
    <2>1. UNCHANGED <<leases, past, endings>>
      BY <1>6 DEF Attach, uncalled, endVars
    <2>2. CASE Refused(c)
      <3>1. Return(c)
        BY <1>6, <2>2 DEF Attach
      <3> QED BY <1>3, <2>1, <3>1, SameTo, NothingComputed
    <2>3. CASE ~ Refused(c)
      <3>1. PICK new : new = [id |-> call[c].lease, of |-> call[c].of, client |-> c, owns |-> call[c].owns, open |-> TRUE]
        OBVIOUS
      <3>2. new \in Lease
        <4>1. call[c].place = "attach" /\ CallOK(call[c])
          BY <1>6 DEF Attach, At, AttachmentInv, ClientTypes
        <4>2. PICK o : o = call[c] /\ o.place = "attach" /\ CallOK(o)
          BY <4>1
        <4>3. o.lease \in Nat /\ o.of \in Terminals /\ o.owns \in BOOLEAN
          BY <4>2 DEF CallOK, CallRecord, Using
        <4> QED BY <3>1, <4>2, <4>3 DEF Lease
      <3>3. PICK list : list = Append(leases, new)
        OBVIOUS
      <3>4. OneOwner(list)
        <4>1. new.client = c /\ new.owns = call[c].owns
          BY <3>1
        <4> QED BY <1>0, <2>3, <3>2, <3>3, <4>1, OwnersAttached
      <3>5. WriteBack(c, "returning", list)
        BY <1>6, <2>3, <3>1, <3>3 DEF Attach
      <3> QED BY <2>1, <3>4, <3>5, OwnersWriteBack
    <2> QED BY <2>2, <2>3
  <1>7. CASE Detach(c)
    <2>1. UNCHANGED <<leases, past, endings>>
      BY <1>7 DEF Detach, uncalled, endVars
    <2>2. PICK list : list = Closed(Named(c, call[c].lease))
      OBVIOUS
    <2>3. OneOwner(list)
      BY <1>0, <2>2, OwnersClosed
    <2>4. WriteBack(c, "returning", list)
      BY <1>7, <2>2 DEF Detach
    <2> QED BY <2>1, <2>3, <2>4, OwnersWriteBack
  <1>8. CASE WriteAndReturn(c)
    <2>1. UNCHANGED <<past, endings>> /\ Return(c) /\ leases' = call[c].to
      BY <1>8 DEF WriteAndReturn, uncalled, endVars
    <2> QED BY <1>3, <2>1, SameTo, NothingComputed
  <1>9. CASE AssertAuthority(c) \/ Cancel(c)
    <2>1. UNCHANGED <<leases, past>>
      BY <1>9 DEF AssertAuthority, Cancel, uncalled
    <2>2. CallsTo
      BY <1>2, <1>3, <1>9 DEF AssertAuthority, Cancel
    <2>3. EndsTo
      <3>1. endings' = endings \/ \E S, endedAs : Terminate(S, endedAs)
        BY <1>9 DEF AssertAuthority, Cancel, endVars
      <3> QED BY <3>1, SameTo, TerminateTo
    <2> QED BY <2>1, <2>2, <2>3, NothingComputed
  <1>10. CASE Write(c) \/ Resize(c)
    <2>1. UNCHANGED <<leases, past, endings>>
      BY <1>10 DEF Write, Resize, uncalled, endVars
    <2>2. CallsTo
      BY <1>2, <1>3, <1>10 DEF Write, Resize
    <2> QED BY <2>1, <2>2, SameTo, NothingComputed
  <1> QED BY <1>1, <1>4, <1>5, <1>6, <1>7, <1>8, <1>9, <1>10 DEF CallSteps

LEMMA OwnersSettled ==
    ASSUME AttachmentInv, NEW w \in QueuedWrite, NEW others, GoesOn(w, others)
    PROVE  CallsTo /\ EndsTo
  <1>0. "open" \notin Ways /\ "open" \notin Clients /\ \A way \in Ways : way \notin Clients
    BY AttachmentAssumption DEF Ways
  <1>1. w.of \in Terminals /\ NoCall.to = <<>>
    BY DEF QueuedWrite, NoCall
  <1>2. CASE w.by = "open" /\ opening[w.of] = "detaching"
    <2>1. PICK e : e = [NoEnd EXCEPT !.place = "event"]
      OBVIOUS
    <2>4. e.to = <<>>
      BY <2>1 DEF NoEnd
    <2>2. PICK x \in Terminals \X Ways : x = <<w.of, "detached">>
      BY <1>1 DEF Ways
    <2>3. call' = call /\ endings' = [endings EXCEPT ![x] = e]
      BY <1>0, <1>2, <2>1, <2>2 DEF GoesOn
    <2> QED BY <2>3, <2>4, SameTo, EndTo
  <1>3. CASE w.by = "open" /\ opening[w.of] # "detaching"
    <2>1. UNCHANGED <<call, endings>>
      BY <1>0, <1>3 DEF GoesOn
    <2> QED BY <2>1, SameTo
  <1>4. CASE w.by \in Ways
    <2>1. PICK x \in Terminals \X Ways : x = <<w.of, w.by>>
      BY <1>1, <1>4
    <2>2. w.by # "open"
      BY <1>4 DEF Ways
    <2>3. call' = call /\ endings' = [endings EXCEPT ![x].place = IF @ = "event" THEN "latest" ELSE "leases"]
      BY <1>0, <1>4, <2>1, <2>2 DEF GoesOn
    <2>4. PICK place : place = IF endings[x].place = "event" THEN "latest" ELSE "leases"
      OBVIOUS
    <2>5. endings' = [endings EXCEPT ![x].place = place]
      BY <2>3, <2>4
    <2> QED BY <2>3, <2>5, SameTo, EndTo
  <1>5. CASE w.by \in Clients /\ w.by # "open" /\ w.by \notin Ways
    <2>1. call' = [call EXCEPT ![w.by] = NoCall] /\ endings' = endings
      BY <1>5 DEF GoesOn
    <2> QED BY <1>1, <1>5, <2>1, SameTo, CallTo
  <1>6. CASE w.by # "open" /\ w.by \notin Ways /\ w.by \notin Clients
    <2>1. UNCHANGED <<call, endings>>
      BY <1>6 DEF GoesOn
    <2> QED BY <2>1, SameTo
  <1> QED BY <1>2, <1>3, <1>4, <1>5, <1>6

LEMMA OwnersPersist ==
    ASSUME AttachmentInv, OwnersInv, Persist
    PROVE  OwnersInv'
  <1>1. UNCHANGED <<leases, past>> /\ chain # <<>>
    BY DEF Persist
  <1>2. PICK w \in QueuedWrite : w = Head(chain)
    BY <1>1, HeadOf
  <1>3. GoesOn(w, Tail(chain)) \/ UNCHANGED <<call, endings>>
    BY <1>2 DEF Persist
  <1>4. CallsTo /\ EndsTo
    BY <1>3, OwnersSettled, SameTo
  <1> QED BY <1>1, <1>4, NothingComputed

LEMMA OwnersFails ==
    ASSUME AttachmentInv, OwnersInv, Fails
    PROVE  OwnersInv'
  <1>0. NoCall.to = <<>> /\ NoEnd.to = <<>>
    BY DEF NoCall, NoEnd
  <1>1. UNCHANGED <<leases, past>>
    BY DEF Fails
  <1>2. ASSUME NEW x \in Terminals \X Ways, EndReleased(x)
        PROVE  EndsTo
    BY <1>0, <1>2, EndTo DEF EndReleased
  <1>3. ASSUME NEW c \in Clients, Return(c)
        PROVE  CallsTo
    BY <1>0, <1>3, CallTo DEF Return
  <1>4. CASE PersistFails
    <2>1. PICK w \in QueuedWrite : w = Head(chain) /\ w.of \in Terminals
      BY <1>4, HeadOf DEF PersistFails
    <2>2. IF w.by \in Ways THEN EndReleased(<<w.of, w.by>>) ELSE UNCHANGED <<endings, finishing>>
      BY <1>4, <2>1 DEF PersistFails
    <2>3. call' = IF w.by \in Clients THEN [call EXCEPT ![w.by] = NoCall] ELSE call
      BY <1>4, <2>1 DEF PersistFails
    <2>4. EndsTo
      <3>1. CASE w.by \in Ways
        <4>1. PICK x \in Terminals \X Ways : x = <<w.of, w.by>>
          BY <2>1, <3>1
        <4> QED BY <1>2, <2>2, <3>1, <4>1
      <3>2. CASE w.by \notin Ways
        BY <2>2, <3>2, SameTo
      <3> QED BY <3>1, <3>2
    <2>5. CallsTo
      <3>1. CASE w.by \in Clients
        BY <1>3, <2>3, <3>1 DEF Return
      <3>2. CASE w.by \notin Clients
        BY <2>3, <3>2, SameTo
      <3> QED BY <3>1, <3>2
    <2> QED BY <1>1, <2>4, <2>5, NothingComputed
  <1>5. CASE StepFails
    <2>1. CallsTo /\ EndsTo
      BY <1>2, <1>3, <1>5, SameTo DEF StepFails
    <2> QED BY <1>1, <2>1, NothingComputed
  <1> QED BY <1>4, <1>5 DEF Fails

LEMMA OwnersHost ==
    ASSUME AttachmentInv, OwnersInv, Withdraw \/ Contain \/ Shutdown \/ Quit \/ StopHost \/ Restart \/ Recover
    PROVE  OwnersInv'
  <1>1. CASE Withdraw \/ Restart
    <2>1. UNCHANGED <<leases, past, call, endings>>
      BY <1>1 DEF Withdraw, Restart, recovery, clients, endVars
    <2> QED BY <2>1, SameTo, NothingComputed
  <1>2. CASE Contain \/ Shutdown
    <2>1. UNCHANGED <<leases, past, call>> /\ \E S, endedAs : Terminate(S, endedAs)
      BY <1>2 DEF Contain, Shutdown, clients
    <2> QED BY <2>1, SameTo, TerminateTo, NothingComputed
  <1>3. CASE Quit \/ StopHost
    <2>1. Down /\ (leases' = leases \/ \E S : leases' = Closed(S))
      BY <1>3 DEF Quit, StopHost
    <2>2. past' = past /\ CallsTo /\ EndsTo
      BY <2>1 DEF Down, CallsTo, EndsTo, NoCall, NoEnd
    <2> QED BY <2>1, <2>2, NothingComputed
  <1>4. CASE Recover
    <2>1. UNCHANGED <<past, call, endings>> /\ \E S : leases' = Closed(S)
      BY <1>4 DEF Recover, recovery, endVars
    <2> QED BY <2>1, SameTo, NothingComputed
  <1> QED BY <1>1, <1>2, <1>3, <1>4

LEMMA OwnersStep ==
    ASSUME AttachmentInv, OwnersInv, [AttachmentNext]_attachmentVars
    PROVE  OwnersInv'
  <1>1. ASSUME NEW l \in DOMAIN leases, TimePasses(l)
        PROVE  OwnersInv'
    <2>1. past \subseteq past' /\ UNCHANGED <<leases, call, endings>>
      BY <1>1 DEF TimePasses, endVars
    <2> QED BY <2>1, SameTo, NothingComputed
  <1>2. CASE UNCHANGED attachmentVars
    <2>1. UNCHANGED <<leases, past, call, endings>>
      BY <1>2 DEF attachmentVars, clients, endVars
    <2> QED BY <2>1, SameTo, NothingComputed
  <1> QED BY <1>1, <1>2, OwnersStart, OwnersExit, OwnersEnd, OwnersCall, OwnersPersist, OwnersFails, OwnersHost
          DEF AttachmentNext

LEMMA OwnersBegin ==
    ASSUME AttachmentInit
    PROVE  OwnersInv
  <1>1. /\ leases = <<>> /\ \A c \in Clients : call[c].to = <<>>
        /\ \A x \in Terminals \X Ways : endings[x].to = <<>>
    BY DEF AttachmentInit, NoCall, NoEnd
  <1> QED BY <1>1, NoOwner DEF OwnersInv

-----------------------------------------------------------------------------
(* The replay of the events.                                                *)

Calm == {"sessions", "torn"} \cap slips = {}
Counting(t) == chain # <<>> /\ Head(chain).do = "count" /\ Head(chain).of = t
Newest(t) == stored[t].cursor + IF Counting(t) THEN 1 ELSE 0

\* The events of t in the list are the last of those that are numbered up to top.
Sequel(list, t, top) ==
    /\ \A i \in DOMAIN list : list[i].of = t => list[i].cursor <= top
    /\ \A i, j \in DOMAIN list : list[i].of = t /\ list[j].of = t /\ i < j => list[i].cursor < list[j].cursor
    /\ \A i \in DOMAIN list : list[i].of = t =>
          \A c \in list[i].cursor .. top : \E j \in DOMAIN list : list[j].of = t /\ list[j].cursor = c

ReplayInv == Calm => \A t \in Terminals : Sequel(kept, t, Newest(t))

\* An event is appended with the next number.
LEMMA SequelAppended ==
    ASSUME NEW list \in Seq(Kept), NEW t, NEW top \in Nat, NEW e \in Kept,
           IF e.of = t THEN e.cursor = top /\ top > 0 /\ Sequel(list, t, top - 1) ELSE Sequel(list, t, top)
    PROVE  Sequel(Append(list, e), t, top)
  <1>1. PICK n \in Nat : n = Len(list) /\ DOMAIN list = 1 .. n
    OBVIOUS
  <1>2. PICK all : all = Append(list, e)
    OBVIOUS
  <1>3. /\ DOMAIN all = 1 .. n + 1 /\ all[n + 1] = e
        /\ \A i \in 1 .. n : all[i] = list[i]
    BY <1>1, <1>2
  <1>4. /\ e.cursor \in Nat
        /\ \A i \in 1 .. n : list[i].cursor \in Nat
    <2>1. \A i \in 1 .. n : list[i] \in Kept
      BY <1>1
    <2> QED BY <2>1 DEF Kept
  <1>5. \A i \in 1 .. n + 1 : i \in 1 .. n \/ i = n + 1
    OBVIOUS
  <1>6. CASE e.of = t
    <2>1. /\ \A i \in 1 .. n : list[i].of = t => list[i].cursor <= top - 1
          /\ \A i, j \in 1 .. n : list[i].of = t /\ list[j].of = t /\ i < j => list[i].cursor < list[j].cursor
          /\ \A i \in 1 .. n : list[i].of = t =>
                \A c \in list[i].cursor .. top - 1 : \E j \in 1 .. n : list[j].of = t /\ list[j].cursor = c
      BY <1>1, <1>6 DEF Sequel
    <2>2. e.cursor = top
      BY <1>6
    <2>3. ASSUME NEW i \in 1 .. n + 1, all[i].of = t PROVE all[i].cursor <= top
      <3>1. CASE i \in 1 .. n
        <4>1. list[i].of = t /\ all[i].cursor = list[i].cursor
          BY <1>3, <2>3, <3>1
        <4>2. list[i].cursor <= top - 1 /\ list[i].cursor \in Nat
          BY <1>4, <2>1, <3>1, <4>1
        <4> QED BY <4>1, <4>2
      <3>2. CASE i = n + 1
        BY <1>3, <2>2, <3>2
      <3> QED BY <1>5, <3>1, <3>2
    <2>4. ASSUME NEW i \in 1 .. n + 1, NEW j \in 1 .. n + 1, all[i].of = t, all[j].of = t, i < j
          PROVE  all[i].cursor < all[j].cursor
      <3>1. i \in 1 .. n
        BY <2>4
      <3>2. CASE j \in 1 .. n
        BY <1>3, <2>1, <2>4, <3>1, <3>2
      <3>3. CASE j = n + 1
        BY <1>3, <1>4, <2>1, <2>2, <2>4, <3>1, <3>3
      <3> QED BY <1>5, <3>2, <3>3
    <2>5. ASSUME NEW i \in 1 .. n + 1, all[i].of = t, NEW c \in all[i].cursor .. top
          PROVE  \E j \in 1 .. n + 1 : all[j].of = t /\ all[j].cursor = c
      <3>1. CASE c = top
        <4>1. n + 1 \in 1 .. n + 1
          OBVIOUS
        <4> QED BY <1>3, <1>6, <2>2, <3>1, <4>1
      <3>2. CASE c # top
        <4>1. c \in Int /\ c <= top - 1
          BY <3>2
        <4>2. i \in 1 .. n
          BY <1>3, <1>5, <2>2, <2>5, <3>2, <4>1
        <4>3. c \in list[i].cursor .. top - 1 /\ list[i].of = t
          BY <1>3, <2>5, <4>1, <4>2
        <4>4. PICK j \in 1 .. n : list[j].of = t /\ list[j].cursor = c
          BY <2>1, <4>2, <4>3
        <4> QED BY <1>3, <4>4
      <3> QED BY <3>1, <3>2
    <2> QED BY <1>2, <1>3, <2>3, <2>4, <2>5 DEF Sequel
  <1>7. CASE e.of # t
    <2>1. /\ \A i \in 1 .. n : list[i].of = t => list[i].cursor <= top
          /\ \A i, j \in 1 .. n : list[i].of = t /\ list[j].of = t /\ i < j => list[i].cursor < list[j].cursor
          /\ \A i \in 1 .. n : list[i].of = t =>
                \A c \in list[i].cursor .. top : \E j \in 1 .. n : list[j].of = t /\ list[j].cursor = c
      BY <1>1, <1>7 DEF Sequel
    <2>2. \A i \in 1 .. n + 1 : all[i].of = t => i \in 1 .. n /\ all[i] = list[i]
      BY <1>3, <1>5, <1>7
    <2>3. ASSUME NEW i \in 1 .. n + 1, all[i].of = t, NEW c \in all[i].cursor .. top
          PROVE  \E j \in 1 .. n + 1 : all[j].of = t /\ all[j].cursor = c
      <3>1. i \in 1 .. n /\ list[i].of = t /\ c \in list[i].cursor .. top
        BY <2>2, <2>3
      <3>2. PICK j \in 1 .. n : list[j].of = t /\ list[j].cursor = c
        BY <2>1, <3>1
      <3> QED BY <1>3, <3>2
    <2>4. \A i \in 1 .. n + 1 : all[i].of = t => all[i].cursor <= top
      BY <2>1, <2>2
    <2>5. ASSUME NEW i \in 1 .. n + 1, NEW j \in 1 .. n + 1, all[i].of = t, all[j].of = t, i < j
          PROVE  all[i].cursor < all[j].cursor
      BY <2>1, <2>2, <2>5
    <2> QED BY <1>2, <1>3, <2>3, <2>4, <2>5 DEF Sequel
  <1> QED BY <1>6, <1>7

\* The first of a terminal may be dropped.
LEMMA SequelWithout ==
    ASSUME NEW list \in Seq(Kept), NEW i \in DOMAIN list, \A j \in 1 .. i - 1 : list[j].of # list[i].of,
           NEW t, NEW top \in Nat, Sequel(list, t, top)
    PROVE  Sequel(Without(list, i), t, top)
  <1>1. PICK n \in Nat : n = Len(list) /\ DOMAIN list = 1 .. n /\ i \in 1 .. n
    OBVIOUS
  <1>2. PICK rest : rest = Without(list, i)
    OBVIOUS
  <1>3. /\ DOMAIN rest = 1 .. n - 1
        /\ \A j \in 1 .. n - 1 : rest[j] = list[IF j < i THEN j ELSE j + 1]
    BY <1>1, <1>2 DEF Without
  <1>4. \A j \in 1 .. n : list[j].cursor \in Nat
    <2>1. \A j \in 1 .. n : list[j] \in Kept
      BY <1>1
    <2> QED BY <2>1 DEF Kept
  <1>5. /\ \A j \in 1 .. n : list[j].of = t => list[j].cursor <= top
        /\ \A j, k \in 1 .. n : list[j].of = t /\ list[k].of = t /\ j < k => list[j].cursor < list[k].cursor
        /\ \A j \in 1 .. n : list[j].of = t =>
              \A c \in list[j].cursor .. top : \E k \in 1 .. n : list[k].of = t /\ list[k].cursor = c
    BY <1>1 DEF Sequel
  <1>6. ASSUME NEW j \in 1 .. n - 1
        PROVE  \E m \in 1 .. n : rest[j] = list[m] /\ m = (IF j < i THEN j ELSE j + 1) /\ m # i
    <2>1. CASE j < i
      <3>1. rest[j] = list[j] /\ j \in 1 .. n /\ j # i
        BY <1>3, <2>1
      <3> QED BY <2>1, <3>1
    <2>2. CASE ~ (j < i)
      <3>1. rest[j] = list[j + 1] /\ j + 1 \in 1 .. n /\ j + 1 # i
        BY <1>1, <1>3, <2>2
      <3> QED BY <2>2, <3>1
    <2> QED BY <2>1, <2>2
  <1>7. ASSUME NEW m \in 1 .. n, m # i
        PROVE  \E j \in 1 .. n - 1 : rest[j] = list[m]
    <2>1. CASE m < i
      <3>1. m \in 1 .. n - 1
        BY <1>1, <2>1
      <3> QED BY <1>3, <2>1, <3>1
    <2>2. CASE m > i
      <3>1. m - 1 \in 1 .. n - 1 /\ ~ (m - 1 < i) /\ (m - 1) + 1 = m
        BY <1>1, <2>2
      <3>2. rest[m - 1] = list[m]
        BY <1>3, <3>1
      <3> QED BY <3>1, <3>2
    <2> QED BY <1>1, <1>7, <2>1, <2>2
  <1>8. ASSUME NEW j \in 1 .. n - 1, rest[j].of = t
        PROVE  rest[j].cursor <= top
    BY <1>5, <1>6, <1>8
  <1>9. ASSUME NEW j \in 1 .. n - 1, NEW k \in 1 .. n - 1, rest[j].of = t, rest[k].of = t, j < k
        PROVE  rest[j].cursor < rest[k].cursor
    <2>1. PICK a \in 1 .. n : rest[j] = list[a] /\ a = (IF j < i THEN j ELSE j + 1)
      BY <1>6
    <2>2. PICK b \in 1 .. n : rest[k] = list[b] /\ b = (IF k < i THEN k ELSE k + 1)
      BY <1>6
    <2>3. a < b
      BY <1>1, <1>9, <2>1, <2>2
    <2> QED BY <1>5, <1>9, <2>1, <2>2, <2>3
  <1>10. ASSUME NEW j \in 1 .. n - 1, rest[j].of = t, NEW c \in rest[j].cursor .. top
         PROVE  \E k \in 1 .. n - 1 : rest[k].of = t /\ rest[k].cursor = c
    <2>1. PICK a \in 1 .. n : rest[j] = list[a] /\ a # i
      BY <1>6
    <2>2. list[a].of = t /\ c \in list[a].cursor .. top
      BY <1>10, <2>1
    <2>3. PICK b \in 1 .. n : list[b].of = t /\ list[b].cursor = c
      BY <1>5, <2>2
    <2>4. b # i
      <3> SUFFICES ASSUME b = i PROVE FALSE
        OBVIOUS
      <3>1. ~ (a \in 1 .. i - 1)
        BY <2>2, <2>3
      <3>2. i < a
        BY <1>1, <2>1, <3>1
      <3>3. list[i].cursor < list[a].cursor
        BY <1>1, <1>5, <2>2, <2>3, <3>2
      <3>4. list[a].cursor <= c /\ list[i].cursor = c
        BY <1>4, <2>2, <2>3
      <3> QED BY <1>1, <1>4, <3>3, <3>4
    <2>5. PICK k \in 1 .. n - 1 : rest[k] = list[b]
      BY <1>7, <2>4
    <2> QED BY <2>3, <2>5
  <1>11. Sequel(rest, t, top)
    BY <1>3, <1>8, <1>9, <1>10 DEF Sequel
  <1> QED BY <1>2, <1>11

\* retain drops the first of the terminal, then the first of all.
LEMMA SequelRetained ==
    ASSUME AttachmentAssumption, NEW all \in Seq(Kept), Len(all) >= 1, NEW u, NEW t, NEW top \in Nat,
           Sequel(all, t, top)
    PROVE  Sequel(Retain(u, all), t, top)
  <1>1. PICK own : own = {i \in DOMAIN all : all[i].of = u}
    OBVIOUS
  <1>2. PICK mine : mine = IF Cardinality(own) > KeptOwn THEN Without(all, Min(own)) ELSE all
    OBVIOUS
  <1>3. Retain(u, all) = IF Len(mine) > KeptAll THEN Without(mine, 1) ELSE mine
    BY <1>1, <1>2 DEF Retain
  <1>4. mine \in Seq(Kept) /\ Sequel(mine, t, top)
    <2>1. CASE Cardinality(own) > KeptOwn
      <3>1. own # {}
        <4>1. KeptOwn \in Nat
          BY DEF AttachmentAssumption
        <4>2. Cardinality({}) = 0
          BY FS_EmptySet
        <4>3. own = {} => Cardinality(own) = 0
          BY <4>2
        <4> QED BY <2>1, <4>1, <4>3
      <3>2. own \subseteq Nat
        BY <1>1
      <3>3. PICK i \in own : i = Min(own) /\ \A y \in own : i <= y
        BY <3>1, <3>2, Earliest
      <3>4. i \in DOMAIN all /\ all[i].of = u
        BY <1>1, <3>3
      <3>5. ASSUME NEW j \in 1 .. i - 1 PROVE all[j].of # all[i].of
        <4>1. j \in DOMAIN all /\ ~ (i <= j)
          BY <3>4, <3>5
        <4> QED BY <1>1, <3>3, <3>4, <4>1
      <3>6. Sequel(Without(all, i), t, top)
        BY <3>4, <3>5, SequelWithout
      <3>7. Without(all, i) \in Seq(Kept)
        BY WithoutOf
      <3> QED BY <1>2, <2>1, <3>3, <3>6, <3>7
    <2>2. CASE ~ (Cardinality(own) > KeptOwn)
      BY <1>2, <2>2
    <2> QED BY <2>1, <2>2
  <1>5. CASE Len(mine) > KeptAll
    <2>1. Len(mine) >= 1 /\ 1 \in DOMAIN mine
      BY <1>4, <1>5 DEF AttachmentAssumption
    <2>2. \A j \in 1 .. 1 - 1 : mine[j].of # mine[1].of
      OBVIOUS
    <2>3. Sequel(Without(mine, 1), t, top)
      BY <1>4, <2>1, <2>2, SequelWithout
    <2> QED BY <1>3, <1>5, <2>3
  <1>6. CASE ~ (Len(mine) > KeptAll)
    BY <1>3, <1>4, <1>6
  <1> QED BY <1>5, <1>6

\* What the replay needs of a state, and what leaves it.
LEMMA ReplayKept ==
    ASSUME ReplayInv, Calm' => Calm, kept' = kept,
           Calm' => \A t \in Terminals : Newest(t)' = Newest(t)
    PROVE  ReplayInv'
  <1> SUFFICES ASSUME Calm', NEW t \in Terminals PROVE Sequel(kept, t, Newest(t))'
    BY DEF ReplayInv
  <1>1. PICK list, top : list = kept /\ top = Newest(t) /\ Sequel(list, t, top)
    BY DEF ReplayInv
  <1>2. list = kept' /\ top = Newest(t)'
    BY <1>1
  <1> QED BY <1>1, <1>2 DEF Sequel

LEMMA NewestKept ==
    ASSUME NEW t, stored'[t].cursor = stored[t].cursor, Counting(t)' <=> Counting(t)
    PROVE  Newest(t)' = Newest(t)
  BY DEF Newest

\* A write that is put into the queue is not the one that counts.
LEMMA CountingAppended ==
    ASSUME AttachmentInv, NEW w, w.do # "count", chain' = Append(chain, w), NEW t
    PROVE  Counting(t)' <=> Counting(t)
  <1>1. chain \in Seq(QueuedWrite)
    BY DEF AttachmentInv, FileTypes
  <1>2. CASE chain = <<>>
    <2>1. PICK q : q = Append(<<>>, w) /\ q = chain'
      BY <1>2
    <2>2. q # <<>> /\ Head(q) = w
      BY <2>1
    <2>3. ~ Counting(t)'
      BY <2>1, <2>2 DEF Counting
    <2> QED BY <1>2, <2>3 DEF Counting
  <1>3. CASE chain # <<>>
    <2>1. PICK q \in Seq(QueuedWrite) : q = chain /\ q # <<>>
      BY <1>1, <1>3
    <2>2. PICK r : r = Append(q, w)
      OBVIOUS
    <2>3. r # <<>> /\ Head(r) = Head(q)
      <3>1. PICK n \in Nat : n = Len(q) /\ n >= 1
        BY <2>1, EmptySeq
      <3>2. Len(r) = n + 1 /\ r[1] = q[1] /\ Head(r) = r[1] /\ Head(q) = q[1]
        BY <2>1, <2>2, <3>1
      <3>3. r # <<>>
        BY <2>2
      <3> QED BY <3>2, <3>3
    <2> QED BY <2>1, <2>2, <2>3 DEF Counting
  <1> QED BY <1>2, <1>3

\* Without the oldest write, none is begun.
LEMMA CountingRest ==
    ASSUME AttachmentInv, chain # <<>>, NEW t
    PROVE  ~ (Tail(chain) # <<>> /\ Head(Tail(chain)).do = "count" /\ Head(Tail(chain)).of = t)
  <1>1. PICK q \in Seq(QueuedWrite) : q = chain /\ q # <<>> /\ InTurn(q)
    BY DEF AttachmentInv, FileTypes
  <1>2. PICK r \in Seq(QueuedWrite) : r = Tail(q)
    BY <1>1, NotEmpty
  <1>3. \A w \in Entries(r) : w.do # "count"
    BY <1>1, <1>2, Rest
  <1>4. r # <<>> => Head(r).do # "count"
    BY <1>3, NotEmpty
  <1> QED BY <1>1, <1>2, <1>4

\* A step that leaves the files, and puts at most one write into the queue.
LEMMA ReplayElsewhere ==
    ASSUME AttachmentInv, ReplayInv, UNCHANGED <<kept, stored, slips>>,
           chain' = chain \/ \E w : w.do # "count" /\ chain' = Append(chain, w)
    PROVE  ReplayInv'
  <1>1. ASSUME NEW t \in Terminals PROVE Counting(t)' <=> Counting(t)
    <2>1. CASE chain' = chain
      BY <2>1 DEF Counting
    <2>2. ASSUME NEW w, w.do # "count", chain' = Append(chain, w)
          PROVE  Counting(t)' <=> Counting(t)
      BY <2>2, CountingAppended
    <2> QED BY <2>1, <2>2
  <1>2. \A t \in Terminals : stored'[t].cursor = stored[t].cursor
    OBVIOUS
  <1>3. \A t \in Terminals : Newest(t)' = Newest(t)
    BY <1>1, <1>2, NewestKept
  <1>4. Calm' => Calm
    BY DEF Calm
  <1> QED BY <1>3, <1>4, ReplayKept

\* The oldest write is gone, whatever was put behind the others.
LEMMA CountingGone ==
    ASSUME AttachmentInv, chain # <<>>, NEW t,
           chain' = Tail(chain) \/ \E w : w.do # "count" /\ chain' = Append(Tail(chain), w)
    PROVE  ~ Counting(t)'
  <1>1. PICK q \in Seq(QueuedWrite) : q = Tail(chain)
    <2>1. chain \in Seq(QueuedWrite)
      BY DEF AttachmentInv, FileTypes
    <2> QED BY <2>1, NotEmpty
  <1>2. ~ (q # <<>> /\ Head(q).do = "count" /\ Head(q).of = t)
    BY <1>1, CountingRest
  <1>3. CASE chain' = q
    BY <1>2, <1>3 DEF Counting
  <1>4. ASSUME NEW w, w.do # "count", chain' = Append(q, w)
        PROVE  ~ Counting(t)'
    <2>1. PICK r : r = Append(q, w)
      OBVIOUS
    <2>2. CASE q = <<>>
      <3>1. Head(r) = w
        BY <2>1, <2>2
      <3> QED BY <1>4, <2>1, <3>1 DEF Counting
    <2>3. CASE q # <<>>
      <3>1. PICK n \in Nat : n = Len(q) /\ n >= 1
        BY <2>3, EmptySeq
      <3>2. Len(r) = n + 1 /\ r[1] = q[1] /\ Head(r) = r[1] /\ Head(q) = q[1]
        BY <2>1, <2>3, <3>1
      <3> QED BY <1>2, <1>4, <2>1, <2>3, <3>2 DEF Counting
    <2> QED BY <2>2, <2>3
  <1> QED BY <1>1, <1>3, <1>4

\* What awaits a write puts at most one event into the queue.
LEMMA SettleQueue ==
    ASSUME AttachmentAssumption, NEW w, NEW others, GoesOn(w, others)
    PROVE  chain' = others \/ \E v : v.do # "count" /\ chain' = Append(others, v)
  <1>1. PICK v : v = Event(w.of, "detached") /\ v.do # "count"
    <2>1. PICK v : v = Event(w.of, "detached")
      OBVIOUS
    <2>2. v.do # "count"
      BY <2>1 DEF Event
    <2> QED BY <2>1, <2>2
  <1>2. "open" \notin Ways /\ "open" \notin Clients /\ \A way \in Ways : way \notin Clients
    BY DEF AttachmentAssumption, Ways
  <1>3. CASE w.by = "open" /\ opening[w.of] = "detaching"
    BY <1>1, <1>2, <1>3 DEF GoesOn
  <1>4. CASE w.by = "open" /\ opening[w.of] # "detaching"
    BY <1>2, <1>4 DEF GoesOn
  <1>5. CASE w.by \in Ways
    BY <1>2, <1>5 DEF GoesOn
  <1>6. CASE w.by \in Clients /\ w.by \notin Ways /\ w.by # "open"
    BY <1>6 DEF GoesOn
  <1>7. CASE w.by \notin Clients /\ w.by \notin Ways /\ w.by # "open"
    BY <1>7 DEF GoesOn
  <1> QED BY <1>3, <1>4, <1>5, <1>6, <1>7

\* What the actions do to the events and their numbers.
LEMMA ReplayPersist ==
    ASSUME AttachmentAssumption, AttachmentInv, ReplayInv, Persist
    PROVE  ReplayInv'
  <1>1. chain # <<>>
    BY DEF Persist
  <1>2. PICK w \in QueuedWrite : w = Head(chain) /\ WriteSound(w) /\ w.of \in Terminals
    BY <1>1, HeadOf
  <1>3. PICK n \in Nat : n = stored[w.of].cursor + 1 /\ n > 0
    <2>1. stored[w.of] \in Stored
      BY <1>2, RecordOf DEF AttachmentInv
    <2>2. PICK m \in Nat : m = stored[w.of].cursor
      BY <2>1 DEF Stored
    <2>3. m + 1 \in Nat /\ m + 1 > 0 /\ m + 1 = stored[w.of].cursor + 1
      BY <2>2
    <2> QED BY <2>3
  <1>4. stored \in [Terminals -> Stored] /\ kept \in Seq(Kept) /\ slips \in SUBSET {"sessions", "torn"}
    BY DEF AttachmentInv, FileTypes, HostTypes, Kept
  <1>5. CASE w.do = "store"
    <2>1. /\ stored' = [stored EXCEPT ![w.of] = w.to] /\ GoesOn(w, Tail(chain)) /\ kept' = kept
          /\ slips' = IF stored[w.of] = w.from THEN slips ELSE slips \cup {"sessions"}
      BY <1>2, <1>5 DEF Persist
    <2>2. Calm' => Calm
      BY <2>1 DEF Calm
    <2>3. ASSUME Calm', NEW t \in Terminals PROVE Newest(t)' = Newest(t)
      <3>1. stored[w.of] = w.from
        BY <2>1, <2>3 DEF Calm
      <3>2. w.to.cursor = w.from.cursor
        BY <1>2, <1>5 DEF WriteSound
      <3>3. stored'[t].cursor = stored[t].cursor
        BY <1>4, <2>1, <3>1, <3>2
      <3>4. ~ Counting(t)'
        BY <1>1, <2>1, SettleQueue, CountingGone
      <3>5. ~ Counting(t)
        BY <1>2, <1>5 DEF Counting
      <3> QED BY <3>3, <3>4, <3>5, NewestKept
    <2> QED BY <2>1, <2>2, <2>3, ReplayKept
  <1>6. CASE w.do = "event"
    <2>1. PICK e : e = [of |-> w.of, cursor |-> n]
      OBVIOUS
    <2>2. PICK all : all = Append(kept, e)
      OBVIOUS
    <2>3. PICK v : v = [w EXCEPT !.do = "count"]
      OBVIOUS
    <2>4. /\ kept' = Retain(w.of, all) /\ chain' = <<v>> \o Tail(chain)
          /\ UNCHANGED <<stored, slips>>
      BY <1>2, <1>3, <1>6, <2>1, <2>2, <2>3 DEF Persist
    <2>5. e \in Kept /\ e.of = w.of /\ e.cursor = n
      BY <1>2, <2>1 DEF Kept
    <2>6. all \in Seq(Kept) /\ Len(all) >= 1
      <3>1. all \in Seq(Kept) /\ Len(all) = Len(kept) + 1 /\ Len(kept) \in Nat
        BY <1>4, <2>2, <2>5, AppendProperties
      <3> QED BY <3>1
    <2>7. v.do = "count" /\ v.of = w.of /\ v.by = w.by /\ v \in QueuedWrite
      BY <1>2, <2>3 DEF QueuedWrite
    <2>8. chain' # <<>> /\ Head(chain') = v
      <3>1. PICK q \in Seq(QueuedWrite) : q = chain /\ q # <<>> /\ InTurn(q)
        BY <1>1 DEF AttachmentInv, FileTypes
      <3>2. v.of = Head(q).of /\ v.by = Head(q).by
        BY <1>2, <2>7, <3>1
      <3>3. <<v>> \o Tail(q) # <<>> /\ Head(<<v>> \o Tail(q)) = v
        BY <2>7, <3>1, <3>2, Headed
      <3> QED BY <2>4, <3>1, <3>3
    <2>9. ASSUME Calm', NEW t \in Terminals PROVE Sequel(kept, t, Newest(t))'
      <3>1. PICK list \in Seq(Kept) : list = kept /\ Sequel(list, t, Newest(t))
        <4>1. Calm
          BY <2>4, <2>9 DEF Calm
        <4> QED BY <1>4, <4>1 DEF ReplayInv
      <3>2. ~ Counting(t) /\ (Counting(t)' <=> t = w.of)
        BY <1>2, <1>6, <2>7, <2>8 DEF Counting
      <3>3. PICK top \in Nat : top = stored[t].cursor
        <4>1. stored[t] \in Stored
          BY <1>4
        <4> QED BY <4>1 DEF Stored
      <3>4. Newest(t) = top
        BY <3>2, <3>3 DEF Newest
      <3>5. PICK new \in Nat : new = IF t = w.of THEN n ELSE top
        BY <1>3
      <3>6. Newest(t)' = new
        BY <1>3, <2>4, <3>2, <3>3, <3>5 DEF Newest
      <3>7. Sequel(all, t, new)
        <4>1. CASE t = w.of
          <5>1. new = n /\ new - 1 = top
            <6>1. n = top + 1
              BY <1>3, <3>3, <4>1
            <6>2. new = n
              BY <3>5, <4>1
            <6> QED BY <6>1, <6>2, <3>3
          <5>2. e.of = t /\ e.cursor = new /\ new > 0
            BY <1>3, <2>5, <4>1, <5>1
          <5>3. Sequel(list, t, new - 1)
            BY <3>1, <3>4, <5>1
          <5> QED BY <2>2, <2>5, <3>1, <5>2, <5>3, SequelAppended
        <4>2. CASE t # w.of
          <5>1. e.of # t /\ Sequel(list, t, new)
            BY <2>5, <3>1, <3>4, <3>5, <4>2
          <5> QED BY <2>2, <2>5, <3>1, <5>1, SequelAppended
        <4> QED BY <4>1, <4>2
      <3>8. PICK r : r = Retain(w.of, all) /\ Sequel(r, t, new)
        BY <2>6, <3>7, SequelRetained
      <3>9. kept' = r
        BY <2>4, <3>8
      <3> QED BY <3>6, <3>8, <3>9 DEF Sequel
    <2> QED BY <2>9 DEF ReplayInv
  <1>7. CASE w.do = "count"
    <2>1. /\ stored' = [stored EXCEPT ![w.of].cursor = n] /\ GoesOn(w, Tail(chain)) /\ kept' = kept /\ slips' = slips
      BY <1>2, <1>3, <1>7 DEF Persist
    <2>2. Calm' => Calm
      BY <2>1 DEF Calm
    <2>3. ASSUME NEW t \in Terminals PROVE Newest(t)' = Newest(t)
      <3>1. ~ Counting(t)'
        BY <1>1, <2>1, SettleQueue, CountingGone
      <3>2. stored[t] \in Stored
        BY <1>4
      <3>3. CASE t = w.of
        <4>1. stored'[t].cursor = n
          BY <1>4, <2>1, <3>2, <3>3 DEF Stored
        <4>2. Counting(t)
          BY <1>1, <1>2, <1>7, <3>3 DEF Counting
        <4>3. n + 0 = n
          BY <1>3
        <4> QED BY <1>3, <3>1, <3>3, <4>1, <4>2, <4>3 DEF Newest
      <3>4. CASE t # w.of
        <4>1. stored'[t].cursor = stored[t].cursor
          BY <1>4, <2>1, <3>4
        <4>2. ~ Counting(t)
          BY <1>2, <3>4 DEF Counting
        <4> QED BY <3>1, <4>1, <4>2, NewestKept
      <3> QED BY <3>3, <3>4
    <2> QED BY <2>1, <2>2, <2>3, ReplayKept
  <1> QED BY <1>2, <1>5, <1>6, <1>7 DEF QueuedWrite

\* A write that is given up, alone or with all the others.
LEMMA ReplayGivenUp ==
    ASSUME AttachmentInv, ReplayInv, UNCHANGED <<kept, stored>>, chain # <<>>,
           slips' = IF Head(chain).do = "count" THEN slips \cup {"torn"} ELSE slips,
           \A t \in Terminals : ~ Counting(t)'
    PROVE  ReplayInv'
  <1>1. Calm' => Calm /\ Head(chain).do # "count"
    BY DEF Calm
  <1>2. ASSUME Calm', NEW t \in Terminals PROVE Newest(t)' = Newest(t)
    <2>1. ~ Counting(t)
      BY <1>1, <1>2 DEF Counting
    <2>2. stored'[t].cursor = stored[t].cursor
      OBVIOUS
    <2> QED BY <2>1, <2>2, NewestKept
  <1> QED BY <1>1, <1>2, ReplayKept

LEMMA ReplayFails ==
    ASSUME AttachmentInv, ReplayInv, Fails
    PROVE  ReplayInv'
  <1>1. UNCHANGED <<kept, stored>>
    BY DEF Fails
  <1>2. CASE PersistFails
    <2>1. PICK w : w = Head(chain)
      OBVIOUS
    <2>2. chain # <<>> /\ slips' = IF w.do = "count" THEN slips \cup {"torn"} ELSE slips
      BY <1>2, <2>1 DEF PersistFails
    <2>3. PICK v : v = Event(w.of, "open")
      OBVIOUS
    <2>4. v.do # "count"
      BY <2>3 DEF Event
    <2>5. chain' = Tail(chain) \/ chain' = Append(Tail(chain), v)
      BY <1>2, <2>1, <2>3 DEF PersistFails
    <2>6. \A t \in Terminals : ~ Counting(t)'
      BY <2>2, <2>4, <2>5, CountingGone
    <2> QED BY <1>1, <2>1, <2>2, <2>6, ReplayGivenUp
  <1>3. CASE StepFails
    <2>1. UNCHANGED <<chain, slips>>
      BY <1>3 DEF StepFails
    <2> QED BY <1>1, <2>1, ReplayElsewhere
  <1> QED BY <1>2, <1>3 DEF Fails

LEMMA ReplayHost ==
    ASSUME AttachmentInv, ReplayInv, Withdraw \/ Contain \/ Shutdown \/ Quit \/ StopHost \/ Restart \/ Recover
    PROVE  ReplayInv'
  <1>1. CASE Withdraw \/ Contain \/ Shutdown
    <2>1. UNCHANGED <<kept, stored, slips, chain>>
      BY <1>1 DEF Withdraw, Contain, Shutdown, files
    <2> QED BY <2>1, ReplayElsewhere
  <1>2. CASE Quit \/ StopHost
    <2>1. /\ UNCHANGED <<kept, stored>> /\ chain' = <<>>
          /\ slips' = IF chain # <<>> /\ Head(chain).do = "count" THEN slips \cup {"torn"} ELSE slips
      BY <1>2 DEF Quit, StopHost, Down
    <2>2. \A t \in Terminals : ~ Counting(t)'
      BY <2>1 DEF Counting
    <2>3. CASE chain # <<>>
      BY <2>1, <2>2, <2>3, ReplayGivenUp
    <2>4. CASE chain = <<>>
      BY <2>1, <2>4, ReplayElsewhere
    <2> QED BY <2>3, <2>4
  <1>3. CASE Restart
    <2>1. /\ stored' = [t \in Terminals |-> IF t \in Interrupted THEN [stored[t] EXCEPT !.status = "failed"]
                                            ELSE stored[t]]
          /\ kept' = kept /\ slips' = slips /\ chain = <<>>
      BY <1>3 DEF Restart, recovery, AttachmentInv
    <2>2. ASSUME NEW t \in Terminals PROVE Newest(t)' = Newest(t)
      <3>1. stored[t] \in Stored
        BY DEF AttachmentInv, FileTypes
      <3>2. stored'[t].cursor = stored[t].cursor
        BY <2>1, <3>1 DEF Stored
      <3>3. ~ Counting(t)
        BY <2>1 DEF Counting
      <3>4. ~ Counting(t)'
        <4>1. PICK order : chain' = [i \in DOMAIN order |-> Event(order[i], "host")]
          BY <1>3 DEF Restart
        <4>2. PICK q : q = chain' /\ \A i \in DOMAIN q : q[i] = Event(order[i], "host")
          BY <4>1
        <4>3. \A i \in DOMAIN q : q[i].do # "count"
          BY <4>2 DEF Event
        <4>4. q \in Seq(QueuedWrite)
          BY <4>2, AttachmentAssumption, <1>3, RestartStep DEF AttachmentInv, FileTypes
        <4>5. q # <<>> => Head(q) = q[1] /\ 1 \in DOMAIN q
          <5>1. PICK l \in Nat : l = Len(q) /\ DOMAIN q = 1 .. l
            BY <4>4
          <5> QED BY <4>4, <5>1, NotEmpty
        <4> QED BY <4>2, <4>3, <4>5 DEF Counting
      <3> QED BY <3>2, <3>3, <3>4, NewestKept
    <2>3. Calm' => Calm
      BY <2>1 DEF Calm
    <2> QED BY <2>1, <2>2, <2>3, ReplayKept
  <1>4. CASE Recover
    <2>1. UNCHANGED <<kept, stored, slips, chain>>
      BY <1>4 DEF Recover, recovery
    <2> QED BY <2>1, ReplayElsewhere
  <1> QED BY <1>1, <1>2, <1>3, <1>4

LEMMA ReplayTerminal ==
    ASSUME AttachmentInv, ReplayInv, NEW t \in Terminals,
           StartTerminal(t) \/ StartSteps(t) \/ EndSteps(t) \/ Exit(t) \/ Output(t)
    PROVE  ReplayInv'
  <1>1. UNCHANGED <<kept, stored, slips>>
    BY DEF StartTerminal, StartSteps, RecordStart, Spawn, SpawnFails, Take, EndSteps, ReadSession, StoreOutcome,
           CloseLeases, Exit, Output, unopened, unended, files
  <1>2. chain' = chain \/ (\E u, by : chain' = Append(chain, Event(u, by)))
                       \/ (\E u, by, from, to : chain' = Append(chain, Store(u, by, from, to)))
    BY DEF StartTerminal, StartSteps, RecordStart, Spawn, SpawnFails, Take, EndSteps, ReadSession, StoreOutcome,
           CloseLeases, Exit, Output, files
  <1>3. \A u, by : Event(u, by).do # "count"
    BY DEF Event
  <1>4. \A u, by, from, to : Store(u, by, from, to).do # "count"
    BY DEF Store
  <1>5. chain' = chain \/ \E w : w.do # "count" /\ chain' = Append(chain, w)
    BY <1>2, <1>3, <1>4
  <1> QED BY <1>1, <1>5, ReplayElsewhere

LEMMA ReplayCall ==
    ASSUME AttachmentInv, ReplayInv, NEW c \in Clients, Call(c) \/ CallSteps(c)
    PROVE  ReplayInv'
  <1>1. UNCHANGED <<kept, stored, slips>>
    BY DEF Call, CallSteps, Expire, Check, Attach, Detach, WriteAndReturn, AssertAuthority, Write, Cancel, Resize,
           uncalled, files
  <1>2. chain' = chain \/ \E u, by, from, to : chain' = Append(chain, Store(u, by, from, to))
    BY DEF Call, CallSteps, Expire, Check, Attach, Detach, WriteAndReturn, AssertAuthority, Write, Cancel, Resize,
           files
  <1>3. \A u, by, from, to : Store(u, by, from, to).do # "count"
    BY DEF Store
  <1>4. chain' = chain \/ \E w : w.do # "count" /\ chain' = Append(chain, w)
    BY <1>2, <1>3
  <1> QED BY <1>1, <1>4, ReplayElsewhere

LEMMA ReplayStep ==
    ASSUME AttachmentAssumption, AttachmentInv, ReplayInv, [AttachmentNext]_attachmentVars
    PROVE  ReplayInv'
  <1>1. ASSUME NEW l \in DOMAIN leases, TimePasses(l)
        PROVE  ReplayInv'
    <2>1. UNCHANGED <<kept, stored, slips, chain>>
      BY <1>1 DEF TimePasses, files
    <2> QED BY <2>1, ReplayElsewhere
  <1>2. CASE UNCHANGED attachmentVars
    <2>1. UNCHANGED <<kept, stored, slips, chain>>
      BY <1>2 DEF attachmentVars, files
    <2> QED BY <2>1, ReplayElsewhere
  <1> QED BY <1>1, <1>2, ReplayTerminal, ReplayCall, ReplayPersist, ReplayFails, ReplayHost DEF AttachmentNext

LEMMA ReplayBegins ==
    ASSUME AttachmentInit
    PROVE  ReplayInv
  <1>1. PICK list : list = kept /\ list = <<>>
    BY DEF AttachmentInit
  <1>2. DOMAIN list = {}
    BY <1>1
  <1>3. \A t \in Terminals : Sequel(list, t, Newest(t))
    BY <1>2 DEF Sequel
  <1> QED BY <1>1, <1>3 DEF ReplayInv

LEMMA InvClients ==
    ASSUME AttachmentInv, OwnersInv, ReplayInv
    PROVE  ClientsInv
  <1>1. \A l, m \in Owning : leases[l].client = leases[m].client
    <2>1. leases \in Seq(Lease)
      BY DEF AttachmentInv, ClientTypes
    <2> QED BY <2>1, OwningHolds DEF OwnersInv, OneOwner
  <1>2. ASSUME Calm, NEW t \in Terminals, KeptOf(t) # {}
        PROVE  /\ \A i, j \in KeptOf(t) : i < j /\ (i + 1) .. (j - 1) \cap KeptOf(t) = {} =>
                     kept[j].cursor = kept[i].cursor + 1
               /\ \A after \in 1 .. stored[t].cursor : ~ SnapshotRequired(t, after) =>
                     (after + 1) .. stored[t].cursor \subseteq {kept[i].cursor : i \in KeptOf(t)}
    <2>1. PICK top \in Nat : top = Newest(t) /\ stored[t].cursor <= top /\ stored[t].cursor \in Nat
      <3>1. stored[t] \in Stored
        BY DEF AttachmentInv, FileTypes
      <3>2. PICK m \in Nat : m = stored[t].cursor
        BY <3>1 DEF Stored
      <3>3. Newest(t) \in {m, m + 1}
        BY <3>2 DEF Newest
      <3> QED BY <3>2, <3>3
    <2>2. PICK S : S = KeptOf(t)
      OBVIOUS
    <2>3. \A i \in S : i \in DOMAIN kept /\ i \in Nat /\ kept[i].of = t /\ kept[i].cursor \in Nat
      <3>1. kept \in Seq(Kept)
        BY DEF AttachmentInv, FileTypes, Kept
      <3>2. \A i \in DOMAIN kept : i \in Nat /\ kept[i] \in Kept
        BY <3>1
      <3> QED BY <2>2, <3>2 DEF KeptOf, Kept
    <2>4. /\ \A i \in S : kept[i].cursor <= top
          /\ \A i, j \in S : i < j => kept[i].cursor < kept[j].cursor
          /\ \A i \in S : \A c \in kept[i].cursor .. top : \E j \in S : kept[j].cursor = c
      <3>1. Sequel(kept, t, top)
        BY <1>2, <2>1 DEF ReplayInv
      <3> QED BY <2>2, <3>1 DEF Sequel, KeptOf
    <2>5. ASSUME NEW i \in S, NEW j \in S, i < j, (i + 1) .. (j - 1) \cap S = {}
          PROVE  kept[j].cursor = kept[i].cursor + 1
      <3> SUFFICES ASSUME kept[j].cursor # kept[i].cursor + 1 PROVE FALSE
        OBVIOUS
      <3>1. PICK c \in Nat : c = kept[i].cursor + 1
        BY <2>3
      <3>2. kept[i].cursor < c /\ c < kept[j].cursor /\ c <= top
        BY <2>3, <2>4, <2>5, <3>1
      <3>3. PICK k \in S : kept[k].cursor = c
        BY <2>3, <2>4, <3>1, <3>2
      <3>4. i < k
        <4>1. i \in Nat /\ k \in Nat /\ kept[i].cursor \in Nat
          BY <2>3
        <4>2. i # k /\ ~ (k < i)
          BY <2>4, <3>2, <3>3, <4>1
        <4> QED BY <4>1, <4>2
      <3>5. k < j
        <4>1. j \in Nat /\ k \in Nat /\ kept[j].cursor \in Nat
          BY <2>3
        <4>2. j # k /\ ~ (j < k)
          BY <2>4, <3>2, <3>3, <4>1
        <4> QED BY <4>1, <4>2
      <3>6. k \in (i + 1) .. (j - 1)
        BY <2>3, <3>4, <3>5
      <3> QED BY <2>5, <3>6
    <2>6. ASSUME NEW after \in 1 .. stored[t].cursor, ~ SnapshotRequired(t, after),
                 NEW c \in (after + 1) .. stored[t].cursor
          PROVE  \E i \in S : kept[i].cursor = c
      <3>1. PICK i \in S : i = Min(S)
        <4>1. S \subseteq Nat /\ S # {}
          BY <1>2, <2>2, <2>3
        <4> QED BY <4>1, Earliest
      <3>2. ~ (kept[i].cursor > after + 1)
        <4>1. FirstKept(t) = kept[i].cursor
          BY <1>2, <2>2, <3>1 DEF FirstKept
        <4>2. after > 0
          OBVIOUS
        <4> QED BY <2>6, <4>1, <4>2 DEF SnapshotRequired
      <3>3. c \in kept[i].cursor .. top
        BY <2>1, <2>3, <3>2
      <3> QED BY <2>4, <3>3
    <2> QED BY <2>2, <2>5, <2>6
  <1> QED BY <1>1, <1>2 DEF ClientsInv, Calm

\* One client at most owns the terminals at a time, although nothing serializes the writes of
\* the leases; and unless a record was stored over a newer one or an event was left without
\* its cursor, a replay that asks for no snapshot has every event that followed, once and in
\* order.
THEOREM ClientsHold == AttachmentSpec => []ClientsInv
  <1>1. AttachmentInit => OwnersInv /\ ReplayInv
    BY OwnersBegin, ReplayBegins
  <1>2. AttachmentInv /\ OwnersInv /\ ReplayInv /\ [AttachmentNext]_attachmentVars => (OwnersInv /\ ReplayInv)'
    BY AttachmentAssumption, OwnersStep, ReplayStep
  <1>3. AttachmentInv /\ OwnersInv /\ ReplayInv => ClientsInv
    BY InvClients
  <1> QED BY <1>1, <1>2, <1>3, AttachmentsHold, PTL DEF AttachmentSpec

================================================================================
