------------------------ MODULE ProcessSupervisorProofs ------------------------
(***************************************************************************)
(* Proofs about ProcessSupervisor, for any set of runs and probes and any  *)
(* number of cancellations and failures: no process is alive and stored as *)
(* live without being under control, no outcome is visible before its      *)
(* evidence, and no late write leaves a run live whose process is gone.    *)
(***************************************************************************)
EXTENDS ProcessSupervisor, TLAPS, SequenceTheorems

-----------------------------------------------------------------------------
(* The inductive invariant.                                                 *)

\* A start awaits its own write, of which there is one at a time; an outcome is
\* written after its event.
Writes ==
    /\ \A i \in DOMAIN queue :
          /\ queue[i].by = "start" =>
                task[queue[i].run] = IF queue[i].status = "starting" THEN "prepending" ELSE "storing"
          /\ queue[i].by = "end" =>
                task[queue[i].run] # "none" /\ <<queue[i].run, queue[i].status>> \in evidence
    /\ \A i, j \in DOMAIN queue :
          (queue[i].by = "start" /\ queue[j].by = "start" /\ queue[i].run = queue[j].run) => i = j

\* Nothing is known of a run before it is asked for, and no process of it before
\* its start is evidenced.
Starts ==
    /\ \A r \in Runs :
          /\ task[r] = "none" => stored[r] = "none"
          /\ task[r] \in {"spawning", "storing", "feeding"} \/ child[r] # "none" =>
                <<r, "started">> \in evidence
    /\ \A c \in completions : task[c.run] # "none"

\* A process out of control has outlived an application, whose successor has not
\* served before its record said so.
Survivors ==
    \A r \in Runs : (child[r] = "alive" /\ r \notin active) =>
        task[r] = "done" /\ (host # "down" => stored[r] \notin Live)

\* While initialize records what it stored, nothing is stored as live.
Restarts ==
    /\ host # "recovering" => recovering = {}
    /\ host = "recovering" => \A r \in Runs : stored[r] \notin Live

Outcomes ==
    \A r \in Runs : stored[r] \in Outcome =>
        \/ <<r, stored[r]>> \in evidence
        \/ stored[r] = "failed" /\ (r \in recovering \/ stops > 0)

\* An end of r is in progress that will be stored after whatever a start of r still
\* writes.
EndsLast(r) ==
    \/ \E c \in completions : c.run = r
    \/ \E i \in DOMAIN queue :
          /\ queue[i].by = "end" /\ queue[i].run = r
          /\ \A j \in DOMAIN queue : (queue[j].by = "start" /\ queue[j].run = r) => j < i

\* A run that has lost its process while it is, or is yet to be, stored as live.
Gone(r) ==
    /\ task[r] \in {"storing", "feeding", "done"} /\ r \notin active
    /\ \/ stored[r] \in Live
       \/ \E i \in DOMAIN queue : queue[i].by = "start" /\ queue[i].run = r

Ends == (Running /\ failures = 0) => \A r \in Runs \ Probes : Gone(r) => EndsLast(r)

SupervisorInv ==
    /\ TypeOK /\ failures \in Nat /\ stops \in Nat
    /\ Writes /\ Starts /\ Survivors /\ Restarts /\ Outcomes /\ Ends

-----------------------------------------------------------------------------
(* The queue of writes.                                                     *)

USE DEF unstarted, records

LEMMA WriteFacts ==
    ASSUME NEW w \in Write
    PROVE  /\ w.run \in Runs /\ w.by \in {"start", "end"}
           /\ w.by = "start" => w.status \in Live
           /\ w.by = "end" => w.status \in Outcome
  BY DEF Write

LEMMA NewWrites ==
    ASSUME NEW r \in Runs
    PROVE  /\ StartWrite(r, "starting") \in Write /\ StartWrite(r, "running") \in Write
           /\ \A o \in Outcome : EndWrite(r, o) \in Write
  BY DEF Write, StartWrite, EndWrite, Live

LEMMA QueueFacts ==
    ASSUME TypeOK
    PROVE  /\ Len(queue) \in Nat /\ DOMAIN queue = 1..Len(queue) /\ queue \in Seq(Write)
           /\ \A i \in DOMAIN queue : queue[i] \in Write /\ queue[i].run \in Runs
  <1>1. Len(queue) \in Nat /\ DOMAIN queue = 1..Len(queue) /\ \A i \in DOMAIN queue : queue[i] \in Write
    BY DEF TypeOK
  <1> QED BY <1>1, WriteFacts DEF TypeOK

LEMMA AppendedWrite ==
    ASSUME TypeOK, NEW w \in Write, queue' = Append(queue, w)
    PROVE  /\ queue' \in Seq(Write) /\ DOMAIN queue' = 1..(Len(queue) + 1)
           /\ \A i \in DOMAIN queue : queue'[i] = queue[i]
           /\ queue'[Len(queue) + 1] = w
  BY QueueFacts

LEMMA SettledWrite ==
    ASSUME TypeOK, queue # <<>>, queue' = Tail(queue)
    PROVE  /\ 1 \in DOMAIN queue /\ Head(queue) = queue[1] /\ Head(queue) \in Write
           /\ queue' \in Seq(Write) /\ DOMAIN queue' = 1..(Len(queue) - 1)
           /\ \A i \in DOMAIN queue' : i + 1 \in DOMAIN queue /\ queue'[i] = queue[i + 1]
  <1>1. /\ Len(queue) \in Nat /\ DOMAIN queue = 1..Len(queue) /\ queue \in Seq(Write)
        /\ \A i \in DOMAIN queue : queue[i] \in Write
    BY QueueFacts
  <1>2. Len(queue) # 0
    BY <1>1
  <1>3. queue' \in Seq(Write) /\ Len(queue') = Len(queue) - 1 /\ \A i \in 1..Len(queue') : queue'[i] = queue[i + 1]
    BY <1>1, HeadTailProperties
  <1>4. DOMAIN queue' = 1..(Len(queue) - 1)
    BY <1>3
  <1>5. Head(queue) = queue[1]
    BY <1>1, <1>2
  <1> QED BY <1>1, <1>2, <1>3, <1>4, <1>5

Pending(r) == \E i \in DOMAIN queue : queue[i].by = "start" /\ queue[i].run = r

\* A start that awaits no write has none pending.
LEMMA NothingPending ==
    ASSUME Writes, NEW r \in Runs, task[r] \notin {"prepending", "storing"}
    PROVE  ~ Pending(r)
  BY DEF Writes, Pending

\* The writes stay ordered while nothing is added to them, if the tasks that go on
\* have none pending.
LEMMA WritesStay ==
    ASSUME TypeOK, Writes, evidence \subseteq evidence',
           queue' = queue \/ (queue # <<>> /\ queue' = Tail(queue)),
           \A r \in Runs : task'[r] = task[r] \/ (task'[r] # "none" /\ ~ Pending(r)')
    PROVE  Writes'
  <1>1. /\ Len(queue) \in Nat /\ DOMAIN queue = 1..Len(queue)
        /\ \A i \in DOMAIN queue : queue[i] \in Write /\ queue[i].run \in Runs
    BY QueueFacts
  <1>2. \E d \in {0, 1} : \A i \in DOMAIN queue' : i \in Nat /\ i + d \in DOMAIN queue /\ queue'[i] = queue[i + d]
    <2>1. CASE queue' = queue
      <3>1. \A i \in DOMAIN queue : i \in Nat /\ i + 0 \in DOMAIN queue /\ queue[i] = queue[i + 0]
        BY <1>1
      <3>2. \A i \in DOMAIN queue' : i \in Nat /\ i + 0 \in DOMAIN queue /\ queue'[i] = queue[i + 0]
        BY <2>1, <3>1
      <3> QED BY <3>2
    <2>2. CASE queue # <<>> /\ queue' = Tail(queue)
      <3>1. \A i \in DOMAIN queue' : i \in Nat /\ i + 1 \in DOMAIN queue /\ queue'[i] = queue[i + 1]
        <4>1. /\ DOMAIN queue' = 1..(Len(queue) - 1)
              /\ \A i \in DOMAIN queue' : i + 1 \in DOMAIN queue /\ queue'[i] = queue[i + 1]
          BY <2>2, SettledWrite
        <4>2. \A i \in DOMAIN queue' : i \in Nat
          BY <1>1, <4>1
        <4> QED BY <4>1, <4>2
      <3> QED BY <3>1
    <2> QED BY <2>1, <2>2
  <1>3. PICK d \in {0, 1} : \A i \in DOMAIN queue' : i \in Nat /\ i + d \in DOMAIN queue /\ queue'[i] = queue[i + d]
    BY <1>2
  <1>4. ASSUME NEW i \in DOMAIN queue'
        PROVE  /\ queue'[i].by = "start" =>
                     task'[queue'[i].run] = IF queue'[i].status = "starting" THEN "prepending" ELSE "storing"
               /\ queue'[i].by = "end" =>
                     task'[queue'[i].run] # "none" /\ <<queue'[i].run, queue'[i].status>> \in evidence'
    <2> DEFINE w == queue'[i]
    <2>1. i + d \in DOMAIN queue /\ w = queue[i + d] /\ w.run \in Runs
      BY <1>1, <1>3
    <2>2. /\ w.by = "start" => task[w.run] = IF w.status = "starting" THEN "prepending" ELSE "storing"
          /\ w.by = "end" => task[w.run] # "none" /\ <<w.run, w.status>> \in evidence
      BY <2>1 DEF Writes
    <2>3. ASSUME NEW r \in Runs, w.run = r, w.by = "start" PROVE Pending(r)'
      BY <2>3 DEF Pending
    <2>4. task'[w.run] = task[w.run] \/ (task'[w.run] # "none" /\ w.by # "start")
      BY <2>1, <2>3
    <2> HIDE DEF w
    <2>5. /\ w.by = "start" => task'[w.run] = IF w.status = "starting" THEN "prepending" ELSE "storing"
          /\ w.by = "end" => task'[w.run] # "none" /\ <<w.run, w.status>> \in evidence'
      BY <2>2, <2>4
    <2> QED BY <2>5 DEF w
  <1>5. ASSUME NEW i \in DOMAIN queue', NEW j \in DOMAIN queue',
               queue'[i].by = "start", queue'[j].by = "start", queue'[i].run = queue'[j].run
        PROVE  i = j
    <2>1. /\ i + d \in DOMAIN queue /\ queue'[i] = queue[i + d]
          /\ j + d \in DOMAIN queue /\ queue'[j] = queue[j + d]
      BY <1>3
    <2>2. i + d = j + d
      BY <1>5, <2>1 DEF Writes
    <2> QED BY <1>3, <2>2
  <1> QED BY <1>4, <1>5 DEF Writes

LEMMA WritesGrow ==
    ASSUME TypeOK, Writes, evidence \subseteq evidence', NEW w \in Write, queue' = Append(queue, w),
           w.by = "start" => (task'[w.run] = IF w.status = "starting" THEN "prepending" ELSE "storing")
                             /\ ~ Pending(w.run),
           w.by = "end" => task'[w.run] # "none" /\ <<w.run, w.status>> \in evidence',
           \A r \in Runs : task'[r] = task[r] \/ (task'[r] # "none" /\ ~ Pending(r))
    PROVE  Writes'
  <1>1. /\ Len(queue) \in Nat /\ DOMAIN queue = 1..Len(queue)
        /\ \A i \in DOMAIN queue : queue[i] \in Write /\ queue[i].run \in Runs
    BY QueueFacts
  <1>2. /\ DOMAIN queue' = 1..(Len(queue) + 1)
        /\ \A i \in DOMAIN queue : queue'[i] = queue[i]
        /\ queue'[Len(queue) + 1] = w
    BY AppendedWrite
  <1>3. ASSUME NEW i \in DOMAIN queue'
        PROVE  \/ i \in DOMAIN queue /\ queue'[i] = queue[i]
               \/ i = Len(queue) + 1 /\ queue'[i] = w
    BY <1>1, <1>2
  <1>4. ASSUME NEW i \in DOMAIN queue'
        PROVE  /\ queue'[i].by = "start" =>
                     task'[queue'[i].run] = IF queue'[i].status = "starting" THEN "prepending" ELSE "storing"
               /\ queue'[i].by = "end" =>
                     task'[queue'[i].run] # "none" /\ <<queue'[i].run, queue'[i].status>> \in evidence'
    <2>1. CASE i \in DOMAIN queue /\ queue'[i] = queue[i]
      <3>1. /\ queue[i].by = "start" =>
                  task[queue[i].run] = IF queue[i].status = "starting" THEN "prepending" ELSE "storing"
            /\ queue[i].by = "end" => task[queue[i].run] # "none" /\ <<queue[i].run, queue[i].status>> \in evidence
        BY <2>1 DEF Writes
      <3>2. queue[i].by = "start" => Pending(queue[i].run)
        BY <2>1 DEF Pending
      <3>3. task'[queue[i].run] = task[queue[i].run] \/ (task'[queue[i].run] # "none" /\ queue[i].by # "start")
        BY <2>1, <1>1, <3>2
      <3> QED BY <2>1, <3>1, <3>3
    <2>2. CASE queue'[i] = w
      BY <2>2
    <2> QED BY <1>3, <2>1, <2>2
  <1>5. ASSUME NEW i \in DOMAIN queue', NEW j \in DOMAIN queue',
               queue'[i].by = "start", queue'[j].by = "start", queue'[i].run = queue'[j].run
        PROVE  i = j
    <2>1. ASSUME NEW k \in DOMAIN queue, w.by = "start", queue[k].by = "start" PROVE queue[k].run # w.run
      BY <2>1 DEF Pending
    <2>2. CASE i \in DOMAIN queue /\ j \in DOMAIN queue
      <3>1. queue[i].by = "start" /\ queue[j].by = "start" /\ queue[i].run = queue[j].run
        BY <1>2, <1>5, <2>2
      <3> QED BY <2>2, <3>1 DEF Writes
    <2>3. CASE i \notin DOMAIN queue \/ j \notin DOMAIN queue
      BY <1>3, <1>5, <2>1, <2>3
    <2> QED BY <2>2, <2>3
  <1> QED BY <1>4, <1>5 DEF Writes

-----------------------------------------------------------------------------
(* What the steps share: processes are let go, and a start stumbles.        *)

\* Those let go are dead, and nothing is let go that was not under control.
LetsGo ==
    /\ child' \in [Runs -> {"none", "alive", "exited"}] /\ active' \subseteq active
    /\ \A r \in Runs : \/ child'[r] = child[r] /\ (r \in active => r \in active')
                       \/ child[r] = "alive" /\ child'[r] = "exited" /\ r \notin active'

\* Runs end: what was under control and is no longer has its end in progress, and so
\* may have a run that had none.
Released ==
    /\ UNCHANGED <<stored, evidence, queue, task, recovering, failures, stops>>
    /\ host' = host \/ (host = "up" /\ host' = "closing")
    /\ waited' \subseteq Runs /\ authority' \in BOOLEAN /\ contained' \in BOOLEAN
    /\ LetsGo
    /\ completions \subseteq completions' /\ completions' \subseteq Completion
    /\ \A c \in completions' : c \in completions \/ task[c.run] # "none"
    /\ \A r \in (active \ active') \ Probes : \E c \in completions' : c.run = r
    /\ Running \/ completions' = {}

LEMMA ReleasedInv ==
    ASSUME SupervisorInv, Released
    PROVE  SupervisorInv'
  <1> USE DEF SupervisorInv, Released
  <1>1. Running' <=> Running
    BY DEF Running
  <1>2. (host' = "down" <=> host = "down") /\ (host' = "recovering" <=> host = "recovering")
    BY DEF Running
  <1>3. TypeOK'
    <2>1. \A r \in active' : child'[r] = "alive" /\ task'[r] \in {"storing", "feeding", "done"}
      BY DEF TypeOK, LetsGo
    <2>2. ~ Running' => active' = {} /\ completions' = {} /\ queue' = <<>>
      BY <1>1 DEF TypeOK, LetsGo
    <2>3. active' \subseteq Runs
      BY DEF TypeOK, LetsGo
    <2>4. host' \in {"down", "recovering", "up", "closing"}
      BY DEF TypeOK
    <2> QED BY <2>1, <2>2, <2>3, <2>4 DEF TypeOK, LetsGo
  <1>4. Writes'
    BY DEF Writes
  <1>5. Starts'
    <2>1. \A r \in Runs : child'[r] # "none" => child[r] # "none"
      BY DEF LetsGo
    <2> QED BY <2>1 DEF Starts
  <1>6. Survivors'
    <2>1. \A r \in Runs : (child'[r] = "alive" /\ r \notin active') => (child[r] = "alive" /\ r \notin active)
      BY DEF LetsGo
    <2> QED BY <1>2, <2>1 DEF Survivors
  <1>7. Restarts'
    BY <1>2 DEF Restarts
  <1>8. Outcomes'
    BY DEF Outcomes
  <1>9. Ends'
    <2> SUFFICES ASSUME Running', failures = 0, NEW r \in Runs \ Probes, Gone(r)' PROVE EndsLast(r)'
      BY DEF Ends
    <2>1. EndsLast(r) => EndsLast(r)'
      BY DEF EndsLast
    <2>2. CASE r \in active
      <3>1. r \notin active'
        BY DEF Gone
      <3> QED BY <2>2, <3>1 DEF EndsLast
    <2>3. CASE r \notin active
      <3>1. Gone(r)
        BY <2>3 DEF Gone
      <3> QED BY <1>1, <2>1, <3>1 DEF Ends
    <2> QED BY <2>2, <2>3
  <1> QED BY <1>3, <1>4, <1>5, <1>6, <1>7, <1>8, <1>9

\* Something fails: one start may be over, and its run may be ended.
Stumbled ==
    /\ Running /\ UNCHANGED <<host, authority, contained, stored, evidence, recovering, stops>>
    /\ failures' = failures + 1
    /\ waited' \subseteq Runs
    /\ LetsGo
    /\ completions' \subseteq Completion
    /\ \A c \in completions' : c \in completions \/ task[c.run] # "none"
    /\ queue' \in Seq(Write) /\ task' \in [Runs -> Place]
    /\ \A r \in Runs : task'[r] = task[r] \/ (task[r] # "none" /\ task'[r] = "done")
    /\ Writes'

LEMMA StumbledInv ==
    ASSUME SupervisorInv, Stumbled
    PROVE  SupervisorInv'
  <1> USE DEF SupervisorInv, Stumbled
  <1>1. Running' /\ failures' \in Nat /\ failures' # 0
    BY DEF Running
  <1>2. TypeOK'
    <2>1. \A r \in active' : child'[r] = "alive" /\ task'[r] \in {"storing", "feeding", "done"}
      BY DEF TypeOK, LetsGo
    <2>2. active' \subseteq Runs
      BY DEF TypeOK, LetsGo
    <2> QED BY <1>1, <2>1, <2>2 DEF TypeOK, LetsGo
  <1>3. Starts'
    <2>1. \A r \in Runs : child'[r] # "none" => child[r] # "none"
      BY DEF LetsGo
    <2>2. \A r \in Runs : /\ task'[r] = "none" => task[r] = "none"
                          /\ task'[r] \in {"spawning", "storing", "feeding"} => task'[r] = task[r]
      OBVIOUS
    <2>3. ASSUME NEW c \in completions' PROVE task'[c.run] # "none"
      <3>1. c.run \in Runs /\ task[c.run] # "none"
        BY DEF Starts, Completion
      <3> QED BY <3>1, <2>2
    <2> QED BY <2>1, <2>2, <2>3 DEF Starts
  <1>4. Survivors'
    <2>1. \A r \in Runs : (child'[r] = "alive" /\ r \notin active') => (child[r] = "alive" /\ r \notin active)
      BY DEF LetsGo
    <2> QED BY <2>1 DEF Survivors
  <1>5. Restarts' /\ Outcomes'
    BY DEF Restarts, Outcomes
  <1>6. Ends'
    BY <1>1 DEF Ends
  <1> QED BY <1>1, <1>2, <1>3, <1>4, <1>5, <1>6

Ended ==
    /\ LetsGo /\ completions \subseteq completions' /\ completions' \subseteq Completion
    /\ \A c \in completions' : c \in completions \/ task[c.run] # "none"
    /\ \A r \in active \ active' : \E c \in completions' : c.run = r

LEMMA EndProcessesEnds ==
    ASSUME TypeOK, NEW S \in SUBSET Runs, NEW o \in Outcome, EndProcesses(S, o)
    PROVE  Ended
  <1>1. /\ child' = [r \in Runs |-> IF r \in S \cap active THEN "exited" ELSE child[r]]
        /\ active' = active \ S
        /\ completions' = completions \cup {End(r, o) : r \in S \cap active}
    BY DEF EndProcesses
  <1>2. \A r \in Runs : End(r, o) \in Completion /\ End(r, o).run = r
    BY DEF End, Completion
  <1>3. LetsGo
    BY <1>1 DEF TypeOK, LetsGo
  <1>4. completions' \subseteq Completion
    BY <1>1, <1>2 DEF TypeOK
  <1>5. \A c \in completions' : c \in completions \/ task[c.run] # "none"
    BY <1>1, <1>2 DEF TypeOK
  <1>6. ASSUME NEW r \in active \ active' PROVE \E c \in completions' : c.run = r
    <2>1. r \in S \cap active /\ r \in Runs
      BY <1>1 DEF TypeOK
    <2>2. End(r, o) \in completions'
      BY <1>1, <2>1
    <2> QED BY <1>2, <2>1, <2>2
  <1> QED BY <1>1, <1>3, <1>4, <1>5, <1>6 DEF Ended

LEMMA EndDetachedEnds ==
    ASSUME TypeOK, Starts, NEW r \in Runs, NEW o \in Outcome, EndDetached(r, o)
    PROVE  Ended /\ active' = active /\ (stored[r] \in Live => \E c \in completions' : c.run = r)
  <1>1. End(r, o) \in Completion /\ End(r, o).run = r
    BY DEF End, Completion
  <1>2. completions' = completions \/ (stored[r] \in Live /\ completions' = completions \cup {End(r, o)})
    BY DEF EndDetached
  <1>3. child' = child /\ active' = active
    BY DEF EndDetached
  <1>4. stored[r] \in Live => task[r] # "none"
    BY DEF Starts, Live
  <1>5. LetsGo
    BY <1>3 DEF LetsGo, TypeOK
  <1>6. completions' \subseteq Completion /\ \A c \in completions' : c \in completions \/ task[c.run] # "none"
    BY <1>1, <1>2, <1>4 DEF TypeOK
  <1>7. stored[r] \in Live => \E c \in completions' : c.run = r
    BY <1>1 DEF EndDetached
  <1> QED BY <1>2, <1>3, <1>5, <1>6, <1>7 DEF Ended

LEMMA EndRunEnds ==
    ASSUME TypeOK, Starts, NEW r \in Runs, NEW o \in Outcome, EndRun(r, o)
    PROVE  Ended
  BY EndProcessesEnds, EndDetachedEnds DEF EndRun

LEMMA RescueEnds ==
    ASSUME TypeOK, Starts, NEW r \in Runs, Rescue(r)
    PROVE  Ended
  <1>1. CASE r \in Probes
    <2>1. UNCHANGED <<child, active, completions>>
      BY <1>1 DEF Rescue
    <2> QED BY <2>1 DEF Ended, LetsGo, TypeOK
  <1>2. CASE r \notin Probes
    BY <1>2, EndRunEnds DEF Rescue, Outcome
  <1> QED BY <1>1, <1>2

-----------------------------------------------------------------------------
(* Each step.                                                               *)

LEMMA CancelInv ==
    ASSUME SupervisorInv, NEW r \in Runs, Cancel(r)
    PROVE  SupervisorInv'
  <1>1. Ended
    BY EndRunEnds DEF SupervisorInv, Cancel, Outcome
  <1>2. Released
    BY <1>1 DEF SupervisorInv, TypeOK, Released, Cancel, Running, Ended
  <1> QED BY <1>2, ReleasedInv

LEMMA TimeoutInv ==
    ASSUME SupervisorInv, NEW r \in Runs, Timeout(r) \/ PipeFails(r)
    PROVE  SupervisorInv'
  <1>1. Ended
    BY EndProcessesEnds DEF SupervisorInv, Timeout, PipeFails, Outcome
  <1>2. Released
    BY <1>1 DEF SupervisorInv, TypeOK, Released, Timeout, PipeFails, Ended
  <1> QED BY <1>2, ReleasedInv

LEMMA ExitInv ==
    ASSUME SupervisorInv, NEW r \in Runs, Exit(r)
    PROVE  SupervisorInv'
  <1>1. LetsGo
    BY DEF SupervisorInv, TypeOK, Exit, LetsGo
  <1>2. CASE r \in active
    <2>1. PICK o \in {"succeeded", "failed"} : completions' = completions \cup {End(r, o)}
      BY <1>2 DEF Exit
    <2>2. End(r, o) \in Completion /\ End(r, o).run = r /\ End(r, o) \in completions'
      BY <2>1 DEF End, Completion, Outcome
    <2>3. active \ active' \subseteq {r}
      BY DEF Exit
    <2>4. Running /\ task[r] # "none" /\ completions \subseteq Completion
      BY <1>2 DEF SupervisorInv, TypeOK
    <2>5. \A c \in completions' : c \in completions \/ task[c.run] # "none"
      BY <2>1, <2>2, <2>4
    <2> QED BY <1>1, <2>1, <2>2, <2>3, <2>4, <2>5, ReleasedInv DEF SupervisorInv, TypeOK, Released, Exit
  <1>3. CASE r \notin active
    <2>1. active' = active /\ completions' = completions
      BY <1>3 DEF Exit
    <2> QED BY <1>1, <2>1, ReleasedInv DEF SupervisorInv, TypeOK, Released, Exit
  <1> QED BY <1>2, <1>3

LEMMA CheckpointInv ==
    ASSUME SupervisorInv, NEW r \in Runs, Checkpoint(r)
    PROVE  SupervisorInv'
  <1>1. LetsGo
    BY DEF SupervisorInv, TypeOK, Checkpoint, LetsGo
  <1>2. (active \ active') \ Probes = {}
    BY DEF Checkpoint
  <1> QED BY <1>1, <1>2, ReleasedInv DEF SupervisorInv, TypeOK, Released, Checkpoint, Running

LEMMA AuthorityInv ==
    ASSUME SupervisorInv, Withdraw \/ Contain
    PROVE  SupervisorInv'
  <1>1. CASE Withdraw
    <2>1. LetsGo /\ active \ active' = {}
      BY <1>1 DEF SupervisorInv, TypeOK, Withdraw, LetsGo
    <2> QED BY <1>1, <2>1, ReleasedInv DEF SupervisorInv, TypeOK, Released, Withdraw
  <1>2. CASE Contain
    <2>1. Ended
      BY <1>2, EndProcessesEnds DEF SupervisorInv, Contain, Outcome
    <2> QED BY <1>2, <2>1, ReleasedInv DEF SupervisorInv, TypeOK, Released, Contain, Ended
  <1> QED BY <1>1, <1>2

LEMMA ShutdownInv ==
    ASSUME SupervisorInv, Shutdown
    PROVE  SupervisorInv'
  <1>1. Ended
    BY EndProcessesEnds DEF SupervisorInv, Shutdown, Outcome
  <1> QED BY <1>1, ReleasedInv DEF SupervisorInv, TypeOK, Released, Shutdown, Running, Ended

\* A write more, none of a start of x, leaves an end of x the last.
LEMMA EndsGrow ==
    ASSUME TypeOK, NEW w \in Write, queue' = Append(queue, w), NEW x \in Runs,
           w.by = "start" => w.run # x
    PROVE  /\ Pending(x)' => Pending(x)
           /\ EndsLast(x) => \/ EndsLast(x)'
                             \/ \E c \in completions \ completions' : c.run = x
           /\ w.by = "end" /\ w.run = x => EndsLast(x)'
  <1>1. Len(queue) \in Nat /\ DOMAIN queue = 1..Len(queue)
    BY QueueFacts
  <1>2. /\ DOMAIN queue' = 1..(Len(queue) + 1)
        /\ \A i \in DOMAIN queue : queue'[i] = queue[i]
        /\ queue'[Len(queue) + 1] = w
    BY AppendedWrite
  <1>3. \A j \in DOMAIN queue' : (queue'[j].by = "start" /\ queue'[j].run = x) =>
           (j \in DOMAIN queue /\ queue[j].by = "start" /\ queue[j].run = x)
    BY <1>1, <1>2
  <1>4. Pending(x)' => Pending(x)
    BY <1>3 DEF Pending
  <1>5. ASSUME NEW i \in DOMAIN queue, queue[i].by = "end", queue[i].run = x,
               \A j \in DOMAIN queue : (queue[j].by = "start" /\ queue[j].run = x) => j < i
        PROVE  EndsLast(x)'
    <2>1. i \in DOMAIN queue' /\ queue'[i].by = "end" /\ queue'[i].run = x
      BY <1>1, <1>2, <1>5
    <2>2. \A j \in DOMAIN queue' : (queue'[j].by = "start" /\ queue'[j].run = x) => j < i
      BY <1>3, <1>5
    <2> QED BY <2>1, <2>2 DEF EndsLast
  <1>6. ASSUME w.by = "end", w.run = x PROVE EndsLast(x)'
    <2> DEFINE n == Len(queue) + 1
    <2>1. n \in DOMAIN queue' /\ queue'[n].by = "end" /\ queue'[n].run = x
      BY <1>1, <1>2, <1>6
    <2>2. \A j \in DOMAIN queue' : (queue'[j].by = "start" /\ queue'[j].run = x) => j < n
      BY <1>1, <1>3
    <2> HIDE DEF n
    <2> QED BY <2>1, <2>2 DEF EndsLast
  <1>7. EndsLast(x) => \/ EndsLast(x)'
                       \/ \E c \in completions \ completions' : c.run = x
    <2>1. ASSUME NEW c \in completions, c.run = x, c \in completions' PROVE EndsLast(x)'
      BY <2>1 DEF EndsLast
    <2> QED BY <1>5, <2>1 DEF EndsLast
  <1> QED BY <1>4, <1>6, <1>7

\* The oldest write settles: an end of x is still the last, unless it was itself the
\* oldest and nothing of a start of x was behind it.
LEMMA EndsShrink ==
    ASSUME TypeOK, queue # <<>>, queue' = Tail(queue), UNCHANGED completions, NEW x \in Runs
    PROVE  /\ Pending(x)' => Pending(x)
           /\ (EndsLast(x) /\ (Pending(x)' \/ Head(queue).by = "start" \/ Head(queue).run # x)) => EndsLast(x)'
  <1>1. Len(queue) \in Nat /\ DOMAIN queue = 1..Len(queue)
    BY QueueFacts
  <1>2. /\ 1 \in DOMAIN queue /\ Head(queue) = queue[1] /\ DOMAIN queue' = 1..(Len(queue) - 1)
        /\ \A i \in DOMAIN queue' : i + 1 \in DOMAIN queue /\ queue'[i] = queue[i + 1]
    BY SettledWrite
  <1>3. Pending(x)' => \E j \in DOMAIN queue : queue[j].by = "start" /\ queue[j].run = x /\ j > 1
    <2> SUFFICES ASSUME NEW i \in DOMAIN queue', queue'[i].by = "start", queue'[i].run = x
                 PROVE  \E j \in DOMAIN queue : queue[j].by = "start" /\ queue[j].run = x /\ j > 1
      BY DEF Pending
    <2>1. i + 1 \in DOMAIN queue /\ queue'[i] = queue[i + 1] /\ i + 1 > 1
      BY <1>1, <1>2
    <2> QED BY <2>1
  <1>4. ASSUME NEW i \in DOMAIN queue, queue[i].by = "end", queue[i].run = x,
               \A j \in DOMAIN queue : (queue[j].by = "start" /\ queue[j].run = x) => j < i,
               Pending(x)' \/ Head(queue).by = "start" \/ Head(queue).run # x
        PROVE  EndsLast(x)'
    <2>1. i # 1
      <3>1. CASE Pending(x)'
        <4>1. PICK j \in DOMAIN queue : queue[j].by = "start" /\ queue[j].run = x /\ j > 1
          BY <1>3, <3>1
        <4> QED BY <1>1, <1>4, <4>1
      <3>2. CASE Head(queue).by = "start" \/ Head(queue).run # x
        BY <1>2, <1>4, <3>2
      <3> QED BY <1>4, <3>1, <3>2
    <2> DEFINE k == i - 1
    <2>2. k \in DOMAIN queue' /\ k + 1 = i /\ i \in Nat
      BY <1>1, <1>2, <2>1
    <2>3. queue'[k].by = "end" /\ queue'[k].run = x
      BY <1>2, <1>4, <2>2
    <2>4. ASSUME NEW j \in DOMAIN queue', queue'[j].by = "start", queue'[j].run = x PROVE j < k
      <3>1. j + 1 \in DOMAIN queue /\ queue'[j] = queue[j + 1] /\ j \in Nat
        BY <1>1, <1>2
      <3>2. j + 1 < i
        BY <1>4, <2>4, <3>1
      <3> QED BY <2>2, <3>1, <3>2
    <2> HIDE DEF k
    <2> QED BY <2>2, <2>3, <2>4 DEF EndsLast
  <1>5. Pending(x)' => Pending(x)
    BY <1>3 DEF Pending
  <1>6. (\E c \in completions : c.run = x) => EndsLast(x)'
    BY DEF EndsLast
  <1> QED BY <1>4, <1>5, <1>6 DEF EndsLast

LEMMA StartInv ==
    ASSUME SupervisorInv, NEW r \in Runs, Start(r)
    PROVE  SupervisorInv'
  <1> USE DEF SupervisorInv
  <1>1. /\ Running /\ Running' /\ host' = host /\ task[r] = "none" /\ stored[r] = "none"
        /\ ~ Pending(r) /\ r \notin active
        /\ UNCHANGED <<unstarted, stored, evidence, child, active, completions>>
    BY NothingPending DEF Start, Running, Starts, TypeOK
  <1>2. /\ task' \in [Runs -> Place] /\ task'[r] \in {"done", "prepending"}
        /\ \A x \in Runs : x # r => task'[x] = task[x]
    BY DEF Start, Go, TypeOK, Place
  <1>3. \/ task'[r] = "done" /\ queue' = queue
        \/ task'[r] = "prepending" /\ queue' = Append(queue, StartWrite(r, "starting"))
    BY DEF Start, Go, TypeOK
  <1>4. queue' \in Seq(Write)
    BY <1>3, NewWrites, QueueFacts, AppendedWrite
  <1>5. TypeOK'
    BY <1>1, <1>2, <1>4 DEF TypeOK
  <1>6. Writes'
    <2>1. \A x \in Runs : task'[x] = task[x] \/ (task'[x] # "none" /\ ~ Pending(x))
      BY <1>1, <1>2
    <2>2. CASE queue' = queue
      <3>1. \A x \in Runs : Pending(x)' <=> Pending(x)
        BY <2>2 DEF Pending
      <3> QED BY <1>1, <2>1, <2>2, <3>1, WritesStay
    <2>3. CASE task'[r] = "prepending" /\ queue' = Append(queue, StartWrite(r, "starting"))
      <3> DEFINE w == StartWrite(r, "starting")
      <3>1. w \in Write /\ w.by = "start" /\ w.run = r /\ w.status = "starting"
        BY NewWrites DEF StartWrite
      <3> HIDE DEF w
      <3>2. queue' = Append(queue, w)
        BY <2>3 DEF w
      <3> QED BY <1>1, <2>1, <2>3, <3>1, <3>2, WritesGrow
    <2> QED BY <1>3, <2>2, <2>3
  <1>7. Starts'
    BY <1>1, <1>2 DEF Starts, TypeOK, Completion
  <1>8. Survivors'
    BY <1>1, <1>2 DEF Survivors
  <1>9. Restarts' /\ Outcomes'
    BY <1>1 DEF Restarts, Outcomes
  <1>10. Ends'
    <2> SUFFICES ASSUME failures = 0, NEW x \in Runs \ Probes, Gone(x)' PROVE EndsLast(x)'
      BY <1>1 DEF Ends
    <2>1. CASE queue' = queue
      <3>1. (Pending(x)' <=> Pending(x)) /\ (EndsLast(x)' <=> EndsLast(x))
        BY <1>1, <2>1 DEF Pending, EndsLast
      <3>2. x # r
        BY <1>1, <3>1 DEF Gone, Pending, Live
      <3>3. Gone(x)
        BY <1>1, <1>2, <2>1, <3>2 DEF Gone
      <3> QED BY <1>1, <3>1, <3>3 DEF Ends
    <2>2. CASE task'[r] = "prepending" /\ queue' = Append(queue, StartWrite(r, "starting"))
      <3>1. x # r
        BY <2>2 DEF Gone
      <3>2. (Pending(x)' => Pending(x)) /\ (EndsLast(x) => EndsLast(x)')
        <4> DEFINE w == StartWrite(r, "starting")
        <4>1. w \in Write /\ w.run = r
          BY NewWrites DEF StartWrite
        <4> HIDE DEF w
        <4>2. queue' = Append(queue, w)
          BY <2>2 DEF w
        <4> QED BY <1>1, <3>1, <4>1, <4>2, EndsGrow
      <3>3. Gone(x)
        BY <1>1, <1>2, <3>1, <3>2 DEF Gone, Pending
      <3> QED BY <1>1, <3>2, <3>3 DEF Ends
    <2> QED BY <1>3, <2>1, <2>2
  <1> QED BY <1>1, <1>5, <1>6, <1>7, <1>8, <1>9, <1>10

\* A start goes on without a write: its event is appended, its process does not start,
\* or its input is flushed.
LEMMA GoesOnInv ==
    ASSUME SupervisorInv, NEW r \in Runs, RecordStart(r) \/ SpawnFails(r) \/ Feed(r)
    PROVE  SupervisorInv'
  <1> USE DEF SupervisorInv
  <1>1. /\ Running /\ Running' /\ host' = host /\ UNCHANGED <<unstarted, stored, queue>>
        /\ task[r] \in {"recording", "spawning", "feeding"}
        /\ task' \in [Runs -> Place] /\ task'[r] \in {"spawning", "done"}
        /\ \A x \in Runs : x # r => task'[x] = task[x]
    BY DEF RecordStart, SpawnFails, Feed, At, Running, Go, TypeOK, Place
  <1>2. /\ evidence \subseteq evidence' /\ evidence' \subseteq Runs \X ({"started"} \cup Outcome)
        /\ task'[r] = "spawning" => <<r, "started">> \in evidence'
    BY DEF RecordStart, SpawnFails, Feed, At, Go, TypeOK
  <1>3. Ended
    <2>1. CASE SpawnFails(r)
      BY <2>1, RescueEnds DEF SpawnFails
    <2>2. CASE UNCHANGED <<child, active, completions>>
      BY <2>2 DEF Ended, LetsGo, TypeOK
    <2> QED BY <2>1, <2>2 DEF RecordStart, Feed
  <1>4. \A x \in Runs : /\ (child'[x] = "alive" /\ x \notin active') => (child[x] = "alive" /\ x \notin active)
                        /\ child'[x] # "none" => child[x] # "none"
                        /\ x \in active' => x \in active /\ child'[x] = "alive"
    BY <1>3 DEF Ended, LetsGo, TypeOK
  <1>5. TypeOK'
    <2>1. \A x \in active' : child'[x] = "alive" /\ task'[x] \in {"storing", "feeding", "done"}
      <3>1. active' \subseteq Runs /\ \A x \in active : task[x] \in {"storing", "feeding", "done"}
        BY <1>3 DEF Ended, LetsGo, TypeOK
      <3>2. task[r] # "feeding" => r \notin active'
        BY <1>1, <1>3, <3>1 DEF Ended, LetsGo
      <3>3. task[r] = "feeding" => task'[r] = "done"
        BY <1>1 DEF RecordStart, SpawnFails, Feed, At, Go, TypeOK
      <3> QED BY <1>1, <1>3, <1>4, <3>1, <3>2, <3>3 DEF Ended, LetsGo
    <2>2. /\ active' \subseteq Runs /\ child' \in [Runs -> {"none", "alive", "exited"}]
          /\ completions' \subseteq Completion
      BY <1>3 DEF Ended, LetsGo, TypeOK
    <2> QED BY <1>1, <1>2, <2>1, <2>2 DEF TypeOK
  <1>6. \A x \in Runs : task'[x] = task[x] \/ (task'[x] # "none" /\ ~ Pending(x)')
    <2>1. ~ Pending(r)'
      BY <1>1, NothingPending DEF Pending
    <2> QED BY <1>1, <2>1
  <1>7. Writes'
    BY <1>1, <1>2, <1>6, WritesStay
  <1>8. Starts'
    <2>1. \A c \in completions' : c.run \in Runs /\ task[c.run] # "none"
      BY <1>3 DEF Ended, Starts, Completion
    <2> QED BY <1>1, <1>2, <1>4, <2>1 DEF Starts
  <1>9. Survivors'
    BY <1>1, <1>4 DEF Survivors
  <1>10. Restarts' /\ Outcomes'
    BY <1>1, <1>2 DEF Restarts, Outcomes
  <1>11. Ends'
    <2> SUFFICES ASSUME failures = 0, NEW x \in Runs \ Probes, Gone(x)' PROVE EndsLast(x)'
      BY <1>1 DEF Ends
    <2>1. EndsLast(x) => EndsLast(x)'
      BY <1>1, <1>3 DEF Ended, EndsLast
    <2>2. CASE x \in active
      <3>1. x \notin active'
        BY DEF Gone
      <3> QED BY <1>3, <2>2, <3>1 DEF Ended, EndsLast
    <2>3. CASE Gone(x)
      BY <1>1, <2>1, <2>3 DEF Ends
    <2>4. CASE x \notin active /\ ~ Gone(x)
      <3>1. x = r /\ task[r] \notin {"storing", "feeding", "done"} /\ task'[r] = "done"
        BY <1>1, <2>4 DEF Gone
      <3>2. SpawnFails(r)
        BY <3>1 DEF RecordStart, Feed, At, Go, TypeOK
      <3>3. stored[r] \in Live
        BY <1>1, <3>1, NothingPending DEF Gone, Pending
      <3>4. EndDetached(r, "failed")
        BY <2>4, <3>1, <3>2 DEF SpawnFails, Rescue, EndRun
      <3>5. \E c \in completions' : c.run = r
        BY <3>3, <3>4, EndDetachedEnds DEF Outcome
      <3> QED BY <3>1, <3>5 DEF EndsLast
    <2> QED BY <2>2, <2>3, <2>4
  <1> QED BY <1>1, <1>5, <1>7, <1>8, <1>9, <1>10, <1>11

LEMMA SpawnInv ==
    ASSUME SupervisorInv, NEW r \in Runs, Spawn(r)
    PROVE  SupervisorInv'
  <1> USE DEF SupervisorInv
  <1> DEFINE w == StartWrite(r, "running")
  <1>1. /\ Running /\ Running' /\ host' = host /\ UNCHANGED <<unstarted, stored, evidence, completions>>
        /\ task[r] = "spawning" /\ task' \in [Runs -> Place] /\ task'[r] = "storing"
        /\ \A x \in Runs : x # r => task'[x] = task[x]
    BY DEF Spawn, At, Running, Go, TypeOK, Place
  <1>2. /\ child' \in [Runs -> {"none", "alive", "exited"}] /\ child'[r] = "alive"
        /\ \A x \in Runs : x # r => child'[x] = child[x]
        /\ active' = active \cup {r}
    BY DEF Spawn, TypeOK
  <1>3. w \in Write /\ w.by = "start" /\ w.run = r /\ w.status = "running" /\ queue' = Append(queue, w)
    BY NewWrites DEF StartWrite, Spawn
  <1> HIDE DEF w
  <1>4. ~ Pending(r)
    BY <1>1, NothingPending
  <1>5. TypeOK'
    <2>1. queue' \in Seq(Write)
      BY <1>3, AppendedWrite
    <2> QED BY <1>1, <1>2, <2>1 DEF TypeOK
  <1>6. Writes'
    BY <1>1, <1>3, <1>4, WritesGrow
  <1>7. Starts'
    BY <1>1, <1>2 DEF Starts, TypeOK, Completion
  <1>8. Survivors'
    BY <1>1, <1>2 DEF Survivors
  <1>9. Restarts' /\ Outcomes'
    BY <1>1 DEF Restarts, Outcomes
  <1>10. Ends'
    <2> SUFFICES ASSUME failures = 0, NEW x \in Runs \ Probes, Gone(x)' PROVE EndsLast(x)'
      BY <1>1 DEF Ends
    <2>1. x # r /\ x \notin active
      BY <1>2 DEF Gone
    <2>2. (Pending(x)' => Pending(x)) /\ (EndsLast(x) => EndsLast(x)')
      BY <1>1, <1>3, <2>1, EndsGrow
    <2>3. Gone(x)
      BY <1>1, <2>1, <2>2 DEF Gone, Pending
    <2> QED BY <1>1, <2>2, <2>3 DEF Ends
  <1> QED BY <1>1, <1>5, <1>6, <1>7, <1>8, <1>9, <1>10

LEMMA EndRecordInv ==
    ASSUME SupervisorInv, NEW c \in completions, EndRecord(c)
    PROVE  SupervisorInv'
  <1> USE DEF SupervisorInv
  <1> DEFINE w == EndWrite(c.run, c.outcome)
  <1>1. /\ Running /\ Running' /\ host' = host /\ UNCHANGED <<unstarted, stored, task, child, active>>
        /\ c.run \in Runs /\ c.outcome \in Outcome /\ task[c.run] # "none"
        /\ evidence' = evidence \cup {<<c.run, c.outcome>>} /\ completions' = completions \ {c}
    BY DEF EndRecord, Running, TypeOK, Completion, Starts
  <1>2. /\ w \in Write /\ w.by = "end" /\ w.run = c.run /\ w.status = c.outcome
        /\ queue' = Append(queue, w)
    BY <1>1, NewWrites DEF EndWrite, EndRecord
  <1> HIDE DEF w
  <1>3. TypeOK'
    <2>1. queue' \in Seq(Write)
      BY <1>2, AppendedWrite
    <2> QED BY <1>1, <2>1 DEF TypeOK
  <1>4. Writes'
    BY <1>1, <1>2, WritesGrow
  <1>5. Starts' /\ Survivors' /\ Restarts' /\ Outcomes'
    BY <1>1 DEF Starts, Survivors, Restarts, Outcomes
  <1>6. Ends'
    <2> SUFFICES ASSUME failures = 0, NEW x \in Runs \ Probes, Gone(x)' PROVE EndsLast(x)'
      BY <1>1 DEF Ends
    <2>1. /\ Pending(x)' => Pending(x)
          /\ EndsLast(x) => \/ EndsLast(x)'
                            \/ \E d \in completions \ completions' : d.run = x
          /\ c.run = x => EndsLast(x)'
      BY <1>2, EndsGrow
    <2>2. Gone(x)
      BY <1>1, <2>1 DEF Gone, Pending
    <2>3. EndsLast(x)
      BY <1>1, <2>2 DEF Ends
    <2> QED BY <1>1, <2>1, <2>3
  <1> QED BY <1>1, <1>3, <1>4, <1>5, <1>6

LEMMA PersistInv ==
    ASSUME SupervisorInv, Persist
    PROVE  SupervisorInv'
  <1> USE DEF SupervisorInv
  <1>1. /\ Running /\ Running' /\ host' = host /\ queue # <<>> /\ queue' = Tail(queue)
        /\ UNCHANGED <<unstarted, evidence, child, active, completions>>
    BY DEF Persist, Running
  <1>2. 1 \in DOMAIN queue /\ Head(queue) = queue[1] /\ Head(queue) \in Write /\ queue' \in Seq(Write)
    BY <1>1, SettledWrite
  <1>3. PICK w \in Write : w = Head(queue) /\ w = queue[1]
    BY <1>2
  <1>4. PICK r \in Runs : r = w.run
    BY <1>3, WriteFacts
  <1>5. /\ w.by \in {"start", "end"} /\ w.status \in Live \cup Outcome
        /\ w.by = "start" => w.status \in Live
        /\ w.by = "end" => w.status \in Outcome
    BY WriteFacts
  <1>6. /\ w.by = "start" => task[r] = IF w.status = "starting" THEN "prepending" ELSE "storing"
        /\ w.by = "end" => task[r] # "none" /\ <<r, w.status>> \in evidence
    BY <1>2, <1>3, <1>4 DEF Writes
  <1>7. stored' = [stored EXCEPT ![r] = w.status] /\ task' = After(w)
    BY <1>3, <1>4 DEF Persist
  <1>8. /\ stored' \in [Runs -> {"none"} \cup Live \cup Outcome] /\ stored'[r] = w.status
        /\ \A x \in Runs : x # r => stored'[x] = stored[x]
    BY <1>5, <1>7 DEF TypeOK
  <1>9. /\ task' \in [Runs -> Place]
        /\ \A x \in Runs : (x # r \/ w.by = "end") => task'[x] = task[x]
        /\ w.by = "start" => task'[r] = IF w.status = "starting" THEN "recording" ELSE "feeding"
    BY <1>4, <1>5, <1>7 DEF After, TypeOK, Place
  <1>10. w.by = "start" => ~ Pending(r)'
    <2> SUFFICES ASSUME w.by = "start", NEW i \in DOMAIN queue', queue'[i].by = "start", queue'[i].run = r
                 PROVE  FALSE
      BY DEF Pending
    <2>1. i + 1 \in DOMAIN queue /\ queue'[i] = queue[i + 1] /\ i \in Nat /\ i # 0
      <3>1. DOMAIN queue' = 1..(Len(queue) - 1) /\ i + 1 \in DOMAIN queue /\ queue'[i] = queue[i + 1]
        BY <1>1, SettledWrite
      <3> QED BY <3>1, QueueFacts
    <2>2. i + 1 = 1
      BY <1>2, <1>3, <1>4, <2>1 DEF Writes
    <2> QED BY <2>1, <2>2
  <1>11. TypeOK'
    <2>1. ASSUME NEW x \in active' PROVE child'[x] = "alive" /\ task'[x] \in {"storing", "feeding", "done"}
      <3>1. x \in Runs /\ child'[x] = "alive" /\ task[x] \in {"storing", "feeding", "done"}
        BY <1>1 DEF TypeOK
      <3> QED BY <1>5, <1>6, <1>9, <3>1
    <2> QED BY <1>1, <1>2, <1>8, <1>9, <2>1 DEF TypeOK
  <1>12. Writes'
    <2>1. \A x \in Runs : task'[x] = task[x] \/ (task'[x] # "none" /\ ~ Pending(x)')
      BY <1>5, <1>9, <1>10
    <2> QED BY <1>1, <2>1, WritesStay
  <1>13. Starts'
    <2>1. \A x \in Runs : task'[x] = "none" => stored'[x] = "none"
      BY <1>5, <1>6, <1>8, <1>9 DEF Starts
    <2>2. task'[r] = "feeding" => task[r] \in {"storing", "feeding"}
      BY <1>5, <1>6, <1>9
    <2>3. task'[r] \notin {"none", "spawning", "storing"} \/ task'[r] = task[r]
      BY <1>5, <1>9
    <2>4. \A x \in Runs : task'[x] \in {"spawning", "storing", "feeding"} \/ child'[x] # "none" =>
                              <<x, "started">> \in evidence'
      BY <1>1, <1>9, <2>2, <2>3 DEF Starts
    <2>5. \A c \in completions : c.run \in Runs /\ task[c.run] # "none"
      BY DEF Starts, TypeOK, Completion
    <2>6. \A c \in completions' : task'[c.run] # "none"
      BY <1>1, <1>9, <2>3, <2>5
    <2> QED BY <2>1, <2>4, <2>6 DEF Starts
  <1>14. Survivors'
    <2> SUFFICES ASSUME NEW x \in Runs, child[x] = "alive", x \notin active
                 PROVE  task'[x] = "done" /\ stored'[x] \notin Live
      BY <1>1 DEF Survivors
    <2>1. task[x] = "done" /\ stored[x] \notin Live
      BY <1>1 DEF Survivors, Running
    <2>2. x # r \/ w.by = "end"
      BY <1>5, <1>6, <2>1
    <2>3. w.by = "end" => w.status \notin Live
      BY <1>5 DEF Live, Outcome
    <2> QED BY <1>8, <1>9, <2>1, <2>2, <2>3
  <1>15. Restarts'
    BY <1>1 DEF Restarts, Running
  <1>16. Outcomes'
    <2>1. w.by = "start" => w.status \notin Outcome
      BY <1>5 DEF Live, Outcome
    <2> QED BY <1>1, <1>5, <1>6, <1>8, <2>1 DEF Outcomes
  <1>17. Ends'
    <2> SUFFICES ASSUME failures = 0, NEW x \in Runs \ Probes, Gone(x)' PROVE EndsLast(x)'
      BY <1>1 DEF Ends
    <2>1. /\ Pending(x)' => Pending(x)
          /\ (EndsLast(x) /\ (Pending(x)' \/ w.by = "start" \/ r # x)) => EndsLast(x)'
      BY <1>1, <1>3, <1>4, EndsShrink
    <2>2. w.by = "end" => w.status \notin Live
      BY <1>5 DEF Live, Outcome
    <2>3. Gone(x) /\ (Pending(x)' \/ w.by = "start" \/ r # x)
      <3>1. CASE x # r
        BY <1>1, <1>8, <1>9, <2>1, <3>1 DEF Gone, Pending
      <3>2. CASE x = r /\ w.by = "end"
        <4>1. Pending(x)'
          BY <1>8, <2>2, <3>2 DEF Gone, Pending
        <4> QED BY <1>1, <1>9, <2>1, <3>2, <4>1 DEF Gone, Pending
      <3>3. CASE x = r /\ w.by = "start"
        <4>1. task[x] = "storing" /\ x \notin active
          BY <1>1, <1>6, <1>9, <3>3 DEF Gone
        <4>2. Pending(x)
          BY <1>2, <1>3, <1>4, <3>3 DEF Pending
        <4> QED BY <3>3, <4>1, <4>2 DEF Gone, Pending
      <3> QED BY <1>5, <3>1, <3>2, <3>3
    <2>4. EndsLast(x)
      BY <1>1, <2>3 DEF Ends
    <2> QED BY <2>1, <2>3, <2>4
  <1> QED BY <1>1, <1>11, <1>12, <1>13, <1>14, <1>15, <1>16, <1>17

\* A failed end is given up: the run may be ended anew, or nothing follows.
LEMMA GiveUpFacts ==
    ASSUME TypeOK, Starts, NEW r \in Runs, NEW S \in SUBSET completions, GiveUp(r, S)
    PROVE  /\ waited' \subseteq Runs /\ UNCHANGED <<child, active>>
           /\ completions' \subseteq Completion
           /\ \A c \in completions' : c \in completions \/ task[c.run] # "none"
           /\ task' \in [Runs -> Place]
           /\ \A x \in Runs : task'[x] = task[x] \/ (task[x] = "feeding" /\ task'[x] = "done")
  <1>1. End(r, "failed") \in Completion /\ End(r, "failed").run = r
    BY DEF End, Completion, Outcome
  <1>2. waited' \subseteq Runs /\ UNCHANGED <<child, active>>
    BY DEF GiveUp, TypeOK
  <1>3. /\ task' \in [Runs -> Place]
        /\ \A x \in Runs : task'[x] = task[x] \/ (task[x] = "feeding" /\ task'[x] = "done")
    BY DEF GiveUp, TypeOK, Place
  <1>4. completions' = S \/ (task[r] = "feeding" /\ completions' = S \cup {End(r, "failed")})
    BY DEF GiveUp
  <1>5. S \subseteq Completion
    BY DEF TypeOK
  <1> QED BY <1>1, <1>2, <1>3, <1>4, <1>5

LEMMA FailInv ==
    ASSUME SupervisorInv, Fail
    PROVE  SupervisorInv'
  <1> USE DEF SupervisorInv
  <1>1. /\ Running /\ failures' = failures + 1
        /\ UNCHANGED <<host, authority, contained, recovering, stops, stored, evidence>>
    BY DEF Fail, PersistFails, StepFails
  <1>2. UNCHANGED <<child, active>> => LetsGo
    BY DEF LetsGo, TypeOK
  <1>3. ASSUME waited' \subseteq Runs, LetsGo, completions' \subseteq Completion,
               \A c \in completions' : c \in completions \/ task[c.run] # "none",
               task' \in [Runs -> Place],
               \A r \in Runs : task'[r] = task[r] \/ (task[r] # "none" /\ task'[r] = "done" /\ ~ Pending(r)'),
               queue' = queue \/ (queue # <<>> /\ queue' = Tail(queue))
        PROVE  SupervisorInv'
    <2>1. Writes'
      BY <1>1, <1>3, WritesStay
    <2>2. queue' \in Seq(Write)
      BY <1>3, SettledWrite, QueueFacts
    <2>3. Stumbled
      BY <1>1, <1>3, <2>1, <2>2 DEF Stumbled
    <2> QED BY <2>3, StumbledInv
  <1>4. CASE PersistFails
    <2>1. queue # <<>> /\ queue' = Tail(queue) /\ 1 \in DOMAIN queue /\ Head(queue) = queue[1] /\ Head(queue) \in Write
      BY <1>4, SettledWrite DEF PersistFails
    <2>2. PICK w \in Write : w = Head(queue) /\ w = queue[1]
      BY <2>1
    <2>3. PICK r \in Runs : r = w.run
      BY WriteFacts
    <2>4. ASSUME NEW x \in Runs, x = r, w.by = "start" PROVE ~ Pending(x)'
      <3> SUFFICES ASSUME NEW i \in DOMAIN queue', queue'[i].by = "start", queue'[i].run = x
                   PROVE  FALSE
        BY DEF Pending
      <3>1. i + 1 \in DOMAIN queue /\ queue'[i] = queue[i + 1] /\ i \in Nat /\ i # 0
        <4>1. DOMAIN queue' = 1..(Len(queue) - 1) /\ i + 1 \in DOMAIN queue /\ queue'[i] = queue[i + 1]
          BY <2>1, SettledWrite
        <4> QED BY <4>1, QueueFacts
      <3>2. i + 1 = 1
        BY <2>1, <2>2, <2>3, <2>4, <3>1 DEF Writes
      <3> QED BY <3>1, <3>2
    <2>5. CASE w.by = "start"
      <3>1. Ended
        <4>1. CASE w.status = "running"
          BY <1>4, <2>2, <2>3, <2>5, <4>1, RescueEnds DEF PersistFails
        <4>2. CASE w.status # "running"
          <5>1. UNCHANGED <<child, active, completions>>
            BY <1>4, <2>2, <2>5, <4>2 DEF PersistFails
          <5> QED BY <5>1 DEF Ended, LetsGo, TypeOK
        <4> QED BY <4>1, <4>2
      <3>2. task' = [task EXCEPT ![r] = "done"] /\ waited' = waited
        BY <1>4, <2>2, <2>3, <2>5 DEF PersistFails, Go
      <3>3. task[r] # "none"
        BY <2>1, <2>2, <2>3, <2>5 DEF Writes
      <3>4. \A x \in Runs : task'[x] = task[x] \/ (task[x] # "none" /\ task'[x] = "done" /\ ~ Pending(x)')
        BY <2>4, <2>5, <3>2, <3>3 DEF TypeOK
      <3>5. task' \in [Runs -> Place] /\ waited' \subseteq Runs
        BY <3>2 DEF TypeOK, Place
      <3> QED BY <1>3, <2>1, <3>1, <3>4, <3>5 DEF Ended
    <2>6. CASE w.by # "start"
      <3>1. GiveUp(r, completions)
        BY <1>4, <2>2, <2>3, <2>6 DEF PersistFails
      <3>2. /\ waited' \subseteq Runs /\ UNCHANGED <<child, active>>
            /\ completions' \subseteq Completion
            /\ \A c \in completions' : c \in completions \/ task[c.run] # "none"
            /\ task' \in [Runs -> Place]
            /\ \A x \in Runs : task'[x] = task[x] \/ (task[x] = "feeding" /\ task'[x] = "done")
        BY <3>1, GiveUpFacts
      <3>3. \A x \in Runs : task[x] = "feeding" => ~ Pending(x)'
        <4>1. \A x \in Runs : Pending(x)' => Pending(x)
          BY <2>1, SettledWrite DEF Pending
        <4> QED BY <4>1, NothingPending
      <3> QED BY <1>2, <1>3, <2>1, <3>2, <3>3
    <2> QED BY <2>5, <2>6
  <1>5. CASE StepFails
    <2>1. queue' = queue /\ \A x \in Runs : task[x] \in {"recording", "feeding"} => ~ Pending(x)'
      BY <1>5, NothingPending DEF StepFails, Pending
    <2>2. ASSUME NEW r \in Runs, task[r] \in {"recording", "feeding"}, Go(r, "done"), UNCHANGED waited, Ended
          PROVE  SupervisorInv'
      <3>1. /\ task' \in [Runs -> Place] /\ waited' \subseteq Runs
            /\ \A x \in Runs : task'[x] = task[x] \/ (task[x] # "none" /\ task'[x] = "done" /\ ~ Pending(x)')
        BY <2>1, <2>2 DEF Go, TypeOK, Place
      <3> QED BY <1>3, <2>1, <2>2, <3>1 DEF Ended
    <2>3. UNCHANGED <<child, active, completions>> => Ended
      BY <1>2 DEF Ended, TypeOK
    <2>4. ASSUME NEW c \in completions, GiveUp(c.run, completions \ {c}) PROVE SupervisorInv'
      <3>1. c.run \in Runs
        BY DEF TypeOK, Completion
      <3>2. /\ waited' \subseteq Runs /\ UNCHANGED <<child, active>>
            /\ completions' \subseteq Completion
            /\ \A d \in completions' : d \in completions \/ task[d.run] # "none"
            /\ task' \in [Runs -> Place]
            /\ \A x \in Runs : task'[x] = task[x] \/ (task[x] = "feeding" /\ task'[x] = "done")
        BY <2>4, <3>1, GiveUpFacts
      <3> QED BY <1>2, <1>3, <2>1, <3>2
    <2>5. ASSUME NEW r \in Runs, task[r] = "feeding", Go(r, "done"), Rescue(r), UNCHANGED waited PROVE SupervisorInv'
      BY <2>2, <2>5, RescueEnds
    <2> QED BY <1>5, <2>2, <2>3, <2>4, <2>5 DEF StepFails
  <1> QED BY <1>4, <1>5 DEF Fail

\* What survives the application is out of control, and its start is over.
LEMMA DownInv ==
    ASSUME SupervisorInv, Quit \/ Stop
    PROVE  SupervisorInv'
  <1> USE DEF SupervisorInv
  <1>0. stops \in Nat
    OBVIOUS
  <1>a. Down /\ host' = "down"
    BY DEF Quit, Stop, Down
  <1>1. /\ Down /\ host' = "down" /\ stops' \in Nat /\ stops' >= stops
        /\ host = "recovering" => stops' > 0
    <2>1. CASE Quit
      <3>1. host = "closing" /\ stops' = stops
        BY <2>1 DEF Quit
      <3> HIDE DEF SupervisorInv
      <3> QED BY <1>0, <1>a, <3>1
    <2>2. CASE Stop
      <3>1. stops' = stops + 1
        BY <2>2 DEF Stop
      <3> HIDE DEF SupervisorInv
      <3> QED BY <1>0, <1>a, <3>1
    <2> QED BY <2>1, <2>2
  <1>2. /\ waited' = {} /\ queue' = <<>> /\ active' = {} /\ completions' = {} /\ recovering' = {}
        /\ UNCHANGED <<authority, contained, stored, evidence, failures>>
        /\ ~ Running'
    BY <1>1 DEF Down, Running
  <1>3. /\ task' \in [Runs -> Place]
        /\ \A r \in Runs : task'[r] = IF task[r] = "none" THEN "none" ELSE "done"
    BY <1>1 DEF Down, TypeOK, Place
  <1>4. /\ child' \in [Runs -> {"none", "alive", "exited"}]
        /\ \A r \in Runs : child'[r] = child[r] \/ (child[r] = "alive" /\ child'[r] = "exited")
    BY <1>1 DEF Down, TypeOK
  <1>5. TypeOK'
    BY <1>1, <1>2, <1>3, <1>4 DEF TypeOK
  <1>6. Writes'
    BY <1>2 DEF Writes
  <1>7. Starts'
    BY <1>2, <1>3, <1>4 DEF Starts
  <1>8. Survivors'
    <2>1. ASSUME NEW r \in Runs, child[r] = "alive" PROVE task[r] # "none"
      BY <2>1 DEF TypeOK, Survivors
    <2> QED BY <1>1, <1>3, <1>4, <2>1 DEF Survivors
  <1>9. Restarts'
    BY <1>1, <1>2 DEF Restarts
  <1>10. Outcomes'
    BY <1>1, <1>2 DEF Outcomes, Restarts
  <1>11. Ends'
    BY <1>2 DEF Ends
  <1> QED BY <1>1, <1>2, <1>5, <1>6, <1>7, <1>8, <1>9, <1>10, <1>11

LEMMA RestartInv ==
    ASSUME SupervisorInv, Restart
    PROVE  SupervisorInv'
  <1> USE DEF SupervisorInv
  <1>1. /\ host = "down" /\ host' = "recovering" /\ recovering' = Interrupted /\ recovering = {}
        /\ UNCHANGED <<waited, authority, contained, evidence, queue, task, child, active,
                       completions, failures, stops>>
        /\ ~ Running /\ ~ Running' /\ queue = <<>> /\ completions = {} /\ active = {}
    BY DEF Restart, Running, Restarts, TypeOK
  <1>2. /\ stored' \in [Runs -> {"none"} \cup Live \cup Outcome]
        /\ \A r \in Runs : stored'[r] = IF stored[r] \in Live THEN "failed" ELSE stored[r]
    BY DEF Restart, Interrupted, TypeOK, Outcome
  <1>3. \A r \in Runs : stored'[r] \notin Live
    BY <1>2 DEF Live
  <1>4. TypeOK'
    BY <1>1, <1>2 DEF TypeOK, Interrupted
  <1>5. Writes'
    BY <1>1 DEF Writes
  <1>6. Starts'
    BY <1>1, <1>2 DEF Starts, Live
  <1>7. Survivors'
    BY <1>1, <1>3 DEF Survivors
  <1>8. Restarts'
    BY <1>1, <1>3 DEF Restarts
  <1>9. Outcomes'
    BY <1>1, <1>2 DEF Outcomes, Interrupted
  <1>10. Ends'
    BY <1>1 DEF Ends
  <1> QED BY <1>1, <1>4, <1>5, <1>6, <1>7, <1>8, <1>9, <1>10

LEMMA RecoverInv ==
    ASSUME SupervisorInv, Recover
    PROVE  SupervisorInv'
  <1> USE DEF SupervisorInv
  <1>1. /\ host = "recovering" /\ ~ Running /\ queue = <<>> /\ completions = {} /\ active = {}
        /\ UNCHANGED <<waited, authority, contained, stored, queue, task, child, active,
                       completions, failures, stops>>
        /\ \A r \in Runs : stored[r] \notin Live
    BY DEF Recover, Running, Restarts, TypeOK
  <1>2. ASSUME NEW r \in recovering, evidence' = evidence \cup {<<r, "failed">>},
               recovering' = recovering \ {r}, UNCHANGED host
        PROVE  SupervisorInv'
    <2>1. TypeOK'
      BY <1>1, <1>2 DEF TypeOK, Running, Outcome
    <2>2. Writes' /\ Starts' /\ Survivors' /\ Restarts' /\ Outcomes'
      BY <1>1, <1>2 DEF Writes, Starts, Survivors, Restarts, Outcomes
    <2>3. Ends'
      BY <1>1, <1>2 DEF Ends, Running
    <2> QED BY <1>1, <2>1, <2>2, <2>3
  <1>3. ASSUME recovering = {}, host' = "up", UNCHANGED <<evidence, recovering>>
        PROVE  SupervisorInv'
    <2>1. TypeOK'
      BY <1>1, <1>3 DEF TypeOK, Running
    <2>2. Writes' /\ Starts' /\ Survivors' /\ Restarts' /\ Outcomes'
      BY <1>1, <1>3 DEF Writes, Starts, Survivors, Restarts, Outcomes
    <2>3. Ends'
      BY <1>1 DEF Ends, Gone
    <2> QED BY <1>1, <2>1, <2>2, <2>3
  <1> QED BY <1>2, <1>3 DEF Recover

-----------------------------------------------------------------------------
(* The theorems.                                                            *)

LEMMA InitSupervisor == Init => SupervisorInv
  <1> SUFFICES ASSUME Init PROVE SupervisorInv
    OBVIOUS
  <1>1. TypeOK /\ failures \in Nat /\ stops \in Nat
    <2>1. failures \in Nat /\ stops \in Nat
      BY DEF Init
    <2>2. queue \in Seq(Write)
      BY DEF Init
    <2>3. /\ stored \in [Runs -> {"none"} \cup Live \cup Outcome] /\ task \in [Runs -> Place]
          /\ child \in [Runs -> {"none", "alive", "exited"}]
      BY DEF Init, Place
    <2>4. /\ evidence = {} /\ completions = {} /\ active = {} /\ recovering = {} /\ waited = {}
          /\ host = "up" /\ authority = TRUE /\ contained = FALSE
      BY DEF Init
    <2>5. Running
      BY <2>4 DEF Running
    <2> QED BY <2>1, <2>2, <2>3, <2>4, <2>5 DEF TypeOK
  <1>2. Writes /\ Starts /\ Survivors /\ Restarts
    BY DEF Init, Writes, Starts, Survivors, Restarts, Live
  <1>3. Outcomes
    BY DEF Init, Outcomes, Outcome
  <1>4. Ends
    BY DEF Init, Ends, Gone
  <1> QED BY <1>1, <1>2, <1>3, <1>4 DEF SupervisorInv

LEMMA SupervisorStep == SupervisorInv /\ [Next]_vars => SupervisorInv'
  <1> SUFFICES ASSUME SupervisorInv, [Next]_vars PROVE SupervisorInv'
    OBVIOUS
  <1>1. ASSUME NEW r \in Runs, \/ Start(r) \/ StartSteps(r) \/ Cancel(r) \/ Timeout(r) \/ Exit(r)
                               \/ PipeFails(r) \/ Checkpoint(r)
        PROVE  SupervisorInv'
    BY <1>1, StartInv, GoesOnInv, SpawnInv, CancelInv, TimeoutInv, ExitInv, CheckpointInv DEF StartSteps
  <1>2. CASE EndSteps
    BY <1>2, EndRecordInv DEF EndSteps
  <1>3. CASE UNCHANGED vars
    BY <1>3 DEF vars, SupervisorInv, TypeOK, Writes, Starts, Survivors, Restarts, Outcomes, Ends,
                Gone, EndsLast, Running
  <1> QED BY <1>1, <1>2, <1>3, AuthorityInv, PersistInv, FailInv, ShutdownInv, DownInv, RestartInv,
             RecoverInv DEF Next

\* Every process, its record and its start agree through every interleaving of exits,
\* timers, cancellations, failures and stops.
THEOREM SupervisorCorrect == Spec => []SupervisorInv
  BY InitSupervisor, SupervisorStep, PTL DEF Spec

\* A process that is alive is under control or is not stored as live, and a run whose
\* process is gone does not stay stored as live by a late write of its start.
THEOREM ControlHolds == Spec => []ControlInv
  <1>1. SupervisorInv => ControlInv
    <2> SUFFICES ASSUME SupervisorInv PROVE ControlInv
      OBVIOUS
    <2>1. LiveIsControlled
      BY DEF SupervisorInv, Survivors, LiveIsControlled, Running
    <2>2. NothingLeftLive
      BY DEF SupervisorInv, Ends, Gone, EndsLast, NothingLeftLive, Ending
    <2> QED BY <2>1, <2>2 DEF SupervisorInv, ControlInv
  <1> QED BY <1>1, SupervisorCorrect, PTL

\* An outcome is visible only behind its event, and no process is without the event of
\* its start.
THEOREM OutcomesHold == Spec => []OutcomeIsEvidenced
  <1>1. SupervisorInv => OutcomeIsEvidenced
    BY DEF SupervisorInv, Outcomes, Starts, OutcomeIsEvidenced
  <1> QED BY <1>1, SupervisorCorrect, PTL
==============================================================================
