---------------------------- MODULE ProcessSupervisor ----------------------------
(***************************************************************************)
(* ProcessSupervisor (packages/agents/src/processSupervisor.ts): the       *)
(* processes of the provider CLIs and of the built-in probes that run      *)
(* under one passport, binding and runtime session.                        *)
(*                                                                         *)
(* A start is a task of several awaits: the check of authority, the record *)
(* of the run, its evidence, the process, the record again, its input.     *)
(* Meanwhile the process exits, its timer fires, an operator cancels, the  *)
(* authority goes and the application closes; each of them ends the run    *)
(* in a completion, itself several awaits long.  One queue orders the      *)
(* writes of the runs.  A step of the model is what runs between two       *)
(* awaits; that a process has started and is under control is one step.    *)
(***************************************************************************)
EXTENDS Naturals, Sequences

CONSTANTS
    Runs,       \* the runs that may be asked for; a run is asked for once
    Probes,     \* those of them that are built-in probes
    MaxCancels, \* bound on cancellations
    MaxFaults   \* bound on failed writes and stops of the application

ASSUME BoundsAssumption == {MaxCancels, MaxFaults} \subseteq Nat
ASSUME ProbesAssumption == Probes \subseteq Runs

VARIABLES
    host,       \* the application: "down", "recovering", "up" or "closing"
    waited,     \* the runs whose end the closing application awaits
    authority,  \* passport, binding, session and mandate are in force
    contained,  \* the processes were told that it is gone
    stored,     \* run -> its stored status
    evidence,   \* events in the ledger: <<run, type>>
    queue,      \* the writes of runs that have not settled
    task,       \* run -> where its start stands
    child,      \* run -> its process
    active,     \* the map of processes under control
    completions,\* the ends of runs in progress
    recovering, \* runs whose interruption initialize has stored, not recorded
    cancels,
    failures,   \* writes and events that failed
    stops       \* unplanned stops of the application

records == <<stored, evidence, queue>>
vars == <<host, waited, authority, contained, records, task, child, active,
          completions, recovering, cancels, failures, stops>>

Live == {"starting", "running"}
Outcome == {"succeeded", "failed", "cancelled", "timed-out", "revoked"}
Place == {"none", "prepending", "recording", "spawning", "storing", "feeding", "done"}

StartWrite(r, status) == [by |-> "start", run |-> r, status |-> status]
EndWrite(r, status) == [by |-> "end", run |-> r, status |-> status]
Write == [by : {"start"}, run : Runs, status : Live] \cup [by : {"end"}, run : Runs, status : Outcome]

\* The end of a run: its last output and its event are one step of it; after that
\* it is a write in the queue.
End(r, outcome) == [run |-> r, outcome |-> outcome]
Completion == [run : Runs, outcome : Outcome]
Ending(r) == \/ \E c \in completions : c.run = r
             \/ \E i \in DOMAIN queue : queue[i].by = "end" /\ queue[i].run = r

Init ==
    /\ host = "up" /\ waited = {} /\ authority = TRUE /\ contained = FALSE
    /\ stored = [r \in Runs |-> "none"] /\ evidence = {} /\ queue = <<>>
    /\ task = [r \in Runs |-> "none"] /\ child = [r \in Runs |-> "none"]
    /\ active = {} /\ completions = {} /\ recovering = {}
    /\ cancels = 0 /\ failures = 0 /\ stops = 0

Running == host \in {"up", "closing"}
At(r, place) == Running /\ task[r] = place
Go(r, place) == task' = [task EXCEPT ![r] = place]

-----------------------------------------------------------------------------
(* terminate, complete, completeDetached and failProcess                    *)

\* Mutant: the process is left to end by itself.
EndProcessesAlive(S, outcome) ==
    /\ child' = child
    /\ active' = active \ S
    /\ completions' = completions \cup {End(r, outcome) : r \in S \cap active}

\* complete: those of S under control are killed, if alive, and let go at once.
EndProcesses(S, outcome) ==
    /\ child' = [r \in Runs |-> IF r \in S \cap active THEN "exited" ELSE child[r]]
    /\ active' = active \ S
    /\ completions' = completions \cup {End(r, outcome) : r \in S \cap active}

\* completeDetached: a run without a process, unless it has an outcome.
EndDetached(r, outcome) ==
    /\ completions' = IF stored[r] \in Live THEN completions \cup {End(r, outcome)}
                      ELSE completions
    /\ UNCHANGED <<child, active>>

EndRun(r, outcome) ==
    IF r \in active THEN EndProcesses({r}, outcome) ELSE EndDetached(r, outcome)

unstarted == <<host, waited, authority, contained, recovering, cancels, failures, stops>>

\* The operator cancels; the run may be starting, running or ending.
Cancel(r) ==
    /\ host = "up" /\ stored[r] # "none" /\ cancels < MaxCancels /\ cancels' = cancels + 1
    /\ EndRun(r, "cancelled")
    /\ UNCHANGED <<host, waited, authority, contained, recovering, failures, stops, records, task>>

Timeout(r) ==
    /\ Running /\ r \in active
    /\ EndProcesses({r}, "timed-out")
    /\ UNCHANGED <<unstarted, records, task>>

\* The process exits by itself.  One that is not under control is not heard.
Exit(r) ==
    /\ child[r] = "alive" /\ child' = [child EXCEPT ![r] = "exited"]
    /\ active' = active \ {r}
    /\ IF r \in active THEN \E outcome \in {"succeeded", "failed"} :
                                completions' = completions \cup {End(r, outcome)}
       ELSE UNCHANGED completions
    /\ UNCHANGED <<unstarted, records, task>>

\* A pipe of the process fails, or closes before it has exited.
PipeFails(r) ==
    /\ Running /\ r \in active
    /\ EndProcesses({r}, "failed")
    /\ UNCHANGED <<unstarted, records, task>>

\* The identity service suspends the passport, disconnects the binding or rotates
\* the session; then the host tells the supervisor.
Withdraw ==
    /\ Running /\ authority /\ authority' = FALSE
    /\ UNCHANGED <<host, waited, contained, records, task, child, active, completions,
                   recovering, cancels, failures, stops>>

Contain ==
    /\ Running /\ ~ authority /\ ~ contained /\ contained' = TRUE
    /\ EndProcesses(Runs, "revoked")
    /\ UNCHANGED <<host, waited, authority, records, task, recovering, cancels, failures, stops>>

\* prepareForHostRestart: a probe is killed and its record left as running.
Checkpoint(r) ==
    /\ host = "up" /\ r \in active \cap Probes
    /\ child' = [child EXCEPT ![r] = "exited"] /\ active' = active \ {r}
    /\ UNCHANGED <<unstarted, records, task, completions>>

\* Mutant: the record is stored before its event is appended.
EndRecordLate(c) ==
    /\ Running
    /\ queue' = Append(queue, EndWrite(c.run, c.outcome))
    /\ completions' = completions \ {c}
    /\ UNCHANGED <<unstarted, stored, evidence, task, child, active>>

EndRecord(c) ==
    /\ Running
    /\ evidence' = evidence \cup {<<c.run, c.outcome>>}
    /\ queue' = Append(queue, EndWrite(c.run, c.outcome))
    /\ completions' = completions \ {c}
    /\ UNCHANGED <<unstarted, stored, task, child, active>>

-----------------------------------------------------------------------------
(* start and startBuiltInProbe                                              *)

\* The authority is checked; then a provider is refused while another process of
\* the session is under control.
Start(r) ==
    /\ host = "up" /\ task[r] = "none" /\ authority
    /\ IF r \notin Probes /\ active # {} THEN Go(r, "done") /\ UNCHANGED queue
       ELSE /\ Go(r, "prepending")
            /\ queue' = Append(queue, StartWrite(r, "starting"))
    /\ UNCHANGED <<unstarted, stored, evidence, child, active, completions>>

RecordStart(r) ==
    /\ At(r, "recording") /\ Go(r, "spawning")
    /\ evidence' = evidence \cup {<<r, "started">>}
    /\ UNCHANGED <<unstarted, stored, queue, child, active, completions>>

Spawn(r) ==
    /\ At(r, "spawning") /\ Go(r, "storing")
    /\ child' = [child EXCEPT ![r] = "alive"] /\ active' = active \cup {r}
    /\ queue' = Append(queue, StartWrite(r, "running"))
    /\ UNCHANGED <<unstarted, stored, evidence, completions>>

\* The handler of a start: only that of a provider stores what happened.
Rescue(r) ==
    IF r \in Probes THEN UNCHANGED <<child, active, completions>> ELSE EndRun(r, "failed")

SpawnFails(r) ==
    /\ At(r, "spawning") /\ Go(r, "done")
    /\ Rescue(r)
    /\ UNCHANGED <<unstarted, records>>

\* The input is flushed, or the process has ended and so has its completion; then
\* the start returns.
Feed(r) ==
    /\ At(r, "feeding") /\ (r \in active \/ ~ Ending(r)) /\ Go(r, "done")
    /\ UNCHANGED <<unstarted, records, child, active, completions>>

-----------------------------------------------------------------------------
(* persist: the oldest write settles, and what awaits it goes on            *)

After(w) ==
    IF w.by = "end" THEN task
    ELSE [task EXCEPT ![w.run] = IF w.status = "starting" THEN "recording" ELSE "feeding"]

Persist ==
    /\ Running /\ queue # <<>> /\ queue' = Tail(queue)
    /\ LET w == Head(queue)
       IN /\ stored' = [stored EXCEPT ![w.run] = w.status]
          /\ task' = After(w)
    /\ UNCHANGED <<unstarted, evidence, child, active, completions>>

\* An end of r fails and is given up: a start that awaits it handles the failure, and
\* a closing application waits no longer.
GiveUp(r, others) ==
    LET awaited == task[r] = "feeding" /\ r \notin active
    IN /\ task' = IF awaited THEN [task EXCEPT ![r] = "done"] ELSE task
       /\ completions' = IF awaited /\ r \notin Probes /\ stored[r] \in Live
                         THEN others \cup {End(r, "failed")} ELSE others
       /\ waited' = IF r \in waited THEN {} ELSE waited
       /\ UNCHANGED <<child, active>>

\* The oldest write fails.  A run that could not be stored as starting is not
\* started.
PersistFails ==
    /\ queue # <<>> /\ queue' = Tail(queue)
    /\ LET w == Head(queue)
       IN IF w.by = "start"
          THEN /\ Go(w.run, "done") /\ UNCHANGED waited
               /\ IF w.status = "running" THEN Rescue(w.run)
                  ELSE UNCHANGED <<child, active, completions>>
          ELSE GiveUp(w.run, completions)
    /\ UNCHANGED <<stored, evidence>>

\* The evidence of a start, its last output, or a step of a completion fails.
StepFails ==
    /\ \/ \E r \in Runs : /\ task[r] = "recording" /\ Go(r, "done")
                          /\ UNCHANGED <<waited, child, active, completions>>
       \/ \E r \in Runs : task[r] = "feeding" /\ Go(r, "done") /\ Rescue(r) /\ UNCHANGED waited
       \/ \E c \in completions : GiveUp(c.run, completions \ {c})
    /\ UNCHANGED records

Fail ==
    /\ Running /\ failures + stops < MaxFaults /\ failures' = failures + 1
    /\ PersistFails \/ StepFails
    /\ UNCHANGED <<host, authority, contained, recovering, cancels, stops>>

-----------------------------------------------------------------------------
(* shutdown, the end of the application, and initialize                     *)

Shutdown ==
    /\ host = "up" /\ host' = "closing" /\ waited' = active
    /\ EndProcesses(Runs, "cancelled")
    /\ UNCHANGED <<authority, contained, records, task, recovering, cancels, failures, stops>>

\* Everything in memory is gone; a process may survive the application.
Down ==
    /\ host' = "down" /\ waited' = {}
    /\ queue' = <<>> /\ active' = {} /\ completions' = {} /\ recovering' = {}
    /\ task' = [r \in Runs |-> IF task[r] = "none" THEN "none" ELSE "done"]
    /\ \E lost \in SUBSET {r \in Runs : child[r] = "alive"} :
          child' = [r \in Runs |-> IF r \in lost THEN "exited" ELSE child[r]]
    /\ UNCHANGED <<authority, contained, stored, evidence, cancels, failures>>

Quit ==
    /\ host = "closing" /\ \A r \in waited : ~ Ending(r)
    /\ Down /\ UNCHANGED stops

\* The application stops unplanned, or initialize throws.
Stop ==
    /\ host # "down" /\ failures + stops < MaxFaults /\ stops' = stops + 1
    /\ Down

Interrupted == {r \in Runs : stored[r] \in Live}

\* Mutant: what was running is taken for running still.
RestartAsIs ==
    /\ host = "down" /\ host' = "recovering" /\ recovering' = {}
    /\ UNCHANGED <<waited, authority, contained, records, task, child, active, completions,
                   cancels, failures, stops>>

\* The runs that were live are stored as failed, in one write; then each is recorded.
Restart ==
    /\ host = "down" /\ host' = "recovering" /\ recovering' = Interrupted
    /\ stored' = [r \in Runs |-> IF r \in Interrupted THEN "failed" ELSE stored[r]]
    /\ UNCHANGED <<waited, authority, contained, evidence, queue, task, child, active,
                   completions, cancels, failures, stops>>

Recover ==
    /\ host = "recovering"
    /\ \/ \E r \in recovering : /\ evidence' = evidence \cup {<<r, "failed">>}
                                /\ recovering' = recovering \ {r} /\ UNCHANGED host
       \/ recovering = {} /\ host' = "up" /\ UNCHANGED <<evidence, recovering>>
    /\ UNCHANGED <<waited, authority, contained, stored, queue, task, child, active,
                   completions, cancels, failures, stops>>

StartSteps(r) == RecordStart(r) \/ Spawn(r) \/ SpawnFails(r) \/ Feed(r)
EndSteps == \E c \in completions : EndRecord(c)

Next ==
    \/ \E r \in Runs : \/ Start(r) \/ StartSteps(r) \/ Cancel(r) \/ Timeout(r) \/ Exit(r)
                       \/ PipeFails(r) \/ Checkpoint(r)
    \/ Withdraw \/ Contain \/ EndSteps \/ Persist \/ Fail
    \/ Shutdown \/ Quit \/ Stop \/ Restart \/ Recover

Spec == Init /\ [][Next]_vars

\* Awaits settle, timers fire, and an application that stopped is started again.
FairSpec ==
    /\ Spec /\ WF_vars(EndSteps) /\ WF_vars(Persist) /\ WF_vars(Quit \/ Restart \/ Recover)
    /\ \A r \in Runs : WF_vars(StartSteps(r)) /\ WF_vars(Timeout(r))

-----------------------------------------------------------------------------
(* Properties.                                                              *)

\* Besides the types: a process under control has been started by a task that got
\* that far, and only a running application has any.
TypeOK ==
    /\ host \in {"down", "recovering", "up", "closing"}
    /\ waited \subseteq Runs /\ authority \in BOOLEAN /\ contained \in BOOLEAN
    /\ stored \in [Runs -> {"none"} \cup Live \cup Outcome]
    /\ evidence \subseteq Runs \X ({"started"} \cup Outcome)
    /\ queue \in Seq(Write) /\ task \in [Runs -> Place]
    /\ child \in [Runs -> {"none", "alive", "exited"}] /\ active \subseteq Runs
    /\ completions \subseteq Completion /\ recovering \subseteq Runs
    /\ \A r \in active : child[r] = "alive" /\ task[r] \in {"storing", "feeding", "done"}
    /\ ~ Running => active = {} /\ completions = {} /\ queue = <<>>

\* A process is alive under control, or its record does not say that it is: the
\* supervisor "never pretends they are still controlled", whatever cancels, times out,
\* fails or restarts around it.
LiveIsControlled ==
    \A r \in Runs : (Running /\ child[r] = "alive" /\ r \notin active) => stored[r] \notin Live

\* "Completion, failure, timeout, cancellation, or revocation records a minimized
\* evidence event before the terminal state becomes visible": except while initialize
\* records what it stored, or after it was stopped in between; and no process starts
\* without an event and a record.
OutcomeIsEvidenced ==
    \A r \in Runs :
       /\ stored[r] \in Outcome => \/ <<r, stored[r]>> \in evidence
                                   \/ stored[r] = "failed" /\ (r \in recovering \/ stops > 0)
       /\ child[r] # "none" => <<r, "started">> \in evidence

\* Nothing a start or an end wrote is undone by an older write: a run whose ends are
\* all in the past is not stored as live while its process is gone, unless a write
\* failed or a probe was left so on purpose.
NothingLeftLive ==
    \A r \in Runs \ Probes :
       (Running /\ failures = 0 /\ stored[r] \in Live /\ task[r] = "done" /\ r \notin active)
           => Ending(r)

\* What is alive, what is under control and what is stored of it go together.
ControlInv == TypeOK /\ LiveIsControlled /\ NothingLeftLive

\* Every run of a provider that is stored as live gets an outcome, by exit, timer,
\* cancellation, containment or restart, as long as no write fails.
EveryRunSettles ==
    \A r \in Runs \ Probes :
       stored[r] \in Live ~> stored[r] \in Outcome \/ failures > 0
==============================================================================
