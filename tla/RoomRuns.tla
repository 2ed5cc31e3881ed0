-------------------------------- MODULE RoomRuns --------------------------------
(***************************************************************************)
(* RoomRuntime (apps/governance/room-runtime.ts): runs of one or more CLI  *)
(* steps that a human requests in a room, another approves, a task of the  *)
(* server executes, and a reviewer publishes.                              *)
(*                                                                         *)
(* Writes of the runs go through change, one at a time.  What a decision   *)
(* or a publication checks before its change is stale inside it, and they  *)
(* append their evidence inside it, so a change of theirs is two steps.    *)
(* Tasks interleave with all of this; one step of the model is what runs   *)
(* between two awaits of one of them.                                      *)
(***************************************************************************)
EXTENDS Naturals, FiniteSets

CONSTANTS
    Runs,       \* the runs that may be requested
    Steps,      \* the agents of a run
    MaxActive,  \* runs that may be active at once (2 in the code)
    MaxToggles, \* bound on changes of the build mandate
    MaxFailures \* bound on failed writes and stops of the server

ASSUME RoomAssumption ==
    /\ {MaxToggles, MaxFailures} \subseteq Nat
    /\ {Steps, MaxActive} \subseteq Nat \ {0}

VARIABLES
    up,         \* the server runs and has initialized
    authority,  \* the mandate the runs were requested under is in force
    status,     \* run -> its stored status
    outputs,    \* run -> how many of its steps are stored as succeeded
    published,  \* run -> its publication is stored
    copies,     \* run -> the directories its publications filled
    evidence,   \* events in the ledger: <<type, run, step>>
    asking,     \* requests whose evidence is not appended yet
    reviews,    \* decisions that passed their checks, not yet in change
    releases,   \* publications that passed their checks, not yet in change
    changing,   \* the decision or publication inside change
    active,     \* the map of controllers: runs that hold a slot
    aborted,    \* runs whose controller was aborted
    task,       \* run -> where its task stands, and at which step
    launched,   \* steps whose CLI was started, ever
    toggles, failures

stored == <<status, outputs, published, copies, evidence>>
requests == <<asking, reviews, releases, changing>>
tasks == <<active, aborted, task, launched>>
roomVars == <<up, authority, stored, requests, tasks, toggles, failures>>

RunStep == 1..Steps
Status == {"none", "pending", "running", "succeeded", "failed", "cancelled", "rejected", "interrupted"}
Settled == Status \ {"none", "pending", "running"}
EventType == {"ACTION_REQUESTED", "HUMAN_APPROVED", "HUMAN_REJECTED", "ACTION_EXECUTED",
              "RUNTIME_EXECUTION_FAILED", "PUBLISHED"}
\* Places of a task: within the try of execute, in its handler, after it, and in
\* the handler of the task itself.
Trying == {"verify", "begin", "launch", "executing", "judge", "save", "record", "finish"}
Place == {"none", "prepare", "fail", "record-failure", "trace", "trace-again", "last-resort"} \cup Trying

None == [kind |-> "none"]
RoomChange == {None} \cup [kind : {"approve", "reject", "publish"}, run : Runs]

RoomInit ==
    /\ up = TRUE /\ authority = TRUE
    /\ status = [r \in Runs |-> "none"] /\ outputs = [r \in Runs |-> 0]
    /\ published = [r \in Runs |-> FALSE] /\ copies = [r \in Runs |-> 0]
    /\ evidence = {}
    /\ asking = {} /\ reviews = {} /\ releases = {} /\ changing = None
    /\ active = {} /\ aborted = {} /\ launched = {}
    /\ task = [r \in Runs |-> [at |-> "none", step |-> 1]]
    /\ toggles = 0 /\ failures = 0

Recorded(type, r) == <<type, r, 0>> \in evidence
Free == up /\ changing = None

-----------------------------------------------------------------------------
(* request                                                                  *)

Request(r) ==
    /\ Free /\ authority /\ status[r] = "none"
    /\ status' = [status EXCEPT ![r] = "pending"]
    /\ asking' = asking \cup {r}
    /\ UNCHANGED <<up, authority, outputs, published, copies, evidence, reviews, releases, changing,
                   tasks, toggles, failures>>

RecordRequest(r) ==
    /\ up /\ r \in asking /\ asking' = asking \ {r}
    /\ evidence' = evidence \cup {<<"ACTION_REQUESTED", r, 0>>}
    /\ UNCHANGED <<up, authority, status, outputs, published, copies, reviews, releases, changing,
                   tasks, toggles, failures>>

-----------------------------------------------------------------------------
(* decide                                                                   *)

\* The checks before the change; a rejection needs no authority.
Review(r, kind) ==
    /\ up /\ status[r] # "none" /\ Recorded("ACTION_REQUESTED", r)
    /\ kind = "approve" => authority
    /\ [kind |-> kind, run |-> r] \notin reviews
    /\ reviews' = reviews \cup {[kind |-> kind, run |-> r]}
    /\ UNCHANGED <<up, authority, stored, asking, releases, changing, tasks, toggles, failures>>

\* Mutant: the status is not read again inside the change.
MayDecideStale(d) == d.kind = "approve" => Cardinality(active) < MaxActive

MayDecide(d) ==
    /\ status[d.run] = "pending"
    /\ d.kind = "approve" => Cardinality(active) < MaxActive

\* Inside change: the evidence of the decision, then the slot.
BeginDecision(d) ==
    /\ Free /\ d \in reviews /\ reviews' = reviews \ {d}
    /\ IF MayDecide(d)
       THEN /\ changing' = d
            /\ evidence' = evidence \cup
                 {<<IF d.kind = "approve" THEN "HUMAN_APPROVED" ELSE "HUMAN_REJECTED", d.run, 0>>}
            /\ active' = IF d.kind = "approve" THEN active \cup {d.run} ELSE active
            /\ aborted' = IF d.kind = "approve" THEN aborted \ {d.run} ELSE aborted
       ELSE UNCHANGED <<changing, evidence, active, aborted>>
    /\ UNCHANGED <<up, authority, status, outputs, published, copies, asking, releases, task, launched,
                   toggles, failures>>

\* The write of the change; an approved run gets its task.
EndDecision ==
    /\ up /\ changing.kind \in {"approve", "reject"} /\ changing' = None
    /\ LET r == changing.run
       IN IF changing.kind = "approve"
          THEN /\ status' = [status EXCEPT ![r] = "running"]
               /\ task' = [task EXCEPT ![r] = [at |-> "prepare", step |-> 1]]
          ELSE /\ status' = [status EXCEPT ![r] = "rejected"]
               /\ UNCHANGED task
    /\ UNCHANGED <<up, authority, outputs, published, copies, evidence, asking, reviews, releases,
                   active, aborted, launched, toggles, failures>>

Cancel(r) ==
    /\ Free /\ status[r] \in {"pending", "running"}
    /\ status' = [status EXCEPT ![r] = "cancelled"]
    /\ aborted' = aborted \cup (active \cap {r})
    /\ UNCHANGED <<up, authority, outputs, published, copies, evidence, requests,
                   active, task, launched, toggles, failures>>

-----------------------------------------------------------------------------
(* execute, the task of a run                                               *)

At(r, place) == up /\ task[r].at = place
Go(r, place) == task' = [task EXCEPT ![r].at = place]
Only(r, place) == Go(r, place) /\ UNCHANGED <<stored, active, aborted, launched>>

Prepare(r) == At(r, "prepare") /\ Only(r, "verify")

\* verifyRun: the ledger holds the request and the approval.
Verify(r) ==
    /\ At(r, "verify")
    /\ Only(r, IF Recorded("ACTION_REQUESTED", r) /\ Recorded("HUMAN_APPROVED", r)
               THEN "begin" ELSE "fail")

Begin(r) ==
    /\ At(r, "begin")
    /\ Only(r, IF authority /\ r \notin aborted THEN "launch" ELSE "fail")

\* The step is stored as running, and its CLI starts.
Launch(r) ==
    /\ At(r, "launch") /\ changing = None
    /\ Go(r, "executing")
    /\ launched' = launched \cup {<<r, task[r].step>>}
    /\ UNCHANGED <<stored, active, aborted>>

\* The monitor finds the mandate gone.
Monitor(r) ==
    /\ At(r, "executing") /\ ~ authority
    /\ aborted' = aborted \cup {r}
    /\ UNCHANGED <<stored, active, task, launched>>

\* The CLI succeeds, fails, times out, or is killed with its controller.
Return(r) ==
    /\ At(r, "executing")
    /\ \E place \in {"judge", "fail"} : Only(r, place)

Judge(r) ==
    /\ At(r, "judge")
    /\ Only(r, IF authority /\ r \notin aborted THEN "save" ELSE "fail")

Save(r) ==
    /\ At(r, "save") /\ changing = None
    /\ outputs' = [outputs EXCEPT ![r] = task[r].step]
    /\ Go(r, "record")
    /\ UNCHANGED <<status, published, copies, evidence, active, aborted, launched>>

\* Mutant: the last step goes unrecorded.
RecordAllButLast(r) ==
    /\ At(r, "record")
    /\ IF task[r].step < Steps
       THEN /\ evidence' = evidence \cup {<<"ACTION_EXECUTED", r, task[r].step>>}
            /\ task' = [task EXCEPT ![r] = [at |-> "begin", step |-> @.step + 1]]
       ELSE Go(r, "finish") /\ UNCHANGED evidence
    /\ UNCHANGED <<status, outputs, published, copies, active, aborted, launched>>

\* Telemetry, then the evidence of the step; then the next one.
RecordStep(r) ==
    /\ At(r, "record")
    /\ evidence' = evidence \cup {<<"ACTION_EXECUTED", r, task[r].step>>}
    /\ task' = [task EXCEPT ![r] = IF @.step < Steps THEN [at |-> "begin", step |-> @.step + 1]
                                   ELSE [at |-> "finish", step |-> @.step]]
    /\ UNCHANGED <<status, outputs, published, copies, active, aborted, launched>>

Finish(r) ==
    /\ At(r, "finish") /\ changing = None
    /\ status' = [status EXCEPT ![r] = IF @ = "running" THEN "succeeded" ELSE @]
    /\ Go(r, "trace")
    /\ UNCHANGED <<outputs, published, copies, evidence, active, aborted, launched>>

FailRun(r) ==
    /\ At(r, "fail") /\ changing = None
    /\ status' = [status EXCEPT ![r] = IF @ = "cancelled" \/ r \in aborted THEN "cancelled" ELSE "failed"]
    /\ Go(r, "record-failure")
    /\ UNCHANGED <<outputs, published, copies, evidence, active, aborted, launched>>

RecordFailure(r) ==
    /\ At(r, "record-failure")
    /\ evidence' = evidence \cup {<<"RUNTIME_EXECUTION_FAILED", r, 0>>}
    /\ Go(r, "trace")
    /\ UNCHANGED <<status, outputs, published, copies, active, aborted, launched>>

\* finally: the slot is free, whatever happened.
EndTask(r) ==
    /\ Go(r, "none")
    /\ active' = active \ {r}
    /\ UNCHANGED launched

\* The export of the trace, stored as done or as failed.
Trace(r) ==
    /\ \/ At(r, "trace") \/ At(r, "trace-again")
    /\ changing = None
    /\ EndTask(r)
    /\ UNCHANGED <<stored, aborted>>

LastResort(r) ==
    /\ At(r, "last-resort") /\ changing = None
    /\ status' = [status EXCEPT ![r] = "failed"]
    /\ EndTask(r)
    /\ UNCHANGED <<outputs, published, copies, evidence, aborted>>

AdvanceRun(r) ==
    /\ \/ Prepare(r) \/ Verify(r) \/ Begin(r) \/ Launch(r) \/ Return(r) \/ Judge(r) \/ Save(r)
       \/ RecordStep(r) \/ Finish(r) \/ FailRun(r) \/ RecordFailure(r) \/ Trace(r) \/ LastResort(r)
    /\ UNCHANGED <<up, authority, requests, toggles, failures>>

-----------------------------------------------------------------------------
(* publish                                                                  *)

Release(r) ==
    /\ up /\ authority /\ r \notin releases
    /\ Recorded("ACTION_REQUESTED", r) /\ Recorded("HUMAN_APPROVED", r)
    /\ outputs[r] = Steps /\ \A i \in RunStep : <<"ACTION_EXECUTED", r, i>> \in evidence
    /\ releases' = releases \cup {r}
    /\ UNCHANGED <<up, authority, stored, asking, reviews, changing, tasks, toggles, failures>>

\* Mutant: an earlier publication is not looked at.
MayPublishAgain(r) == status[r] = "succeeded"

MayPublish(r) == status[r] = "succeeded" /\ ~ published[r]

\* Inside change: the files go to a directory of their own, then the evidence.
BeginPublication(r) ==
    /\ Free /\ r \in releases /\ releases' = releases \ {r}
    /\ IF MayPublish(r)
       THEN /\ changing' = [kind |-> "publish", run |-> r]
            /\ copies' = [copies EXCEPT ![r] = @ + 1]
            /\ evidence' = evidence \cup {<<"PUBLISHED", r, 0>>}
       ELSE UNCHANGED <<changing, copies, evidence>>
    /\ UNCHANGED <<up, authority, status, outputs, published, asking, reviews, tasks, toggles, failures>>

EndPublication ==
    /\ up /\ changing.kind = "publish" /\ changing' = None
    /\ published' = [published EXCEPT ![changing.run] = TRUE]
    /\ UNCHANGED <<up, authority, status, outputs, copies, evidence, asking, reviews, releases,
                   tasks, toggles, failures>>

-----------------------------------------------------------------------------
(* Failures, stops and the environment                                      *)

\* Where an exception leads that a place of the task may throw.
Handler(place) ==
    CASE place \in Trying -> "fail"
      [] place = "trace" -> "trace-again"
      [] OTHER -> "last-resort"

FailTask(r) ==
    /\ task[r].at \notin {"none", "executing"}
    /\ IF task[r].at = "last-resort" THEN EndTask(r)
       ELSE Go(r, Handler(task[r].at)) /\ UNCHANGED <<active, launched>>
    /\ UNCHANGED <<stored, requests, aborted>>

\* The write of a change, or the evidence of a request or a publication, fails.
\* The slot of an approval that was not stored stays taken.
FailRequest ==
    /\ \/ /\ changing # None /\ changing' = None
          /\ UNCHANGED <<asking, releases, copies>>
       \/ \E r \in asking : asking' = asking \ {r} /\ UNCHANGED <<releases, changing, copies>>
       \/ \E r \in releases :
             /\ changing = None /\ MayPublish(r)
             /\ releases' = releases \ {r} /\ copies' = [copies EXCEPT ![r] = @ + 1]
             /\ UNCHANGED <<asking, changing>>
    /\ UNCHANGED <<status, outputs, published, evidence, reviews, tasks>>

FailRooms ==
    /\ up /\ failures < MaxFailures /\ failures' = failures + 1
    /\ FailRequest \/ \E r \in Runs : FailTask(r)
    /\ UNCHANGED <<up, authority, toggles>>

\* stop: every controller is aborted, and the tasks are awaited.
Shutdown ==
    /\ up /\ active # {} /\ aborted' = aborted \cup active
    /\ UNCHANGED <<up, authority, stored, requests, active, task, launched, toggles, failures>>

Crash ==
    /\ up /\ failures < MaxFailures /\ failures' = failures + 1 /\ up' = FALSE
    /\ asking' = {} /\ reviews' = {} /\ releases' = {} /\ changing' = None
    /\ active' = {} /\ aborted' = {}
    /\ task' = [r \in Runs |-> [at |-> "none", step |-> 1]]
    /\ UNCHANGED <<authority, stored, launched, toggles>>

\* Mutant: what was running stays so, without a task.
InitializeRoomsAsIs ==
    /\ ~ up /\ up' = TRUE
    /\ UNCHANGED <<authority, stored, requests, tasks, toggles, failures>>

InitializeRooms ==
    /\ ~ up /\ up' = TRUE
    /\ status' = [r \in Runs |-> IF status[r] = "running" THEN "interrupted" ELSE status[r]]
    /\ UNCHANGED <<authority, outputs, published, copies, evidence, requests, tasks, toggles, failures>>

\* The mandate is suspended, revoked or reactivated by its own service.
Toggle ==
    /\ toggles < MaxToggles /\ toggles' = toggles + 1
    /\ authority' = ~ authority
    /\ UNCHANGED <<up, stored, requests, tasks, failures>>

RoomNext ==
    \/ \E r \in Runs : \/ Request(r) \/ RecordRequest(r) \/ Cancel(r)
                       \/ Review(r, "approve") \/ Review(r, "reject")
                       \/ Release(r) \/ BeginPublication(r) \/ AdvanceRun(r)
                       \/ Monitor(r) /\ UNCHANGED <<up, authority, requests, toggles, failures>>
    \/ \E d \in reviews : BeginDecision(d)
    \/ EndDecision \/ EndPublication
    \/ FailRooms \/ Shutdown \/ Crash \/ InitializeRooms \/ Toggle

RoomSpec == RoomInit /\ [][RoomNext]_roomVars

-----------------------------------------------------------------------------
(* Properties.                                                              *)

\* Besides the types: a task holds a slot until it ends.
RoomTypeOK ==
    /\ up \in BOOLEAN /\ authority \in BOOLEAN
    /\ status \in [Runs -> Status] /\ outputs \in [Runs -> 0..Steps]
    /\ published \in [Runs -> BOOLEAN] /\ copies \in [Runs -> Nat]
    /\ evidence \subseteq EventType \X Runs \X (0..Steps)
    /\ asking \subseteq Runs /\ releases \subseteq Runs
    /\ reviews \subseteq [kind : {"approve", "reject"}, run : Runs] /\ changing \in RoomChange
    /\ task \in [Runs -> [at : Place, step : RunStep]] /\ launched \subseteq Runs \X RunStep
    /\ active \subseteq Runs /\ aborted \subseteq Runs
    /\ \A r \in Runs : task[r].at # "none" => r \in active

\* "Execution is limited to ... two concurrent runs": the slots bound the tasks,
\* although they are taken in one place and released in another.
BoundedRuns == Cardinality({r \in Runs : task[r].at # "none"}) <= MaxActive

\* A run is stored as succeeded after every step of it is, and the ledger shows
\* its request, its approval and each output; a published run shows its release.
SucceededIsEvidenced ==
    \A r \in Runs :
       /\ status[r] = "succeeded" =>
             /\ outputs[r] = Steps
             /\ Recorded("ACTION_REQUESTED", r) /\ Recorded("HUMAN_APPROVED", r)
             /\ \A i \in RunStep : <<"ACTION_EXECUTED", r, i>> \in evidence
       /\ published[r] => Recorded("PUBLISHED", r)

\* "Runs interrupted by a server restart are marked interrupted; they are never
\* automatically replayed": an outcome stays, although the task of the run goes on after
\* it and two reviewers may decide it at once, and only the last resort of a task that
\* could not store or record its end turns it into a failure; and the CLI of a step is
\* started once at most, whatever is approved, stopped, failed or approved again.
OutcomeStays ==
    [][\A r \in Runs :
          /\ status[r] \in Settled /\ status'[r] # status[r] =>
                task[r].at = "last-resort" /\ status'[r] = "failed"
          /\ task[r].at # "executing" /\ task'[r].at = "executing" =>
                <<r, task[r].step>> \notin launched]_roomVars

\* Reviewers who publish the same run at once fill one directory; another only
\* follows a failure or a stop.
PublishedOnce == \A r \in Runs : copies[r] <= 1 + failures

\* A run that is stored as running has a task that will settle it, also after a
\* restart or one failed write anywhere: only a second failure orphans it.
RunningHasTask ==
    (up /\ failures <= 1) => \A r \in Runs : status[r] = "running" => task[r].at # "none"

\* The slots, the tasks and what is stored of the runs go together.
SlotsInv == RoomTypeOK /\ BoundedRuns /\ RunningHasTask
==============================================================================
