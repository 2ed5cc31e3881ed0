------------------------------- MODULE HumanEscalation -------------------------------
(***************************************************************************)
(* HumanEscalationCoordinator (packages/agents/src/                        *)
(* humanEscalationCoordinator.ts) over the approvals of                    *)
(* MultiHumanApproval, as the desktop host composes them: it asks for the  *)
(* approval of one frozen effect, and of one more that is to be rejected,  *)
(* follows them, and is the executor that consumeResume calls.             *)
(*                                                                         *)
(* The coordinator has a queue of its own.  Its operations call the        *)
(* approvals, and so wait for their queue; the approvals call its resume,  *)
(* and so wait for its queue.                                              *)
(***************************************************************************)
EXTENDS MultiHumanApproval

CONSTANT MaxTroubles \* bound on failed writes and stops, together

ASSUME TroublesAssumption == MaxTroubles \in Nat

VARIABLES
    up,     \* FALSE from a stop until initialize has recovered
    phase,  \* the coordinator's file
    turn,   \* the operation that has the coordinator's queue
    runs,   \* request -> the provider runs persisted with its key
    stops

vars == <<serviceVars, up, phase, turn, runs, stops>>

Status == {"ready", "approval-pending", "approved", "running", "completed",
           "rejection-pending", "completed-with-rejection"}
Phase == [status : Status, approval : Requests \cup {None}, rejection : Requests \cup {None}]

\* "polling", "starting" and "asking" wait for the approvals, "routing" for what was
\* asked of them; the last three are a resume the approvals have called.
Idle == [at |-> "idle", req |-> None, key |-> None]
Turn ==
    [at : {"idle", "polling"}, req : {None}, key : {None}]
    \cup [at : {"starting", "asking", "routing", "asked"}, req : Requests, key : Keys]
    \cup [at : {"launching", "launched", "waiting"}, req : Requests, key : {None}]
At(place) == up /\ turn.at = place

\* configure has been called: the policy, the role and the credential are there.
Init ==
    /\ ServiceInit /\ up = TRUE /\ runs = [q \in Requests |-> 0]
    /\ phase = [status |-> "ready", approval |-> None, rejection |-> None]
    /\ turn = Idle /\ stops = 0

StatusOf(q) == IF q = None THEN "none" ELSE request[q]
Ran == phase.status \in {"running", "completed", "rejection-pending", "completed-with-rejection"}

\* reconcileHumanEscalationState
Reconciled ==
    LET primary == StatusOf(phase.approval)
        rejection == StatusOf(phase.rejection)
    IN CASE rejection = "rejected" -> [phase EXCEPT !.status = "completed-with-rejection"]
         [] phase.status = "rejection-pending" /\ rejection = "closed" ->
                [phase EXCEPT !.status = "completed", !.rejection = None]
         [] ~ Ran /\ rejection # "rejected" /\ primary = "closed" ->
                [phase EXCEPT !.status = "ready", !.approval = None]
         [] phase.status = "approval-pending" /\ rejection # "rejected" /\ primary = "approved" ->
                [phase EXCEPT !.status = "approved"]
         [] OTHER -> phase

-----------------------------------------------------------------------------
(* getState and the two starts                                              *)

Poll ==
    /\ At("idle") /\ {phase.approval, phase.rejection} # {None}
    /\ turn' = [Idle EXCEPT !.at = "polling"]
    /\ UNCHANGED <<serviceVars, up, phase, runs, stops>>

Answer ==
    /\ At("polling") /\ op = <<>>
    /\ phase' = Reconciled /\ turn' = Idle
    /\ UNCHANGED <<serviceVars, up, runs, stops>>

\* start, of a phase that is ready, and startRejection, of one that is completed
Start(q, k) ==
    /\ At("idle") /\ request[q] = "none"
    /\ turn' = [Idle EXCEPT !.at = "starting", !.req = q, !.key = k]
    /\ UNCHANGED <<serviceVars, up, phase, runs, stops>>

\* The phase is reconciled and checked.
LookBefore ==
    /\ At("starting") /\ op = <<>>
    /\ phase' = Reconciled
    /\ turn' = IF Reconciled.status \in {"ready", "completed"}
               THEN [turn EXCEPT !.at = "asking"] ELSE Idle
    /\ UNCHANGED <<serviceVars, up, runs, stops>>

\* requestEscalation throws, or returns what there is of the key: then nothing is new.
Ask ==
    /\ At("asking")
    /\ \/ Request(turn.req, turn.key) /\ turn' = [turn EXCEPT !.at = "routing"]
       \/ ~ MayRoute(turn.req, turn.key) /\ op = <<>> /\ turn' = Idle /\ UNCHANGED serviceVars
    /\ UNCHANGED <<up, phase, runs, stops>>

Mine == At("routing") /\ op # <<>> /\ Reqs = {turn.req} /\ Head(op).do \in {"route", "context"}

NoteRequest ==
    /\ At("asked") /\ turn' = Idle
    /\ phase' = IF phase.status = "ready"
                THEN [phase EXCEPT !.status = "approval-pending", !.approval = turn.req]
                ELSE [phase EXCEPT !.status = "rejection-pending", !.rejection = turn.req]
    /\ UNCHANGED <<serviceVars, up, runs, stops>>

\* An event of the request, or the coordinator's own write, fails.
NoteFails ==
    /\ At("asked") /\ faults + stops < MaxTroubles /\ faults' = faults + 1 /\ turn' = Idle
    /\ UNCHANGED <<files, cred, op, up, phase, runs, stops>>

-----------------------------------------------------------------------------
(* resume: the executor of consumeResume                                    *)

\* The frozen effect of a rejection is another than that of the phase's approval.
Matches(q) == q = phase.approval /\ phase.rejection = None

Launch ==
    /\ At("idle") /\ Doing("execute")
    /\ \E q \in Reqs :
         IF Matches(q) THEN turn' = [Idle EXCEPT !.at = "launching", !.req = q] /\ UNCHANGED op
         ELSE op' = Thrown /\ UNCHANGED turn
    /\ UNCHANGED <<files, cred, faults, up, phase, runs, stops>>

\* The supervisor checks the authority again and persists its run before it spawns.
StartRun ==
    /\ At("launching")
    /\ \E i \in DOMAIN mandates : mandates[i] = [req |-> turn.req, status |-> "active"]
    /\ runs' = [runs EXCEPT ![turn.req] = @ + 1] /\ turn' = [turn EXCEPT !.at = "launched"]
    /\ UNCHANGED <<serviceVars, up, phase, stops>>

NoteRun ==
    /\ At("launched") /\ phase' = [phase EXCEPT !.status = "running"]
    /\ turn' = [turn EXCEPT !.at = "waiting"]
    /\ UNCHANGED <<serviceVars, up, runs, stops>>

RunSucceeds ==
    /\ At("waiting") /\ phase' = [phase EXCEPT !.status = "completed"]
    /\ turn' = Idle /\ op' = Tail(op)
    /\ UNCHANGED <<files, cred, faults, up, runs, stops>>

\* The run is refused, fails or is revoked, or a step after it fails; the phase stays.
ResumeFails ==
    /\ up /\ turn.at \in {"launching", "launched", "waiting"}
    /\ turn' = Idle /\ op' = Thrown
    /\ UNCHANGED <<files, cred, faults, up, phase, runs, stops>>

-----------------------------------------------------------------------------
(* The approvals' own steps, stops, and initialize                          *)

\* Decisions, withdrawals and resumes come from any window, at any time.
Operate ==
    /\ up /\ UNCHANGED <<up, phase, turn, runs, stops>>
    /\ \/ Expire
       \/ \E q \in Requests : \/ Withdraw(q) \/ ConsumeResume(q)
             \/ \E m \in Members, v \in {"approve", "reject"} : SubmitDecision(q, m, v)

\* A step of the operation that has the approvals' queue; the end of what the
\* coordinator asked for is its turn again.
Step ==
    /\ up /\ UNCHANGED <<up, phase, runs, stops>>
    /\ \/ Check \/ Route \/ Frame \/ Sign \/ WriteRequests \/ WriteMandates \/ WriteResumes
       \/ Begin \/ RecordResume
    /\ turn' = IF Mine /\ Doing("context") THEN [turn EXCEPT !.at = "asked"] ELSE turn

Fail ==
    /\ up /\ faults + stops < MaxTroubles /\ StepFails /\ turn' = IF Mine THEN Idle ELSE turn
    /\ UNCHANGED <<up, phase, runs, stops>>

Stop ==
    /\ up /\ faults + stops < MaxTroubles /\ stops' = stops + 1
    /\ up' = FALSE /\ op' = <<>> /\ turn' = Idle
    /\ UNCHANGED <<files, cred, faults, phase, runs>>

\* Mutant: the resume is made ready whether or not a run was persisted.
InitializeReady ==
    /\ ~ up /\ up' = TRUE
    /\ resumes' = [i \in DOMAIN resumes |->
          IF resumes[i].req = phase.approval /\ resumes[i].status = "executing"
          THEN [resumes[i] EXCEPT !.status = "ready"] ELSE resumes[i]]
    /\ UNCHANGED <<request, eligible, contexts, decisions, mandates, cred, op, faults, phase, turn, runs, stops>>

\* initialize and recoverInterruptedResume: the phase's resume, if it was executing.
Initialize ==
    /\ ~ up /\ up' = TRUE
    /\ resumes' = [i \in DOMAIN resumes |->
          IF resumes[i].req = phase.approval /\ resumes[i].status = "executing"
          THEN [resumes[i] EXCEPT !.status = IF runs[phase.approval] > 0 THEN "failed" ELSE "ready"]
          ELSE resumes[i]]
    /\ UNCHANGED <<request, eligible, contexts, decisions, mandates, cred, op, faults, phase, turn, runs, stops>>

\* The organization changes at any time; during a step that does not look at it, it may
\* as well change afterwards.
Organization ==
    /\ op = <<>> \/ Doing("check") \/ Doing("decide")
    /\ \E m \in Members \ {Requester} : ChangeStanding(m) \/ IssueCredential(m)
    /\ UNCHANGED <<up, phase, turn, runs, stops>>

Next ==
    \/ Operate \/ Step \/ Fail \/ Organization
    \/ Poll \/ Answer \/ LookBefore \/ Ask \/ NoteRequest \/ NoteFails
    \/ \E q \in Requests, k \in Keys : Start(q, k)
    \/ Launch \/ StartRun \/ NoteRun \/ RunSucceeds \/ ResumeFails
    \/ Stop \/ Initialize

\* What was begun goes on: the steps of both queues, and the end of a provider run.
Fairness ==
    /\ WF_vars(Step)
    /\ WF_vars(Answer \/ LookBefore \/ Ask \/ NoteRequest)
    /\ WF_vars(Launch) /\ WF_vars(StartRun \/ NoteRun \/ RunSucceeds \/ ResumeFails)
    /\ WF_vars(Initialize)

Spec == Init /\ [][Next]_vars /\ Fairness

-----------------------------------------------------------------------------
(* Properties                                                               *)

\* The variables hold values of their types.
TypeOK ==
    /\ request \in [Requests -> {"none"} \cup Open \cup Closed]
    /\ eligible \in [Requests -> SUBSET Members] /\ contexts \in [Requests -> Keys \cup {None}]
    /\ decisions \subseteq Decision /\ mandates \in Seq(Mandate) /\ resumes \in Seq(Resume)
    /\ cred \subseteq Members /\ faults \in Nat /\ stops \in Nat /\ faults + stops <= MaxTroubles
    /\ \A i \in DOMAIN resumes : resumes[i].mandate \in DOMAIN mandates
    /\ up \in BOOLEAN /\ phase \in Phase /\ turn \in Turn /\ runs \in [Requests -> Nat]
    /\ (~ up => op = <<>> /\ turn = Idle)

\* The requests of one key cause one provider run between them, whatever stops and
\* fails, and whether the request or the resume was interrupted.
EffectOnce ==
    \A q \in Requests : runs[q] <= 1 /\ \A r \in Requests \ {q} :
        contexts[q] = contexts[r] => runs[q] = 0 \/ runs[r] = 0

\* A provider run starts only on an open approval of a quorum of the memberships the
\* request was routed to, none of them the requester, and under an active child mandate of that request; without a fault, nobody has rejected it.
RunsStandOnQuorum ==
    [][\A q \in Requests : runs'[q] # runs[q] =>
         /\ request[q] = "approved"
         /\ Cardinality(By(Approvals(q)) \cap (eligible[q] \ {Requester})) >= Quorum
         /\ faults + stops = 0 => Decisions(q, "reject") = {}
         /\ \E i \in DOMAIN mandates : mandates[i] = [req |-> q, status |-> "active"]]_vars

\* Whenever the approvals are idle the resume of the phase is not left executing, unless
\* the write that would have said so failed.
NoneLeftExecuting ==
    up /\ op = <<>> /\ faults = 0 /\ phase.approval # None => ~ Executing(phase.approval)

\* Without a fault, whenever the approvals are idle their files agree: an approved
\* request has one mandate and one resume, a pending or rejected one has none; the
\* mandate is active until the resume has completed or the request is closed, and no
\* closed request has a resume that is ready.  After a stop, too, nothing is left
\* executing.
FilesAgree ==
    /\ NoneLeftExecuting
    /\ faults + stops = 0 /\ op = <<>> => \A q \in Requests :
        LET granted == {i \in DOMAIN mandates : mandates[i].req = q}
            statuses == {resumes[i].status : i \in ResumesOf(q)}
        IN /\ Cardinality(granted) = Cardinality(ResumesOf(q)) /\ Cardinality(granted) <= 1
           /\ request[q] = "approved" => granted # {}
           /\ request[q] \in {"none", "pending", "rejected"} => granted = {}
           /\ \A i \in granted :
                /\ mandates[i].status = "consumed" <=> statuses = {"completed"}
                /\ mandates[i].status = "active" <=>
                     request[q] = "approved" /\ statuses \subseteq {"ready", "failed"}
           /\ request[q] \in Closed => "ready" \notin statuses

\* The five files hold what their services take them to hold, at every step and when the
\* approvals are idle.
FilesInv == TypeOK /\ FilesAgree

\* docs/plan3/PHASE_28_GUIDED_ACCEPTANCE.md:23: "Click **Resume once**. Wait for the
\* official Claude process to finish. Confirm Phase 28 becomes `completed`": what was
\* approved and is executing comes to an end.
ResumeEnds == \A q \in Requests : Executing(q) ~> ~ Executing(q)
==============================================================================
