----------------------------- MODULE MultiHumanApproval -----------------------------
(***************************************************************************)
(* MultiHumanApprovalService (packages/organization/src/                   *)
(* multiHumanApprovalService.ts): an effect an agent may not have alone is *)
(* routed to eligible employees; a quorum of them gives it a narrow child  *)
(* mandate and one resume of the paused action.                            *)
(*                                                                         *)
(* The requests, their contexts, the decisions, the child mandates and the *)
(* resumes are five files.  One queue runs one operation of the service at *)
(* a time: what it reads, no other operation changes, and it is a sequence *)
(* of writes of those files, each awaited, between which the application   *)
(* may stop and any of which may fail.  The organization is a service of   *)
(* its own, and changes meanwhile.                                         *)
(***************************************************************************)
EXTENDS Naturals, Sequences, FiniteSets

CONSTANTS
    Requests,  \* the requests that may be routed
    Keys,      \* the idempotency keys they are asked for with
    None,
    Members,   \* the memberships that hold an eligible role
    Requester, \* the one of them for whom the effect is asked
    Quorum     \* of the one policy, which separates duties

ASSUME NoneAssumption == None \notin Requests \cup Keys
ASSUME QuorumAssumption == Quorum \in Nat \ {0}

VARIABLES
    request,   \* request -> its status in the file of requests, "none" before
    eligible,  \* request -> the memberships it was routed to
    contexts,  \* request -> the key in its context, None without one
    decisions, \* the signed ones
    mandates,  \* the child mandates, in the order they were issued
    resumes,   \* in the order they were queued
    cred,      \* the memberships whose newest credential is active
    op,        \* what is left to do of the operation that has the queue
    faults     \* failed writes

files == <<request, eligible, contexts, decisions, mandates, resumes>>
serviceVars == <<files, cred, op, faults>>

Open == {"pending", "approved"}

\* "closed" is expired, withdrawn or invalidated, "ended" expired or revoked: nothing in
\* the code tells them apart afterwards.
Closed == {"rejected", "closed"}

\* newest: no credential was issued to the approver since the one that was used
Decision == [req : Requests, by : Members, verdict : {"approve", "reject"}, newest : BOOLEAN]
Mandate == [req : Requests, status : {"active", "consumed", "ended"}]
Resume == [req : Requests, mandate : Nat \ {0},
           status : {"ready", "executing", "completed", "failed", "invalidated"}]

ServiceInit ==
    /\ request = [q \in Requests |-> "none"] /\ eligible = [q \in Requests |-> {}]
    /\ contexts = [q \in Requests |-> None] /\ decisions = {} /\ mandates = <<>> /\ resumes = <<>>
    /\ cred = Members
    /\ op = <<>> /\ faults = 0

Decisions(q, verdict) == {d \in decisions : d.req = q /\ d.verdict = verdict}
Approvals(q) == Decisions(q, "approve")
By(D) == {d.by : d \in D}
ResumesOf(q) == {i \in DOMAIN resumes : resumes[i].req = q}
ResumeOf(q) == CHOOSE i \in ResumesOf(q) : \A j \in ResumesOf(q) : i <= j
Executing(q) == \E i \in ResumesOf(q) : resumes[i].status = "executing"

\* One thing an operation does between two awaits, about some requests.
Do(what, reqs, arg) == [do |-> what, reqs |-> reqs, arg |-> arg]
Doing(what) == op # <<>> /\ Head(op).do = what
Arg == Head(op).arg
Reqs == Head(op).reqs
Done == op' = Tail(op)

-----------------------------------------------------------------------------
(* The operations: their guards, and the writes they will make              *)

\* expire and invalidate
\* Mutant: the child mandate is forgotten.
EndKeepsMandate(Q) == <<Do("requests", Q, "closed"), Do("resumes", Q, "invalidated")>>

End(Q) == <<Do("requests", Q, "closed"), Do("mandates", Q, "ended"), Do("resumes", Q, "invalidated")>>

\* expire, which opens every operation but withdraw and the recovery: what is over at
\* that moment is closed; what is executing is left.
Expire ==
    /\ op = <<>>
    /\ \E Q \in SUBSET {q \in Requests : request[q] \in Open /\ ~ Executing(q)} :
         Q # {} /\ op' = End(Q)
    /\ UNCHANGED <<files, cred, faults>>

EligibleNow == cred \ {Requester}

\* requestEscalation: a key is known by its context.
MayRoute(q, k) ==
    /\ request[q] = "none" /\ \A r \in Requests : contexts[r] # k
    /\ Cardinality(EligibleNow) >= Quorum

Request(q, k) ==
    /\ op = <<>> /\ MayRoute(q, k)
    /\ op' = <<Do("route", {q}, EligibleNow), Do("context", {q}, k)>>
    /\ UNCHANGED <<files, cred, faults>>

Decides(q, m, verdict) ==
    LET signed == Do("decide", {q}, [req |-> q, by |-> m, verdict |-> verdict, newest |-> TRUE])
        reached == Cardinality(By(Approvals(q)) \cup {m}) >= Quorum
    IN op' = IF verdict = "reject" THEN <<signed, Do("requests", {q}, "rejected")>>
             ELSE IF reached THEN <<signed, Do("grant", {q}, "active"), Do("queue", {q}, "ready"),
                                    Do("requests", {q}, "approved")>>
             ELSE <<signed>>

\* submitDecision: the authority of the approver is evaluated before the first write.
SubmitDecision(q, m, verdict) ==
    /\ op = <<>> /\ request[q] = "pending" /\ contexts[q] # None
    /\ m \in eligible[q] \ {Requester} /\ m \notin By({d \in decisions : d.req = q}) /\ m \in cred
    /\ Decides(q, m, verdict)
    /\ UNCHANGED <<files, cred, faults>>

\* withdraw, by the requester
Withdraw(q) ==
    /\ op = <<>> /\ request[q] \in Open /\ contexts[q] # None
    /\ op' = End({q})
    /\ UNCHANGED <<files, cred, faults>>

\* What consumeResume does within its try block.
Tried == {"execute", "complete", "consume", "record"}

\* Mutant: the status of the request is not looked at.
ConsumeAny(q) ==
    LET i == ResumeOf(q) IN
    /\ op = <<>> /\ ResumesOf(q) # {} /\ resumes[i].status = "ready"
    /\ op' = <<Do("begin", {q}, i), Do("execute", {q}, i), Do("complete", {q}, i),
               Do("consume", {q}, resumes[i].mandate), Do("record", {q}, i)>>
    /\ UNCHANGED <<files, cred, faults>>

\* consumeResume: every approval is evaluated again, one await each.
ConsumeResume(q) ==
    LET i == ResumeOf(q) IN
    /\ op = <<>> /\ request[q] = "approved" /\ contexts[q] # None /\ ResumesOf(q) # {}
    /\ resumes[i].status = "ready" /\ Cardinality(Approvals(q)) >= Quorum
    /\ \E approvals \in [1 .. Cardinality(Approvals(q)) -> Approvals(q)] :
         /\ Approvals(q) = {approvals[j] : j \in DOMAIN approvals}
         /\ op' = [j \in DOMAIN approvals |-> Do("check", {q}, approvals[j])] \o
               <<Do("begin", {q}, i), Do("execute", {q}, i), Do("complete", {q}, i),
                 Do("consume", {q}, resumes[i].mandate), Do("record", {q}, i)>>
    /\ UNCHANGED <<files, cred, faults>>

-----------------------------------------------------------------------------
(* The steps of an operation                                                *)

\* The proof of an approver may be over at any check; then nothing is invalidated.
Check ==
    /\ Doing("check")
    /\ LET valid == Arg.by \in cred /\ \E d \in decisions : d = [Arg EXCEPT !.newest = TRUE] IN
       \/ valid /\ Done
       \/ ~ valid /\ op' = End(Reqs)
       \/ op' = <<>>
    /\ UNCHANGED <<files, cred, faults>>

Route ==
    /\ Doing("route")
    /\ request' = [q \in Requests |-> IF q \in Reqs THEN "pending" ELSE request[q]]
    /\ eligible' = [q \in Requests |-> IF q \in Reqs THEN Arg ELSE eligible[q]]
    /\ Done /\ UNCHANGED <<contexts, decisions, mandates, resumes, cred, faults>>

Frame ==
    /\ Doing("context") /\ contexts' = [q \in Requests |-> IF q \in Reqs THEN Arg ELSE contexts[q]]
    /\ Done /\ UNCHANGED <<request, eligible, decisions, mandates, resumes, cred, faults>>

Sign ==
    /\ Doing("decide") /\ decisions' = decisions \cup {Arg}
    /\ Done /\ UNCHANGED <<request, eligible, contexts, mandates, resumes, cred, faults>>

WriteRequests ==
    /\ Doing("requests")
    /\ request' = [q \in Requests |-> IF q \in Reqs THEN Arg ELSE request[q]]
    /\ Done /\ UNCHANGED <<eligible, contexts, decisions, mandates, resumes, cred, faults>>

WriteMandates ==
    /\ \/ /\ Doing("grant")
          /\ mandates' = Append(mandates, [req |-> CHOOSE q \in Reqs : TRUE, status |-> Arg])
       \/ /\ Doing("mandates")
          /\ mandates' = [i \in DOMAIN mandates |->
                IF mandates[i].req \in Reqs /\ mandates[i].status = "active"
                THEN [mandates[i] EXCEPT !.status = Arg] ELSE mandates[i]]
       \/ /\ Doing("consume")
          /\ mandates' = [mandates EXCEPT ![Arg].status = "consumed"]
    /\ Done /\ UNCHANGED <<request, eligible, contexts, decisions, resumes, cred, faults>>

WriteResumes ==
    /\ \/ /\ Doing("queue")
          /\ resumes' = Append(resumes, [req |-> CHOOSE q \in Reqs : TRUE,
                                         mandate |-> Len(mandates), status |-> Arg])
       \/ /\ Doing("resumes")
          /\ resumes' = [i \in DOMAIN resumes |->
                IF resumes[i].req \in Reqs /\ resumes[i].status = "ready"
                THEN [resumes[i] EXCEPT !.status = Arg] ELSE resumes[i]]
       \/ /\ Doing("complete") /\ resumes' = [resumes EXCEPT ![Arg].status = "completed"]
       \/ /\ Doing("fail") /\ resumes' = [resumes EXCEPT ![Arg].status = "failed"]
    /\ Done /\ UNCHANGED <<request, eligible, contexts, decisions, mandates, cred, faults>>

\* The resume is stored as executing before the executor is called.
Begin ==
    /\ Doing("begin")
    /\ IF mandates[resumes[Arg].mandate].status = "active"
       THEN resumes' = [resumes EXCEPT ![Arg].status = "executing"] /\ Done
       ELSE op' = <<>> /\ UNCHANGED resumes
    /\ UNCHANGED <<request, eligible, contexts, decisions, mandates, cred, faults>>

\* The event of a resume that completed.
RecordResume == Doing("record") /\ Done /\ UNCHANGED <<files, cred, faults>>

\* What is left of an operation one step of which has thrown: the catch block of
\* consumeResume stores the resume as failed, whatever it was.
Thrown == IF op # <<>> /\ Head(op).do \in Tried
          THEN <<Do("fail", Reqs, ResumeOf(CHOOSE q \in Reqs : TRUE))>> ELSE <<>>

\* A write, a signature or an event fails.
StepFails ==
    /\ op # <<>> /\ Head(op).do # "execute" /\ faults' = faults + 1
    /\ op' = Thrown
    /\ UNCHANGED <<files, cred>>

-----------------------------------------------------------------------------
(* The organization                                                         *)

\* Suspension or transfer of the membership revokes its credential (OrganizationService
\* updateMembership); the credential alone may be suspended and given back (updateCredential).
ChangeStanding(m) ==
    /\ cred' = IF m \in cred THEN cred \ {m} ELSE cred \cup {m}
    /\ UNCHANGED <<files, op, faults>>

\* issueCredential: the earlier one is revoked, also for a decision being signed.
IssueCredential(m) ==
    LET Aged(d) == IF d.by = m THEN [d EXCEPT !.newest = FALSE] ELSE d IN
    /\ cred' = cred \cup {m} /\ decisions' = {Aged(d) : d \in decisions}
    /\ op' = IF Doing("decide") THEN <<Do("decide", Reqs, Aged(Arg))>> \o Tail(op) ELSE op
    /\ UNCHANGED <<request, eligible, contexts, mandates, resumes, faults>>
==============================================================================
