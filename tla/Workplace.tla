-------------------------------- MODULE Workplace --------------------------------
(***************************************************************************)
(* The floor of agents and assignments (packages/storage, WorkplaceReposi- *)
(* tory) and the three services that share it: identity (passports,        *)
(* runtimes and sessions), mandates (what it projects on the floor) and    *)
(* collaboration (the assignments).                                        *)
(*                                                                         *)
(* Each service runs its operations one after another, but not with those  *)
(* of the others: it reads the floor, and writes back a whole file that it *)
(* computed from what it read.  An operation is a list of steps, op[s]; an *)
(* exception or a stop abandons it.                                        *)
(***************************************************************************)
EXTENDS Naturals, Sequences

CONSTANTS
    Agents,         \* agents that have or may get a passport
    Newcomers,      \* those of them that have none yet
    MaxItems,       \* bound on the assignments
    MaxMandates,    \* bound on the mandates
    MaxOps,         \* bound on the operations started
    MaxFaults       \* bound on failed writes and stops

ASSUME BoundsAssumption ==
    /\ Newcomers \subseteq Agents
    /\ {MaxItems, MaxMandates, MaxOps, MaxFaults} \subseteq Nat

VARIABLES
    fleet, work,    \* the files of the floor: a row for each agent, the assignments
    passport,       \* agent -> its passports of the first and of the second version
    runtime,        \* agent -> whether its binding is connected
    session,        \* agent -> its newest runtime session
    mandates,       \* the mandates, oldest first
    queued,         \* the assignments the activity log shows
    responses,      \* assignment -> its responses in the log
    op,             \* service -> the steps its operation still owes
    ops, faults,
    overlapped      \* what was written from an outdated read: rows of agents, the assignments

records == <<passport, runtime, session, mandates, queued, responses>>
vars == <<fleet, work, records, op, ops, faults, overlapped>>

Services == {"identity", "mandates", "collaboration"}
Lifecycle == {"none", "active", "suspended", "revoked"}
Session == {"none", "ready", "suspended", "stopped", "revoked"}
Absent == [status |-> "absent", mandate |-> 0]
Row == [status : {"ready", "working", "approval-required", "blocked", "offline"}, mandate : Nat] \cup {Absent}
ItemStatus == {"queued", "active", "approval", "blocked", "complete"}
Item == [status : ItemStatus, agent : Agents, mandate : Nat, responses : Nat]

Init ==
    /\ passport \in {p \in [Agents -> [v1 : {"none", "active"}, v2 : {"none", "active"}]] :
                        \A a \in Agents : (a \in Newcomers <=> p[a].v1 = "none")
                                          /\ (p[a].v1 = "none" => p[a].v2 = "none")}
    /\ fleet = [a \in Agents |-> IF a \in Newcomers THEN Absent ELSE [status |-> "ready", mandate |-> 0]]
    /\ runtime = [a \in Agents |-> a \notin Newcomers]
    /\ session = [a \in Agents |-> IF passport[a].v2 = "none" THEN "none" ELSE "ready"]
    /\ work = <<>> /\ mandates = <<>>
    /\ queued = 0 /\ responses = [i \in 1..MaxItems |-> 0]
    /\ op = [s \in Services |-> <<>>]
    /\ ops = 0 /\ faults = 0 /\ overlapped = [rows |-> {}, work |-> FALSE]

-----------------------------------------------------------------------------
(* Steps                                                                    *)

\* Write a file of the floor back, as it was read but for the change.
WriteFleet(to) == [kind |-> "fleet", from |-> fleet, to |-> to]
WriteWork(to) == [kind |-> "work", from |-> work, to |-> to]
\* Read the floor only when the step comes.
Look(change, about) == [kind |-> change, about |-> about]
SetPassport(a, v, status) == [kind |-> v, about |-> a, status |-> status]
SetRuntime(a, connected) == [kind |-> "runtime", about |-> a, status |-> connected]
SetSession(a, status) == [kind |-> "session", about |-> a, status |-> status]

Live(a) == session[a] \in {"ready", "suspended"}

\* toSummary
Shown(a) ==
    CASE passport[a].v1 = "active" -> IF runtime[a] THEN "ready" ELSE "offline"
      [] passport[a].v1 = "suspended" -> "blocked"
      [] OTHER -> "offline"

Start(s, steps) ==
    /\ op[s] = <<>> /\ ops < MaxOps /\ ops' = ops + 1
    /\ op' = [op EXCEPT ![s] = steps]
    /\ UNCHANGED <<fleet, work, records, faults, overlapped>>

-----------------------------------------------------------------------------
(* AgentIdentityService                                                     *)

\* attestRuntimeUnlocked: the session before it is rotated out.
Attestation(a) == <<SetSession(a, "ready"), SetRuntime(a, TRUE), Look("show-attested", a)>>

CreateAgent(a) ==
    /\ passport[a].v1 = "none"
    /\ \E modern \in BOOLEAN :
          Start("identity",
                <<SetPassport(a, "v1", "active")>>
                \o (IF modern THEN <<SetPassport(a, "v2", "active")>> ELSE <<>>)
                \o <<SetRuntime(a, TRUE), Look("show-new", a)>>
                \o (IF modern THEN Attestation(a) ELSE <<>>))

\* Mutant: the sessions of a suspended passport run on.
UpdatePassportOnly(a, status) ==
    /\ passport[a].v1 \in {"active", "suspended"}
    /\ status = "active" => passport[a].v1 = "suspended"
    /\ Start("identity",
             <<SetPassport(a, "v1", status)>>
             \o (IF passport[a].v2 = "none" THEN <<>> ELSE <<SetPassport(a, "v2", status)>>)
             \o (IF passport[a].v2 # "none" /\ status = "revoked" /\ Live(a)
                 THEN <<SetSession(a, status)>> ELSE <<>>)
             \o <<Look("show-lifecycle", a)>>)

UpdatePassport(a, status) ==
    /\ passport[a].v1 \in {"active", "suspended"}
    /\ status = "active" => passport[a].v1 = "suspended"
    /\ Start("identity",
             <<SetPassport(a, "v1", status)>>
             \o (IF passport[a].v2 = "none" THEN <<>> ELSE <<SetPassport(a, "v2", status)>>)
             \o (IF passport[a].v2 # "none" /\ status # "active" /\ Live(a)
                 THEN <<SetSession(a, status)>> ELSE <<>>)
             \o <<Look("show-lifecycle", a)>>)

UpdateRuntime(a, connect) ==
    /\ passport[a].v1 # "none" /\ (connect => passport[a].v1 = "active")
    /\ Start("identity", <<SetRuntime(a, connect), Look("show-runtime", a)>>
                         \o (IF ~ connect /\ Live(a) THEN <<SetSession(a, "stopped")>> ELSE <<>>))

AttestRuntime(a) ==
    /\ passport[a].v2 = "active"
    /\ Start("identity", Attestation(a))

\* The second version takes the status of the first, whatever it is.
MigrateV1Passports(a) ==
    /\ passport[a].v1 # "none" /\ passport[a].v2 = "none"
    /\ Start("identity", <<SetPassport(a, "v2", passport[a].v1)>>)

-----------------------------------------------------------------------------
(* MandateService, where it reaches the floor                               *)

\* The mandates read the file of the passports themselves, also in the middle of an
\* operation of the identities.
Create(a) ==
    /\ Len(mandates) < MaxMandates /\ passport[a].v1 = "active"
    /\ Start("mandates", <<[kind |-> "issue", about |-> a], Look("show-mandate", a)>>)

Revoke(m) ==
    /\ mandates[m].status = "active"
    /\ Start("mandates", <<[kind |-> "revoke", about |-> m], Look("contain", m)>>)

-----------------------------------------------------------------------------
(* AgentCollaborationService: the floor is read once, at the beginning      *)

\* Mutant: an agent that is offline is not refused.
RequireAgentListed(a) == fleet[a] # Absent

RequireAgent(a) == fleet[a].status \notin {"absent", "offline"}

CreateAssignment(a) ==
    /\ Len(work) < MaxItems /\ RequireAgent(a)
    /\ Start("collaboration",
             <<WriteWork(Append(work, [status |-> "queued", agent |-> a,
                                       mandate |-> fleet[a].mandate, responses |-> 0])),
               [kind |-> "queued"]>>)

AllowedTransitions ==
    [queued |-> {"active", "blocked"}, active |-> {"approval", "blocked", "complete"},
     approval |-> {"active", "blocked"}, blocked |-> {"queued", "active"}, complete |-> {"active"}]

\* updateAgentProjection
Projection(before, item) ==
    [a \in Agents |->
        CASE a = item.agent ->
               [fleet[a] EXCEPT !.status = CASE item.status = "active" -> "working"
                                             [] item.status = "approval" -> "approval-required"
                                             [] item.status = "blocked" -> "blocked"
                                             [] OTHER -> "ready"]
          [] a = before /\ a # item.agent -> [fleet[a] EXCEPT !.status = "ready"]
          [] OTHER -> fleet[a]]

UpdateAssignment(i, a, status) ==
    LET current == work[i]
        next == [current EXCEPT !.agent = a, !.status = status,
                                !.mandate = IF a = current.agent THEN @ ELSE fleet[a].mandate]
    IN /\ RequireAgent(current.agent) /\ RequireAgent(a)
       /\ status = current.status \/ status \in AllowedTransitions[current.status]
       /\ Start("collaboration", <<WriteWork([work EXCEPT ![i] = next]),
                                   WriteFleet(Projection(current.agent, next))>>)

RebindAssignmentAuthority(i, m) ==
    /\ mandates[m].agent = work[i].agent /\ fleet[work[i].agent] # Absent
    /\ Start("collaboration", <<WriteFleet([fleet EXCEPT ![work[i].agent].mandate = m]),
                                WriteWork([work EXCEPT ![i].mandate = m])>>)

\* Mutant: the response is counted before it is logged.
RecordResponseCounted(i) ==
    /\ RequireAgent(work[i].agent)
    /\ Start("collaboration", <<WriteWork([work EXCEPT ![i].responses = @ + 1]),
                                [kind |-> "response", about |-> i]>>)

\* The response is in the log before it is counted.
RecordResponse(i) ==
    /\ RequireAgent(work[i].agent)
    /\ Start("collaboration", <<[kind |-> "response", about |-> i],
                                WriteWork([work EXCEPT ![i].responses = @ + 1])>>)

-----------------------------------------------------------------------------
(* Performing a step                                                        *)

\* What a service makes of the floor that it reads now.
NewFleet(change, x) ==
    CASE change = "show-new" -> [fleet EXCEPT ![x] = [status |-> Shown(x), mandate |-> 0]]
      [] change = "show-lifecycle" ->
            [fleet EXCEPT ![x] = IF @ = Absent THEN @ ELSE [@ EXCEPT !.status =
                CASE passport[x].v1 = "active" -> "ready"
                  [] passport[x].v1 = "suspended" -> "blocked"
                  [] OTHER -> "offline"]]
      [] change = "show-runtime" ->
            [fleet EXCEPT ![x] = IF @ = Absent \/ @.mandate # 0 THEN @ ELSE [@ EXCEPT !.status = Shown(x)]]
      [] change = "show-attested" ->
            [fleet EXCEPT ![x] = IF @ = Absent \/ @.mandate # 0 THEN @ ELSE [@ EXCEPT !.status = "ready"]]
      [] change = "show-mandate" ->
            [fleet EXCEPT ![x] = IF @ = Absent THEN @ ELSE [@ EXCEPT !.mandate = Len(mandates)]]
      [] OTHER ->
            [a \in Agents |-> IF fleet[a].mandate = x THEN [fleet[a] EXCEPT !.status = "blocked"]
                              ELSE fleet[a]]

Contained(m) == [i \in DOMAIN work |-> IF work[i].mandate = m THEN [work[i] EXCEPT !.status = "blocked"]
                                       ELSE work[i]]

Reads == {"show-new", "show-lifecycle", "show-runtime", "show-attested", "show-mandate", "contain"}

\* containRevocation writes both files at once, in either order.
Read(s) ==
    /\ op[s] # <<>> /\ Head(op[s]).kind \in Reads
    /\ LET step == Head(op[s])
           agents == <<WriteFleet(NewFleet(step.kind, step.about))>>
           items == <<WriteWork(Contained(step.about))>>
       IN \/ /\ step.kind # "contain" /\ op' = [op EXCEPT ![s] = agents \o Tail(@)]
          \/ /\ step.kind = "contain"
             /\ \/ op' = [op EXCEPT ![s] = agents \o items \o Tail(@)]
                \/ op' = [op EXCEPT ![s] = items \o agents \o Tail(@)]
    /\ UNCHANGED <<fleet, work, records, ops, faults, overlapped>>

WriteFloor(s) ==
    /\ op[s] # <<>> /\ Head(op[s]).kind \in {"fleet", "work"}
    /\ LET step == Head(op[s])
       IN \/ /\ step.kind = "fleet" /\ fleet' = step.to
             /\ overlapped' = [overlapped EXCEPT !.rows = @ \cup {a \in Agents : fleet[a] # step.from[a]}]
             /\ UNCHANGED work
          \/ /\ step.kind = "work" /\ work' = step.to
             /\ overlapped' = [overlapped EXCEPT !.work = @ \/ work # step.from]
             /\ UNCHANGED fleet
    /\ op' = [op EXCEPT ![s] = Tail(@)]
    /\ UNCHANGED <<records, ops, faults>>

\* The steps that write a file of the service's own.
WriteRecord(s) ==
    /\ op[s] # <<>>
    /\ LET step == Head(op[s]) x == step.about
       IN \/ /\ step.kind \in {"v1", "v2"} /\ passport' = [passport EXCEPT ![x][step.kind] = step.status]
             /\ UNCHANGED <<runtime, session, mandates, queued, responses>>
          \/ /\ step.kind = "runtime" /\ runtime' = [runtime EXCEPT ![x] = step.status]
             /\ UNCHANGED <<passport, session, mandates, queued, responses>>
          \/ /\ step.kind = "session" /\ session' = [session EXCEPT ![x] = step.status]
             /\ UNCHANGED <<passport, runtime, mandates, queued, responses>>
          \/ /\ step.kind = "issue" /\ mandates' = Append(mandates, [agent |-> x, status |-> "active"])
             /\ UNCHANGED <<passport, runtime, session, queued, responses>>
          \/ /\ step.kind = "revoke" /\ mandates' = [mandates EXCEPT ![x].status = "revoked"]
             /\ UNCHANGED <<passport, runtime, session, queued, responses>>
          \/ /\ step.kind = "queued" /\ queued' = queued + 1
             /\ UNCHANGED <<passport, runtime, session, mandates, responses>>
          \/ /\ step.kind = "response" /\ responses' = [responses EXCEPT ![x] = @ + 1]
             /\ UNCHANGED <<passport, runtime, session, mandates, queued>>
    /\ op' = [op EXCEPT ![s] = Tail(@)]
    /\ UNCHANGED <<fleet, work, ops, faults, overlapped>>

\* A write throws, or the application stops.  The writes of containRevocation were both
\* started: the other one goes on.
Fail(s) ==
    /\ op[s] # <<>> /\ faults < MaxFaults /\ faults' = faults + 1
    /\ op' = [op EXCEPT ![s] = IF s = "mandates" /\ Head(@).kind \in {"fleet", "work"} THEN Tail(@)
                               ELSE <<>>]
    /\ UNCHANGED <<fleet, work, records, ops, overlapped>>
Stop ==
    /\ faults < MaxFaults /\ faults' = faults + 1
    /\ \E s \in Services : op[s] # <<>>
    /\ op' = [s \in Services |-> <<>>]
    /\ UNCHANGED <<fleet, work, records, ops, overlapped>>

Next ==
    \/ \E a \in Agents : CreateAgent(a) \/ AttestRuntime(a) \/ MigrateV1Passports(a)
                          \/ Create(a) \/ CreateAssignment(a)
    \/ \E a \in Agents, status \in Lifecycle \ {"none"} : UpdatePassport(a, status)
    \/ \E a \in Agents, connect \in BOOLEAN : UpdateRuntime(a, connect)
    \/ \E m \in DOMAIN mandates : Revoke(m)
    \/ \E i \in DOMAIN work, a \in Agents, status \in ItemStatus : UpdateAssignment(i, a, status)
    \/ \E i \in DOMAIN work, m \in DOMAIN mandates : RebindAssignmentAuthority(i, m)
    \/ \E i \in DOMAIN work : RecordResponse(i)
    \/ \E s \in Services : Read(s) \/ WriteFloor(s) \/ WriteRecord(s) \/ Fail(s)
    \/ Stop

Spec == Init /\ [][Next]_vars

-----------------------------------------------------------------------------
(* Properties.                                                              *)

\* The floor, the records and the operations are of their types: no operation writes a row for
\* an agent that is not there, nor a status that the schemas do not know.
TypeOK ==
    /\ fleet \in [Agents -> Row] /\ work \in Seq(Item)
    /\ passport \in [Agents -> [v1 : Lifecycle, v2 : Lifecycle]]
    /\ runtime \in [Agents -> BOOLEAN] /\ session \in [Agents -> Session]
    /\ mandates \in Seq([agent : Agents, status : {"active", "revoked"}])
    /\ queued \in Nat /\ responses \in [1..MaxItems -> Nat]
    /\ DOMAIN op = Services /\ ops \in Nat /\ faults \in Nat
    /\ overlapped \in [rows : SUBSET Agents, work : BOOLEAN]

\* "Passport suspend/revoke invalidates active runtime sessions. Reactivation does not
\* reactivate an old session": between operations that did not fail, the passports of the
\* two versions agree, and a session is ready only for an active passport of the second
\* version and a connected runtime, however suspension, disconnection, migration and
\* attestation followed one another.
SessionsFollow ==
    op["identity"] = <<>> /\ faults = 0 => \A a \in Agents :
        /\ passport[a].v2 # "none" => passport[a].v2 = passport[a].v1
        /\ session[a] = "ready" => passport[a].v2 = "active" /\ runtime[a]

\* Both of these: the records have their types, and sessions follow passports and runtimes.
RecordsInv == TypeOK /\ SessionsFollow

\* When the three services are at rest, every agent with a passport is on the floor, and one
\* whose passport is revoked is offline, unless a mandate of it was revoked too, or its own
\* row was written from a read that another service's write of this row had outdated: a
\* write of the whole file does not harm the rows that it found as it had read them.
FloorShowsPassports ==
    ((\A s \in Services : op[s] = <<>>) /\ faults = 0) =>
        \A a \in Agents \ overlapped.rows :
            /\ fleet[a] = Absent <=> passport[a].v1 = "none"
            /\ passport[a].v1 = "revoked" =>
                  \/ fleet[a].status = "offline"
                  \/ \E m \in DOMAIN mandates : mandates[m] = [agent |-> a, status |-> "revoked"]

\* No assignment counts more responses than were logged, whatever fails or overlaps; and
\* when the collaboration is at rest without a failure, every assignment that was queued
\* is there with all its responses, unless a revocation wrote the assignments back over
\* one of them: nothing but a revocation can.
FloorKeepsWork ==
    /\ \A i \in DOMAIN work : work[i].responses <= responses[i]
    /\ overlapped.work => \E m \in DOMAIN mandates : mandates[m].status = "revoked"
    /\ (op["collaboration"] = <<>> /\ faults = 0 /\ ~ overlapped.work) =>
          /\ Len(work) = queued
          /\ \A i \in DOMAIN work : work[i].responses = responses[i]
==============================================================================
