----------------------------- MODULE GovernedActions -----------------------------
(***************************************************************************)
(* GovernanceService (apps/governance/service.ts) for one enrolled agent:  *)
(* its mandates, the actions it asks for, the human decision on them, the  *)
(* local execution with its receipt and audit, and what initialize does    *)
(* with all that after a stop.                                             *)
(*                                                                         *)
(* mutate runs one operation at a time.  An operation is a list of steps,  *)
(* todo, each one durable write or a check made when its turn comes; an    *)
(* exception or a stop abandons the list.  The policy service it calls is  *)
(* Mandates, taken here at the grain of its writes.                        *)
(***************************************************************************)
EXTENDS Naturals, Sequences, FiniteSets

CONSTANTS
    Keys,           \* idempotency keys: one stands for one request
    Gate,           \* key -> what a mandate says of its action
    Lifetime,       \* how long a mandate lasts
    PassportExpiry, \* when the agent's passport expires
    MaxMandates,    \* bound on the mandates
    MaxChanges,     \* bound on lifecycle operations
    MaxTime,        \* bound on the clock
    MaxFaults       \* bound on stops and failed steps

Gates == {"allowed", "gated", "prohibited"}

ASSUME ConstantsAssumption ==
    /\ Gate \in [Keys -> Gates]
    /\ {Lifetime, PassportExpiry, MaxMandates, MaxChanges, MaxTime, MaxFaults} \subseteq Nat

VARIABLES
    now,        \* the clock
    mandates,   \* the agent's mandates, oldest first
    approvals,  \* the approval registry
    decided,    \* keys with a recorded policy decision
    actions,    \* state.actions
    exports,    \* actions whose evidence pack was written
    events,     \* the authority events about actions, oldest first
    todo,       \* the steps the running operation still owes
    mode,       \* whether the service runs, and how far initialize has come
    cursor,     \* the action initialize looks at next
    changes, faults

data == <<mandates, approvals, decided, actions, exports, events>>
vars == <<now, data, todo, mode, cursor, changes, faults>>

MandateStatus == {"active", "suspended", "revoked"}
Mandate == [status : MandateStatus, expiresAt : Nat, build : BOOLEAN]
ApprovalStatus == {"pending", "approved", "rejected", "invalidated"}
Approval == [key : Keys, mandate : Nat, status : ApprovalStatus]
\* approval is the position of the approval the action waits for, or 0
Action == [key : Keys, mandate : Nat, approval : Nat,
           decision : {"ALLOWED", "REQUIRES_APPROVAL", "DENIED"},
           status : {"pending", "executed", "denied", "rejected"}]
Mode == {"up", "down", "recovering", "auditing"}

Init ==
    /\ now = 0
    /\ mandates = <<>> /\ approvals = <<>> /\ decided = {} /\ actions = <<>>
    /\ exports = {} /\ events = <<>>
    /\ todo = <<>> /\ mode = "up" /\ cursor = 1
    /\ changes = 0 /\ faults = 0

Serving == mode = "up" /\ todo = <<>>

-----------------------------------------------------------------------------
(* Authority                                                                *)

PassportActive == now < PassportExpiry

ActiveMandates == {m \in DOMAIN mandates : mandates[m].status = "active"}

\* find returns the first, not the newest.
FirstActive == CHOOSE m \in ActiveMandates : \A n \in ActiveMandates : m <= n

Governed ==
    /\ PassportActive
    /\ ActiveMandates # {} /\ now < mandates[FirstActive].expiresAt

\* Mutant: any mandate in force will do.
ActiveAuthorityAny(a) == Governed

\* validateActiveAuthority: the mandate in force is the one the action was
\* decided under.
ActiveAuthority(a) == Governed /\ FirstActive = actions[a].mandate

ApprovedFor(a) ==
    IF actions[a].approval = 0 THEN actions[a].decision = "ALLOWED"
    ELSE approvals[actions[a].approval].status = "approved"

-----------------------------------------------------------------------------
(* The steps of an operation                                                *)

Evaluate(k, m) == [kind |-> "evaluate", key |-> k, mandate |-> m]
OpenApproval(k, m) == [kind |-> "open", approval |-> [key |-> k, mandate |-> m, status |-> "pending"]]
Decide(k) == [kind |-> "decide", key |-> k]
Event(type, k) == [kind |-> "event", event |-> <<type, k>>]
Record(action) == [kind |-> "record", action |-> action]
Resolve(p, status) == [kind |-> "resolve", approval |-> p, status |-> status]
Execute(a) == [kind |-> "execute", action |-> a]
Export(a) == [kind |-> "export", action |-> a]
Mark(a, status) == [kind |-> "mark", action |-> a, status |-> status]
Change(m, status) == [kind |-> "change", mandate |-> m, status |-> status]
Invalidate(m) == [kind |-> "invalidate", mandate |-> m]
Create(build) == [kind |-> "create", build |-> build]

Step == Head(todo)
Owes(kind) == todo # <<>> /\ Step.kind = kind

\* An exception ends the operation; one in initialize ends the process.
Abort ==
    /\ todo' = <<>>
    /\ mode' = IF mode = "up" THEN "up" ELSE "down"
    /\ UNCHANGED <<now, data, cursor, changes>>

\* The writes of authorize and of requestAction after it.
RequestSteps(action) ==
    LET k == action.key
    IN (IF action.approval # 0 THEN <<OpenApproval(k, action.mandate)>> ELSE <<>>)
       \o <<Decide(k), Event("ACTION_REQUESTED", k), Event(action.decision, k), Record(action)>>
       \o (IF action.decision = "ALLOWED" THEN <<Execute(Len(actions) + 1)>> ELSE <<>>)

\* authorize decides: a key decided before is a replay.
DoEvaluate ==
    /\ Owes("evaluate")
    /\ LET k == Step.key
           inForce == PassportActive /\ now < mandates[Step.mandate].expiresAt
           verdict == IF k \in decided \/ ~ inForce \/ Gate[k] = "prohibited" THEN "DENIED"
                      ELSE IF Gate[k] = "gated" THEN "REQUIRES_APPROVAL" ELSE "ALLOWED"
       IN todo' = RequestSteps([key |-> k, mandate |-> Step.mandate, decision |-> verdict,
                    approval |-> IF verdict = "REQUIRES_APPROVAL" THEN Len(approvals) + 1 ELSE 0,
                    status |-> IF verdict = "DENIED" THEN "denied" ELSE "pending"])
    /\ UNCHANGED <<now, data, mode, cursor, changes, faults>>

\* resolveApproval checks the mandate once more before it writes.
DoResolve ==
    /\ Owes("resolve")
    /\ LET p == Step.approval
           k == approvals[p].key
           m == mandates[approvals[p].mandate]
           a == CHOOSE a \in DOMAIN actions : actions[a].approval = p
       IN IF m.status = "active" /\ now < m.expiresAt
          THEN /\ approvals' = [approvals EXCEPT ![p].status = Step.status]
               /\ todo' = <<Decide(k), Event(Step.status, k),
                            IF Step.status = "approved" THEN Execute(a) ELSE Mark(a, "rejected")>>
               /\ UNCHANGED <<now, mandates, decided, actions, exports, events, mode, cursor, changes>>
          ELSE Abort
    /\ UNCHANGED faults

\* execute validates again, whoever called it.  The local effect of an export is
\* its pack; the receipt and the outcome of the action are one write.
DoExecute ==
    /\ Owes("execute")
    /\ LET a == Step.action
           k == actions[a].key
       IN IF ActiveAuthority(a) /\ ApprovedFor(a)
          THEN /\ todo' = (IF Gate[k] = "gated" THEN <<Export(a)>> ELSE <<>>)
                          \o <<Mark(a, "executed"), Event("ACTION_EXECUTED", k)>>
               /\ UNCHANGED <<now, data, mode, cursor, changes>>
          ELSE Abort
    /\ UNCHANGED faults

\* A mandate is created for a live passport only.
DoCreate ==
    /\ Owes("create")
    /\ IF PassportActive
       THEN /\ mandates' = Append(mandates, [status |-> "active", expiresAt |-> now + Lifetime,
                                             build |-> Step.build])
            /\ todo' = Tail(todo)
            /\ UNCHANGED <<now, approvals, decided, actions, exports, events, mode, cursor, changes>>
       ELSE Abort
    /\ UNCHANGED faults

\* The steps that are one write each.
DoOpen ==
    /\ Owes("open")
    /\ approvals' = Append(approvals, Step.approval)
    /\ UNCHANGED <<mandates, decided, actions, exports, events>>
DoDecide ==
    /\ Owes("decide")
    /\ decided' = decided \cup {Step.key}
    /\ UNCHANGED <<mandates, approvals, actions, exports, events>>
DoEvent ==
    /\ Owes("event")
    /\ events' = Append(events, Step.event)
    /\ UNCHANGED <<mandates, approvals, decided, actions, exports>>
DoRecord ==
    /\ Owes("record")
    /\ actions' = Append(actions, Step.action)
    /\ UNCHANGED <<mandates, approvals, decided, exports, events>>
DoExport ==
    /\ Owes("export")
    /\ exports' = exports \cup {Step.action}
    /\ UNCHANGED <<mandates, approvals, decided, actions, events>>
DoMark ==
    /\ Owes("mark")
    /\ actions' = [actions EXCEPT ![Step.action].status = Step.status]
    /\ UNCHANGED <<mandates, approvals, decided, exports, events>>
DoChange ==
    /\ Owes("change")
    /\ mandates' = [mandates EXCEPT ![Step.mandate].status = Step.status]
    /\ UNCHANGED <<approvals, decided, actions, exports, events>>
DoInvalidate ==
    /\ Owes("invalidate")
    /\ approvals' = [p \in DOMAIN approvals |->
          IF approvals[p].status = "pending" /\ approvals[p].mandate = Step.mandate
          THEN [approvals[p] EXCEPT !.status = "invalidated"] ELSE approvals[p]]
    /\ UNCHANGED <<mandates, decided, actions, exports, events>>

DoWrite ==
    /\ DoOpen \/ DoDecide \/ DoEvent \/ DoRecord \/ DoExport \/ DoMark \/ DoChange \/ DoInvalidate
    /\ todo' = Tail(todo)
    /\ UNCHANGED <<now, mode, cursor, changes, faults>>

Proceed == DoEvaluate \/ DoResolve \/ DoExecute \/ DoCreate \/ DoWrite

-----------------------------------------------------------------------------
(* The operations, as mutate starts them                                    *)

Start(steps) ==
    /\ todo' = steps
    /\ UNCHANGED <<now, data, mode, cursor, faults>>

\* Mutant: a known key is not looked up.
RequestActionAgain(k) ==
    /\ Serving /\ Governed
    /\ Start(<<Evaluate(k, FirstActive)>>) /\ UNCHANGED changes

\* requestAction: a key that already has an action only returns it.
RequestAction(k) ==
    /\ Serving /\ Governed
    /\ \A a \in DOMAIN actions : actions[a].key # k
    /\ Start(<<Evaluate(k, FirstActive)>>) /\ UNCHANGED changes

\* decideApproval: a second approval of an action that was not executed executes it.
DecideApproval(a, decision) ==
    /\ Serving /\ actions[a].approval # 0
    /\ ActiveAuthority(a)
    /\ LET p == actions[a].approval
       IN \/ /\ approvals[p].status = "pending"
             /\ Start(<<Resolve(p, decision)>>)
          \/ /\ approvals[p].status = "approved" /\ decision = "approved"
             /\ actions[a].status # "executed"
             /\ Start(<<Execute(a)>>)
    /\ UNCHANGED changes

\* updateLifecycle: only a revocation reaches the approvals.
Revocation(m) == <<Change(m, "revoked"), Invalidate(m)>>

\* updateMandate changes the newest mandate of the agent.
UpdateMandate(action) ==
    /\ Serving /\ mandates # <<>> /\ changes < MaxChanges /\ changes' = changes + 1
    /\ LET m == Len(mandates)
       IN /\ mandates[m].status # "revoked"
          /\ \/ action = "suspend" /\ Start(<<Change(m, "suspended")>>)
             \/ /\ action = "reactivate" /\ mandates[m].status = "suspended"
                /\ now < mandates[m].expiresAt /\ Start(<<Change(m, "active")>>)
             \/ action = "revoke" /\ Start(Revocation(m))

\* mandateInternal: an active mandate is kept, expired or not, unless a build
\* mandate is asked for and it is none; then it is revoked first.
AssignMandate(build) ==
    /\ Serving /\ PassportActive /\ Len(mandates) < MaxMandates
    /\ ActiveMandates # {} => build /\ ~ mandates[FirstActive].build
    /\ Start((IF ActiveMandates = {} THEN <<>> ELSE Revocation(FirstActive)) \o <<Create(build)>>)
    /\ UNCHANGED changes

-----------------------------------------------------------------------------
(* initialize, and what ends the process                                    *)

Restart ==
    /\ mode = "down" /\ mode' = "recovering" /\ cursor' = 1
    /\ UNCHANGED <<now, data, todo, changes, faults>>

\* The outcome an unanswered request gets from its approval.
RefusedOutcome == [rejected |-> "rejected", invalidated |-> "denied"]
Refused(a) == /\ actions[a].approval # 0
              /\ approvals[actions[a].approval].status \in DOMAIN RefusedOutcome

Recovering(stage) == mode = stage /\ todo = <<>>

\* Mutant: only an action the policy allowed outright is resumed.
RecoverAllowedOnly ==
    /\ Recovering("recovering") /\ cursor \in DOMAIN actions
    /\ LET a == cursor
       IN todo' = IF actions[a].status # "pending" THEN <<>>
                  ELSE IF ApprovedFor(a) /\ actions[a].approval = 0
                  THEN IF ActiveAuthority(a) THEN <<Execute(a)>>
                       ELSE <<Mark(a, "denied"), Event("DENIED", actions[a].key)>>
                  ELSE IF Refused(a)
                  THEN <<Mark(a, RefusedOutcome[approvals[actions[a].approval].status])>>
                  ELSE <<>>
    /\ cursor' = cursor + 1
    /\ UNCHANGED <<now, data, mode, changes, faults>>

\* The pending actions, in order: an approved one is executed, or denied when its
\* authority is gone; a refused one takes the outcome of its approval.
Recover ==
    /\ Recovering("recovering") /\ cursor \in DOMAIN actions
    /\ LET a == cursor
       IN todo' = IF actions[a].status # "pending" THEN <<>>
                  ELSE IF ApprovedFor(a)
                  THEN IF ActiveAuthority(a) THEN <<Execute(a)>>
                       ELSE <<Mark(a, "denied"), Event("DENIED", actions[a].key)>>
                  ELSE IF Refused(a)
                  THEN <<Mark(a, RefusedOutcome[approvals[actions[a].approval].status])>>
                  ELSE <<>>
    /\ cursor' = cursor + 1
    /\ UNCHANGED <<now, data, mode, changes, faults>>

Audited(a) == \E i \in DOMAIN events : events[i] = <<"ACTION_EXECUTED", actions[a].key>>

\* An executed action the ledger does not show gets its event from its receipt.
Audit ==
    /\ Recovering("auditing") /\ cursor \in DOMAIN actions
    /\ todo' = IF actions[cursor].status = "executed" /\ ~ Audited(cursor)
               THEN <<Event("ACTION_EXECUTED", actions[cursor].key)>> ELSE <<>>
    /\ cursor' = cursor + 1
    /\ UNCHANGED <<now, data, mode, changes, faults>>

\* Mutant: the audit is left out.
AdvanceUnaudited ==
    /\ todo = <<>> /\ cursor > Len(actions) /\ mode = "recovering"
    /\ mode' = "up" /\ cursor' = 1
    /\ UNCHANGED <<now, data, todo, changes, faults>>

Advance ==
    /\ todo = <<>> /\ cursor > Len(actions)
    /\ \/ mode = "recovering" /\ mode' = "auditing"
       \/ mode = "auditing" /\ mode' = "up"
    /\ cursor' = 1
    /\ UNCHANGED <<now, data, todo, changes, faults>>

Initialize == Restart \/ Recover \/ Audit \/ Advance

\* A write or a check throws.
Fail ==
    /\ todo # <<>> /\ faults < MaxFaults /\ faults' = faults + 1
    /\ Abort

Stop ==
    /\ mode # "down" /\ faults < MaxFaults /\ faults' = faults + 1
    /\ todo' = <<>> /\ mode' = "down"
    /\ UNCHANGED <<now, data, cursor, changes>>

Tick ==
    /\ now < MaxTime /\ now' = now + 1
    /\ UNCHANGED <<data, todo, mode, cursor, changes, faults>>

Next ==
    \/ \E k \in Keys : RequestAction(k)
    \/ \E a \in DOMAIN actions, decision \in {"approved", "rejected"} : DecideApproval(a, decision)
    \/ \E action \in {"suspend", "reactivate", "revoke"} : UpdateMandate(action)
    \/ \E build \in BOOLEAN : AssignMandate(build)
    \/ Proceed \/ Initialize \/ Fail \/ Stop \/ Tick

Spec == Init /\ [][Next]_vars

\* A running operation goes on, and a stopped application is started again.
FairSpec == Spec /\ WF_vars(Proceed) /\ WF_vars(Initialize)

-----------------------------------------------------------------------------
(* Properties.                                                              *)

Count(type, k) == Cardinality({i \in DOMAIN events : events[i] = <<type, k>>})

\* Besides the types: the actions and approvals point at each other, and the agent
\* has one active mandate at most, although a suspended one may be reactivated after
\* another was assigned: the first and the newest agree.
TypeOK ==
    /\ now \in 0..MaxTime
    /\ mandates \in Seq(Mandate) /\ approvals \in Seq(Approval) /\ actions \in Seq(Action)
    /\ decided \subseteq Keys /\ exports \subseteq DOMAIN actions
    /\ mode \in Mode /\ cursor \in 1..(Len(actions) + 1)
    /\ (mode = "down" => todo = <<>>)
    /\ Cardinality(ActiveMandates) <= 1
    /\ \A a \in DOMAIN actions :
          /\ actions[a].mandate \in DOMAIN mandates
          /\ actions[a].approval # 0 =>
                /\ actions[a].approval \in DOMAIN approvals
                /\ approvals[actions[a].approval].key = actions[a].key
                /\ approvals[actions[a].approval].mandate = actions[a].mandate

\* An idempotency key has one action, however often it is asked for, and a key the
\* policy decided before a stop never opens a second way to the same effect.
OneActionPerKey ==
    /\ \A a, b \in DOMAIN actions : actions[a].key = actions[b].key => a = b
    /\ \A k \in Keys : Count("ACTION_EXECUTED", k) <= 1

\* The records and the ledger agree with the requests that were made, whatever was
\* retried, failed or stopped.
ActionsInv == TypeOK /\ OneActionPerKey

\* An action takes effect only under the mandate it was decided under, still
\* active, and if its gate asks for that after a human approved it and its evidence
\* pack was written; and what was executed or rejected stays so, through restarts.
ExecutesUnderAuthority ==
    [][\A a \in DOMAIN actions :
          /\ actions[a].status \in {"executed", "rejected"} => actions'[a].status = actions[a].status
          /\ actions[a].status # "executed" /\ actions'[a].status = "executed" =>
              /\ mandates[actions[a].mandate].status = "active"
              /\ Gate[actions[a].key] = "gated" =>
                    approvals[actions[a].approval].status = "approved" /\ a \in exports]_vars

\* When the service starts serving after a stop, the ledger shows every action
\* that was executed, including those whose audit was cut off.
AuditedWhenServing ==
    [][mode # "up" /\ mode' = "up" =>
          \A a \in DOMAIN actions : actions[a].status = "executed" =>
              Count("ACTION_EXECUTED", actions[a].key) = 1]_vars

\* An action that was approved when the application was started again is settled,
\* by execution or by denial, even if initialize itself fails or is stopped.
ApprovedIsSettled ==
    \A k \in Keys :
        (mode = "recovering" /\ cursor = 1 /\ \E a \in DOMAIN actions :
            actions[a].key = k /\ actions[a].status = "pending" /\ ApprovedFor(a))
        ~> \E a \in DOMAIN actions : actions[a].key = k /\ actions[a].status # "pending"
==============================================================================
