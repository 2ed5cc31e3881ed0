------------------------- MODULE ConnectorDelivery -------------------------
(***************************************************************************)
(* One lane of the least-context workflow: the coordinator                  *)
(* (packages/agents/src/leastContextCoordinator.ts) sends a signed task     *)
(* through the message broker (packages/messaging/src/messageBroker.ts) to  *)
(* the process of an agent, which asks the context broker for the values    *)
(* its grant allows.  Each of the three services has a queue and the        *)
(* coordinator holds its own while it waits for the second, and the second  *)
(* while it waits for the third.  Every run starts a process of its own, so *)
(* the results an agent keeps for a duplicate are not there in the next.    *)
(***************************************************************************)
EXTENDS ContextBroker

CONSTANTS
  Keys,        \* idempotency keys of the operator's requests to run the lane
  MaxAttempts  \* max_attempts of a delivery

ASSUME DeliveryAssumption == MaxAttempts \in Nat \ {0}

VARIABLES
  lane,        \* contexts/phase27-state-v1.json: the lane and the revocation proof
  deliveries,  \* messaging/deliveries.json, by the key of the task
  messages,    \* the keys of the governed handoffs recorded
  co,          \* the operation of the coordinator
  mb           \* the delivery the message broker is making

laneVars == <<lane, deliveries, messages, co, mb>>
vars == <<contextVars, laneVars>>

NoDelivery == [status |-> "none", attempts |-> 0, grant |-> 1]
Settled    == {"acknowledged", "cancelled", "dead-letter"}
Resting    == [at |-> "idle"]

Go(to)     == co' = [co EXCEPT !.at = to]
Return     == mb' = Resting /\ Go("check")
Slipped    == slips < MaxSlips /\ slips' = slips + 1
Others     == <<grants, due, receipts, cb, leak, issued, ended, overlapped>>

---------------------------------------------------------------------------
(* LeastContextCoordinator.runLane and MessageBroker *)

RunLane(k) ==
  /\ co = Resting /\ lane.status # "acknowledged"
  /\ lane' = [lane EXCEPT !.status = "running"]
  /\ co' = [at |-> "enqueue", key |-> k]
  /\ UNCHANGED <<deliveries, messages, mb, contextVars>>

Queued == IF deliveries[co.key].status # "none" THEN deliveries
          ELSE [deliveries EXCEPT ![co.key] = [status |-> "queued", attempts |-> 0, grant |-> lane.grant]]

Enqueue ==
  /\ co.at = "enqueue" /\ mb = Resting
  /\ deliveries' = Queued
  /\ Go("deliver")
  /\ UNCHANGED <<lane, messages, mb, contextVars>>

InFlight(d) == [d EXCEPT !.status = "in-flight", !.attempts = @ + 1]

\* Mutant: the last attempt is counted as one that can be followed.
FailedLate(d) == [d EXCEPT !.status = IF d.attempts > MaxAttempts THEN "dead-letter" ELSE "retrying"]

\* fail: the delivery is to be tried again as long as attempts are left.
Failed(d) == [d EXCEPT !.status = IF d.attempts >= MaxAttempts THEN "dead-letter" ELSE "retrying"]

Deliver ==
  /\ co.at = "deliver" /\ mb = Resting
  /\ LET d == deliveries[co.key]
     IN IF d.status \in Settled
        THEN Go("check") /\ UNCHANGED <<deliveries, mb>>
        ELSE \/ /\ deliveries' = [deliveries EXCEPT ![co.key] = InFlight(d)]
                /\ mb' = [at |-> "sent", key |-> co.key]
                /\ Go("wait")
             \/ \* the task has expired
                /\ deliveries' = [deliveries EXCEPT ![co.key] = Failed([d EXCEPT !.attempts = MaxAttempts])]
                /\ Go("check") /\ UNCHANGED mb
  /\ UNCHANGED <<lane, messages, contextVars>>

\* The agent asks once, and gives up when it is refused.
Ask(r) ==
  /\ mb.at = "sent"
  /\ mb' = [mb EXCEPT !.at = "asking"]
  /\ Authorize("agent", deliveries[mb.key].grant, r)
  /\ UNCHANGED <<leak, lane, deliveries, messages, co>>

HearAnswer ==
  /\ mb.at = "asking" /\ answer # "none"
  /\ mb' = [mb EXCEPT !.at = IF answer = "granted" THEN "told" ELSE "caught"]
  /\ answer' = "none"
  /\ UNCHANGED <<Others, slips, lane, deliveries, messages, co>>

\* An error, an end or a timeout, or an acknowledgement that is not written.
AgentFails ==
  /\ mb.at \in {"sent", "told"}
  /\ mb' = [mb EXCEPT !.at = "caught"]
  /\ UNCHANGED <<contextVars, lane, deliveries, messages, co>>

\* The signed result and acknowledgement arrive.
Acknowledge ==
  /\ mb.at \in {"sent", "told"}
  /\ deliveries' = [deliveries EXCEPT ![mb.key].status = "acknowledged"]
  /\ mb' = [mb EXCEPT !.at = "confirm"]
  /\ UNCHANGED <<contextVars, lane, messages, co>>

\* The health of the connector and the event.
ConfirmDelivery ==
  /\ mb.at = "confirm" /\ Return
  /\ UNCHANGED <<contextVars, lane, deliveries, messages>>

CatchDelivery ==
  /\ mb.at = "caught" /\ Return
  /\ deliveries' = [deliveries EXCEPT ![mb.key] = Failed(@)]
  /\ UNCHANGED <<contextVars, lane, messages>>

\* Mutant: the receipt is not looked for.
CheckUnreceipted ==
  /\ co.at = "check"
  /\ Go(IF deliveries[co.key].status = "acknowledged" THEN "handoff" ELSE "failing")
  /\ UNCHANGED <<contextVars, lane, deliveries, messages, mb>>

\* The receipt looked at is the latest of the grant, whoever asked.
Check ==
  /\ co.at = "check"
  /\ Go(IF /\ deliveries[co.key].status = "acknowledged"
           /\ receipts[lane.grant] # <<>> /\ Head(receipts[lane.grant]).why = "ok"
        THEN "handoff" ELSE "failing")
  /\ UNCHANGED <<contextVars, lane, deliveries, messages, mb>>

\* recordGovernedMessage asks for a delivery of a task with the same authority.
Handoff ==
  /\ co.at = "handoff" /\ mb = Resting
  /\ IF \E k \in Keys : deliveries[k].status # "none" /\ deliveries[k].grant = lane.grant
     THEN messages' = messages \cup {co.key} /\ Go("finish")
     ELSE Go("failing") /\ UNCHANGED messages
  /\ UNCHANGED <<contextVars, lane, deliveries, mb>>

EndLane(from, status) ==
  /\ co.at = from /\ co' = Resting
  /\ lane' = [lane EXCEPT !.status = status]
  /\ UNCHANGED <<contextVars, deliveries, messages, mb>>

Finish == EndLane("finish", "acknowledged")
GiveUp == EndLane("failing", "ready")

Cancel(k) ==
  /\ mb = Resting /\ deliveries[k].status \notin {"none", "acknowledged"}
  /\ deliveries' = [deliveries EXCEPT ![k].status = "cancelled"]
  /\ UNCHANGED <<contextVars, lane, messages, co, mb>>

---------------------------------------------------------------------------
(* LeastContextCoordinator.renewGrant and proveRevocation *)

Renew ==
  /\ co = Resting /\ cb = Idle /\ issued < MaxGrants
  /\ grants' = Expire(grants)
  /\ co' = IF grants'[lane.grant].status \in {"none", "active"} THEN Resting ELSE [at |-> "issue"]
  /\ UNCHANGED <<due, receipts, cb, leak, issued, answer, slips, ended, overlapped, lane, deliveries, messages, mb>>

RenewIssue ==
  /\ co.at = "issue" /\ Issue(issued + 1)
  /\ Go("adopt")
  /\ UNCHANGED <<lane, deliveries, messages, mb>>

\* The latest active grant for the task of the lane that is not the prior one.
Replacements == {g \in Active : g > FirstGrants} \ {lane.grant}

Adopt ==
  /\ co.at = "adopt" /\ co' = Resting
  /\ lane' = IF Replacements = {} THEN lane ELSE [lane EXCEPT !.grant = Max(Replacements)]
  /\ UNCHANGED <<contextVars, deliveries, messages, mb>>

Prove ==
  /\ co = Resting /\ lane.status = "acknowledged" /\ ~lane.proved
  /\ BeginRevoke("coordinator", lane.grant)
  /\ co' = [at |-> "revoking"]
  /\ UNCHANGED <<lane, deliveries, messages, mb>>

ProveAsk ==
  /\ co.at = "revoking" /\ answer = "revoked"
  /\ co' = [at |-> "probe"] /\ answer' = "none"
  /\ UNCHANGED <<Others, slips, lane, deliveries, messages, mb>>

Probe ==
  /\ co.at = "probe" /\ Authorize("coordinator", lane.grant, "proof")
  /\ Go("probing")
  /\ UNCHANGED <<leak, lane, deliveries, messages, mb>>

\* The proof passes on a refusal with a receipt that says the grant is revoked.
EndProof ==
  /\ co.at = "probing" /\ answer # "none"
  /\ co' = Resting /\ answer' = "none"
  /\ lane' = [lane EXCEPT !.proved =
                answer = "denied" /\ \E t \in Range(receipts[lane.grant]) : t.why = "revoked"]
  /\ UNCHANGED <<Others, slips, deliveries, messages, mb>>

\* The revocation threw.
AbandonProof ==
  /\ co.at = "revoking" /\ answer = "thrown"
  /\ co' = Resting /\ answer' = "none"
  /\ UNCHANGED <<Others, slips, lane, deliveries, messages, mb>>

---------------------------------------------------------------------------
(* A write that fails, or the event that follows it; a stop. *)

CoordinatorSlip ==
  /\ Slipped
  /\ \/ \* outside the try of runLane: the lane is left running
        /\ co.at = "enqueue" /\ mb = Resting /\ co' = Resting
        /\ deliveries' \in {deliveries, Queued} /\ UNCHANGED <<lane, messages>>
     \/ co.at = "deliver" /\ mb = Resting /\ Go("failing") /\ UNCHANGED <<lane, deliveries, messages>>
     \/ /\ co.at \in {"handoff", "finish"} /\ mb = Resting /\ Go("failing")
        /\ messages' \in {messages, messages \cup {co.key}} /\ UNCHANGED <<lane, deliveries>>
     \/ co.at \in {"failing", "issue", "adopt"} /\ co' = Resting /\ UNCHANGED <<lane, deliveries, messages>>
  /\ UNCHANGED <<Others, answer, mb>>

BrokerSlip ==
  /\ Slipped
  /\ \/ /\ mb.at = "confirm" /\ mb' = [mb EXCEPT !.at = "caught"]
        /\ UNCHANGED <<deliveries, co>>
     \/ /\ mb.at = "caught" /\ mb' = Resting /\ Go("failing")
        /\ deliveries' \in {deliveries, [deliveries EXCEPT ![mb.key] = Failed(@)]}
  /\ UNCHANGED <<Others, answer, lane, messages>>

Stop ==
  /\ Slipped /\ ForgetContext
  /\ co' = Resting /\ mb' = Resting
  /\ UNCHANGED <<lane, deliveries, messages>>

---------------------------------------------------------------------------
Init ==
  /\ ContextInit
  /\ lane = [status |-> "ready", grant |-> 1, proved |-> FALSE]
  /\ deliveries = [k \in Keys |-> NoDelivery] /\ messages = {}
  /\ co = Resting /\ mb = Resting

Run ==
  \/ Enqueue \/ Deliver \/ Check \/ Handoff \/ Finish \/ GiveUp
  \/ RenewIssue \/ Adopt \/ ProveAsk \/ Probe \/ EndProof \/ AbandonProof

Broker == (\E r \in Requests : Ask(r)) \/ HearAnswer \/ AgentFails \/ Acknowledge \/ ConfirmDelivery \/ CatchDelivery

Operator == (\E k \in Keys : RunLane(k) \/ Cancel(k)) \/ Renew \/ Prove

Next ==
  \/ Run \/ Broker \/ Operator
  \/ CoordinatorSlip \/ BrokerSlip \/ Stop
  \/ ContextNext /\ UNCHANGED laneVars

\* Promises go on; the agent answers, ends or is timed out (ProcessChannel).
Fairness ==
  WF_vars(Run) /\ WF_vars(Broker) /\ WF_vars(ContextStep /\ UNCHANGED laneVars)

Spec == Init /\ [][Next]_vars /\ Fairness

---------------------------------------------------------------------------
\* The variables hold values of their types; a delivery in progress is one the
\* coordinator waits for.
TypeOK ==
  /\ ContextTypeOK
  /\ lane \in [status : {"ready", "running", "acknowledged"}, grant : Grants, proved : BOOLEAN]
  /\ \A k \in Keys : deliveries[k].grant \in 1..issued
  /\ messages \subseteq {k \in Keys : deliveries[k].status # "none"}
  /\ mb # Resting => co.at = "wait" /\ deliveries[mb.key].status \in {"in-flight", "acknowledged"}

\* A lane is acknowledged only upon an acknowledged delivery, whose handoff is
\* recorded, and a release with its receipt; renewing the grant or proving a
\* revocation leaves that so.
AcknowledgedIsEvidenced ==
  lane.status = "acknowledged" =>
    /\ \E k \in messages : deliveries[k].status = "acknowledged"
    /\ \E g \in Grants : \E t \in Range(receipts[g]) : t.why = "ok"

\* The lane agrees with its deliveries, with the messages and with the receipts.
LaneInv == TypeOK /\ AcknowledgedIsEvidenced

\* What is acknowledged, cancelled or dead stays so, except that the dead can
\* be cancelled and an acknowledgement is withdrawn when the call that wrote it
\* fails after it.  Another attempt is promised only while attempts are left,
\* and only a stop or a failed write gives a delivery more than its maximum.
DeliveriesSettle ==
  [][\A k \in Keys :
       LET was == deliveries[k]  is == deliveries'[k] IN
       /\ was.status \in Settled =>
            \/ is = was
            \/ was.status # "acknowledged" /\ is.status = "cancelled"
            \/ was.status = "acknowledged" /\ mb.at = "caught" /\ slips > 0
       /\ is.status = "retrying" => is.attempts < MaxAttempts
       /\ is.attempts <= MaxAttempts + slips]_deliveries

\* Every call to the coordinator returns, whatever the agent, the operator and
\* the other callers of the queues it waits for do.
EveryRunEnds == (co.at # "idle") ~> (co.at = "idle")
=============================================================================
