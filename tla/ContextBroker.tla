--------------------------- MODULE ContextBroker ---------------------------
(***************************************************************************)
(* The grants under which an agent may be told protected values            *)
(* (packages/resources/src/contextBrokerService.ts).  authorize, updateGrant *)
(* and issueGrant pass through one queue; each of them reads, waits and     *)
(* writes.  The leakage proof of the security validation does not: it runs  *)
(* expireGrants beside the queue.  What a field holds, its classification,  *)
(* its transformation and the budget are abstracted to one question: do the *)
(* rules of the grant allow any field of the request.                       *)
(***************************************************************************)
EXTENDS Naturals, Sequences, FiniteSetsExt, Functions

CONSTANTS
  Requests,   \* the sets of fields an agent may ask for, some of them allowed
  FirstGrants,\* how many grants are issued before, the first for the task of the lane
  MaxGrants,  \* bound: grants, with those issued when it is renewed
  MaxUses,    \* maximum_uses of every grant
  MaxLeaks,   \* bound: leakage proofs
  MaxSlips    \* bound: writes that fail and stops of the application

ASSUME ContextAssumption ==
  /\ MaxGrants \in Nat \ {0} /\ FirstGrants \in 1..MaxGrants /\ MaxUses \in Nat \ {0}
  /\ MaxLeaks \in Nat /\ MaxSlips \in Nat

VARIABLES
  grants,     \* contexts/grants-v2.json: the status and the use_count of each
  due,        \* the grants whose expires_at is past
  receipts,   \* contexts/disclosures-v2.json, by grant, the latest first
  cb,         \* the operation at the head of the queue of the service
  leak,       \* the leakage proof, and how many there were
  issued,     \* how many grants were issued
  answer,     \* what the caller that waits for the service is told
  slips,      \* history: failed writes and stops so far
  ended,      \* history: the grants that were revoked
  overlapped  \* history: a leakage proof wrote over what others had written

contextVars == <<grants, due, receipts, cb, leak, issued, answer, slips, ended, overlapped>>

Grants   == 1..MaxGrants
NoGrant  == [status |-> "none", uses |-> 0]
Idle     == [op |-> "idle"]
Active   == {g \in Grants : grants[g].status = "active"}

\* The records with those past their expiry marked, as expireGrants writes them.
Expire(all) ==
  [g \in Grants |-> IF all[g].status = "active" /\ g \in due
                    THEN [all[g] EXCEPT !.status = "expired"] ELSE all[g]]

\* The reason code of an answer: a refusal of denialReason, no field the rules
\* allow (the leakage proof asks for one outside them), or none.
Reason(record, r) ==
  IF record.status # "active" THEN record.status
  ELSE IF record.uses >= MaxUses THEN "limit"
  ELSE IF r = "leak" THEN "fields" ELSE "ok"

\* Mutant: the answer to the agent is lost.
TellCoordinator(caller, what) == answer' = IF caller = "coordinator" THEN what ELSE answer

\* The agent and the coordinator wait for what the service answers.
Tell(caller, what) ==
  answer' = IF caller \in {"agent", "coordinator"} THEN what ELSE answer

Told(r, why) == [r |-> r, why |-> why]

Issue(g) ==
  /\ cb = Idle /\ g = issued + 1 /\ g \in Grants
  /\ issued' = g
  /\ grants' = [grants EXCEPT ![g] = [status |-> "active", uses |-> 0]]
  /\ UNCHANGED <<due, receipts, cb, leak, answer, slips, ended, overlapped>>

\* A request that was answered before has its receipt: it is not written and
\* not counted again, but a refusal that holds now comes first.
Authorize(caller, g, r) ==
  LET now   == Expire(grants)
      why   == Reason(now[g], r)
      prior == {t \in Range(receipts[g]) : t.r = r}
  IN /\ cb = Idle
     /\ grants' = now
     /\ IF prior = {}
        THEN /\ cb' = [op |-> "receipt", by |-> caller, g |-> g, r |-> r, why |-> why, seen |-> now[g]]
             /\ UNCHANGED answer
        ELSE /\ Tell(caller, IF why = "ok" /\ Told(r, "ok") \in prior THEN "granted" ELSE "denied")
             /\ UNCHANGED cb
     /\ UNCHANGED <<due, receipts, issued, slips, ended, overlapped>>

WithReceipt == [receipts EXCEPT ![cb.g] = <<Told(cb.r, cb.why)>> \o @]

WriteReceipt ==
  /\ cb.op = "receipt"
  /\ receipts' = WithReceipt
  /\ IF cb.why = "ok"
     THEN cb' = [cb EXCEPT !.op = "count"] /\ UNCHANGED answer
     ELSE cb' = Idle /\ Tell(cb.by, "denied")
  /\ UNCHANGED <<grants, due, leak, issued, slips, ended, overlapped>>

\* Mutant: the record read is written back, not the counted one.
CountedNever ==
  IF grants[cb.g].status = "none" THEN grants ELSE [grants EXCEPT ![cb.g] = cb.seen]

\* The record counted is the one read when the request came; the others are
\* read again, and a record that is gone stays gone.
Counted ==
  IF grants[cb.g].status = "none" THEN grants
  ELSE [grants EXCEPT ![cb.g] = [cb.seen EXCEPT !.uses = @ + 1]]

Count ==
  /\ cb.op = "count"
  /\ grants' = Counted
  /\ cb' = Idle /\ Tell(cb.by, "granted")
  /\ UNCHANGED <<due, receipts, leak, issued, slips, ended, overlapped>>

\* updateGrant reads every grant, has the actor authorised, and writes them.
BeginRevoke(caller, g) ==
  /\ cb = Idle /\ grants[g].status # "none"
  /\ cb' = [op |-> "revoke", by |-> caller, g |-> g, seen |-> grants]
  /\ UNCHANGED <<grants, due, receipts, leak, issued, answer, slips, ended, overlapped>>

Revoked == [cb.seen EXCEPT ![cb.g].status = "revoked"]

WriteRevoke ==
  /\ cb.op = "revoke"
  /\ grants' = Revoked /\ ended' = ended \cup {cb.g}
  /\ cb' = Idle /\ Tell(cb.by, "revoked")
  /\ UNCHANGED <<due, receipts, leak, issued, slips, overlapped>>

\* Revoking a revoked grant writes the same record: left out.
OperatorRevokes ==
  \E g \in Grants : grants[g].status # "revoked" /\ BeginRevoke("operator", g)

\* proveContextLeakage, outside the queue until it asks.
LeakRead ==
  /\ leak.at = "idle" /\ leak.n < MaxLeaks
  /\ leak' = [at |-> IF Expire(grants) # grants THEN "write" ELSE "ask", n |-> leak.n + 1,
              seen |-> grants, next |-> Expire(grants)]
  /\ UNCHANGED <<grants, due, receipts, cb, issued, answer, slips, ended, overlapped>>

LeakWrite ==
  /\ leak.at = "write"
  /\ grants' = leak.next
  /\ overlapped' = (overlapped \/ grants # leak.seen)
  /\ leak' = [at |-> "ask", n |-> leak.n]
  /\ UNCHANGED <<due, receipts, cb, issued, answer, slips, ended>>

LeakAsk ==
  /\ leak.at = "ask"
  /\ leak' = [at |-> "idle", n |-> leak.n]
  /\ IF Active = {}
     THEN UNCHANGED <<grants, due, receipts, cb, issued, answer, slips, ended, overlapped>>
     ELSE Authorize("leak", Max(Active), "leak")

\* getState, which every window asks for.
Look ==
  /\ cb = Idle /\ grants' = Expire(grants)
  /\ UNCHANGED <<due, receipts, cb, leak, issued, answer, slips, ended, overlapped>>

\* Time is looked at only on a grant that is active.
PassTime ==
  /\ \E g \in Active \ due : due' = due \cup {g}
  /\ UNCHANGED <<grants, receipts, cb, leak, issued, answer, slips, ended, overlapped>>

\* A write of the operation fails, or the event after it: the caller has an error.
ContextSlip ==
  /\ cb # Idle /\ slips < MaxSlips /\ slips' = slips + 1
  /\ cb' = Idle /\ Tell(cb.by, "thrown")
  /\ \/ UNCHANGED <<grants, receipts, ended>>
     \/ cb.op = "receipt" /\ receipts' = WithReceipt /\ UNCHANGED <<grants, ended>>
     \/ cb.op = "revoke" /\ grants' = Revoked /\ ended' = ended \cup {cb.g} /\ UNCHANGED receipts
  /\ UNCHANGED <<due, leak, issued, overlapped>>

\* What a restart forgets.
ForgetContext ==
  /\ cb' = Idle /\ leak' = [at |-> "idle", n |-> leak.n] /\ answer' = "none"
  /\ UNCHANGED <<grants, due, receipts, issued, ended, overlapped>>

ContextInit ==
  /\ grants = [g \in Grants |-> IF g <= FirstGrants THEN [status |-> "active", uses |-> 0] ELSE NoGrant]
  /\ due = {} /\ receipts = [g \in Grants |-> <<>>] /\ cb = Idle
  /\ leak = [at |-> "idle", n |-> 0] /\ issued = FirstGrants /\ answer = "none"
  /\ slips = 0 /\ ended = {} /\ overlapped = FALSE

ContextStep == WriteReceipt \/ Count \/ WriteRevoke \/ LeakWrite \/ LeakAsk

ContextNext == ContextStep \/ OperatorRevokes \/ LeakRead \/ Look \/ PassTime \/ ContextSlip

---------------------------------------------------------------------------
ContextTypeOK ==
  /\ grants \in [Grants -> [status : {"none", "active", "expired", "revoked"}, uses : 0..MaxUses]]
  /\ due \subseteq 1..issued
  /\ \A g \in Grants : \A i, j \in DOMAIN receipts[g] :
        receipts[g][i].r = receipts[g][j].r => i = j
  /\ cb.op \in {"idle", "receipt", "count", "revoke"}
  /\ answer \in {"none", "granted", "denied", "revoked", "thrown"}

\* A grant that was revoked is never active again, and every answer that
\* released values under a grant is counted against its limit, but one for each
\* write that failed or each stop.  All of it only as long as no leakage proof
\* has written over the work of the queue.
GrantsHold ==
  overlapped \/ \A g \in Grants :
    /\ g \in ended => grants[g].status = "revoked"
    /\ Cardinality({t \in Range(receipts[g]) : t.why = "ok"})
         <= grants[g].uses + slips + (IF cb.op = "count" /\ cb.g = g THEN 1 ELSE 0)
=============================================================================
