------------------------------- MODULE Mandates -------------------------------
(***************************************************************************)
(* MandateService (packages/mandates/src/mandateService.ts): the registry  *)
(* of signed mandates, their delegation, the policy decision on an action, *)
(* and the human approval of a sensitive one.                              *)
(*                                                                         *)
(* Every operation runs alone (the service serializes them) but is a list  *)
(* of durable writes: a handler makes its checks and its first write in    *)
(* one step, and todo holds the writes it still owes, in order.  A crash,  *)
(* or a write that fails, abandons that list: nothing resumes it.          *)
(*                                                                         *)
(* Registries are sequences, as the files are arrays that only grow: a     *)
(* mandate, an approval or a decision is its position.  A signature is     *)
(* valid, since only the service writes the file.                          *)
(***************************************************************************)
EXTENDS Naturals, Sequences, FiniteSets

CONSTANTS
    Agents,         \* agents that hold a passport
    Capabilities,   \* agent -> the actions its passport names
    PassportExpiry, \* agent -> the instant its passport expires
    Grants,         \* what a human may be asked to sign, for create and delegate
    NoLimit,        \* the value of an absent limit
    Tracked,        \* the event types whose place in the ledger is followed
    Requests,       \* what agents ask to be authorized for
    MaxMandates,    \* bound on the registry
    MaxDecisions,   \* bound on the decision log
    MaxTime,        \* bound on the clock
    MaxFaults       \* bound on crashes and failed writes

ASSUME BoundsAssumption ==
    {MaxMandates, MaxDecisions, MaxTime, MaxFaults} \subseteq Nat

ASSUME PassportAssumption == PassportExpiry \in [Agents -> Nat]

\* Only the agent, the depth and the expiry of a grant need a type; the sets
\* in it (resources, actions, prohibited, gated, delegates) are any sets.
ASSUME GrantsAssumption ==
    \A g \in Grants : /\ g.agent \in Agents
                      /\ g.maxDepth \in Nat
                      /\ g.expiresAt \in Nat
                      /\ g.limit \in Nat \cup {NoLimit}

VARIABLES
    now,        \* the clock
    passports,  \* agent -> lifecycle of its passport
    mandates,   \* the mandate registry
    edges,      \* the delegation registry: <<parent, child>>
    approvals,  \* the approval registry
    decisions,  \* the decision log
    evidence,   \* the authority events of a tracked type that were appended
    todo,       \* the writes the running operation still owes
    faults      \* crashes and failed writes so far

vars == <<now, passports, mandates, edges, approvals, decisions, evidence, todo, faults>>

MandateStatus == {"active", "suspended", "revoked"}
ApprovalStatus == {"pending", "approved", "rejected", "invalidated"}
Verdict == {"ALLOW", "DENY", "REQUIRES_HUMAN_APPROVAL"}

Mandate == [grant : Grants, parent : Nat, depth : Nat, status : MandateStatus]
Approval == [request : Requests, status : ApprovalStatus]
\* approval is the position of the approval a decision opened or settled, or 0
Decision == [request : Requests, verdict : Verdict, approval : Nat]

EventType == {"MANDATE_CREATED", "MANDATE_SIGNED", "DELEGATION_CREATED",
              "DELEGATION_DENIED", "MANDATE_REVOKED", "MANDATE_AMENDED",
              "ACTION_REQUESTED", "POLICY_DECIDED", "HUMAN_RESOLVED"}
\* a creation or lifecycle event is about a mandate, a policy event about a
\* decision and a human event about an approval
Event(type, id) == [kind |-> "event", event |-> <<type, id>>]
Decide(d) == [kind |-> "decide", decision |-> d]
Contain(affected) == [kind |-> "contain", affected |-> affected]
Edge(parent, child) == [kind |-> "edge", edge |-> <<parent, child>>]

Write ==
    [kind : {"event"}, event : EventType \X Nat]
        \cup [kind : {"decide"}, decision : Decision]
        \cup [kind : {"contain"}, affected : SUBSET Nat]
        \cup [kind : {"edge"}, edge : Nat \X Nat]

Idle == todo = <<>>

-----------------------------------------------------------------------------
(* Authority: passports, expiry, attenuation and the delegation chain.      *)

PassportActive(a) == passports[a] = "active" /\ now < PassportExpiry[a]

IsExpired(m) == mandates[m].grant.expiresAt <= now

Greater(child, parent) ==
    /\ child # NoLimit
    /\ parent = NoLimit \/ child > parent

\* Mutant of Attenuates: the parent's gates are not asked of the child.
AttenuatesWithoutGates(parent, g, capabilities) ==
    /\ parent.grant.delegable /\ g.agent \in parent.grant.delegates
    /\ parent.depth + 1 <= parent.grant.maxDepth
    /\ g.resources \subseteq parent.grant.resources
    /\ g.actions \subseteq parent.grant.actions \cap capabilities
    /\ parent.grant.prohibited \subseteq g.prohibited
    /\ g.expiresAt <= parent.grant.expiresAt
    /\ ~ Greater(g.limit, parent.grant.limit)
    /\ g.maxDepth <= parent.grant.maxDepth
    /\ g.delegates \subseteq parent.grant.delegates

\* validateAttenuation: resources stand for the disclosed fields too, and limit
\* for each of the numeric limits.
Attenuates(parent, g, capabilities) ==
    /\ parent.grant.delegable /\ g.agent \in parent.grant.delegates
    /\ parent.depth + 1 <= parent.grant.maxDepth
    /\ g.resources \subseteq parent.grant.resources
    /\ g.actions \subseteq parent.grant.actions \cap capabilities
    /\ parent.grant.prohibited \subseteq g.prohibited
    /\ parent.grant.gated \cap g.actions \subseteq g.gated
    /\ g.expiresAt <= parent.grant.expiresAt
    /\ ~ Greater(g.limit, parent.grant.limit)
    /\ g.maxDepth <= parent.grant.maxDepth
    /\ g.delegates \subseteq parent.grant.delegates

\* The mandate and its ancestors: the least set that holds m and the parent of
\* each of its members.
Lineage(m) ==
    {a \in 1..m : \A S \in SUBSET (1..m) :
        (m \in S /\ \A x \in S : mandates[x].parent # 0 => mandates[x].parent \in S)
            => a \in S}

InForce(m) ==
    /\ mandates[m].status = "active"
    /\ ~ IsExpired(m)

\* validateMandateRecord finds no reason against the mandate
Valid(m) ==
    \A a \in Lineage(m) :
        /\ InForce(a)
        /\ mandates[a].parent # 0 =>
              Attenuates(mandates[mandates[a].parent], mandates[a].grant,
                         mandates[a].grant.actions)

\* Mutant: the revoked mandate alone.
DescendantsNone(root) == {root}

DescendantsOf(root) ==
    {d \in DOMAIN mandates : \A S \in SUBSET (DOMAIN mandates) :
        (root \in S /\ \A x \in DOMAIN mandates : mandates[x].parent \in S => x \in S)
            => d \in S}

-----------------------------------------------------------------------------
(* The operations.                                                          *)

Init ==
    /\ now = 0
    /\ passports = [a \in Agents |-> "active"]
    /\ mandates = <<>> /\ edges = {}
    /\ approvals = <<>> /\ decisions = <<>>
    /\ evidence = {} /\ todo = <<>> /\ faults = 0

\* Mutant: the depth counts the other way.
NewMandateShallower(g, parent) ==
    [grant |-> g, parent |-> parent, status |-> "active",
     depth |-> IF parent = 0 THEN 0 ELSE mandates[parent].depth - 1]

NewMandate(g, parent) ==
    [grant |-> g, parent |-> parent, status |-> "active",
     depth |-> IF parent = 0 THEN 0 ELSE mandates[parent].depth + 1]

Create(g) ==
    /\ Idle /\ Len(mandates) < MaxMandates
    /\ PassportActive(g.agent)
    /\ g.actions \subseteq Capabilities[g.agent]
    /\ now < g.expiresAt
    /\ mandates' = Append(mandates, NewMandate(g, 0))
    /\ todo' = <<Event("MANDATE_CREATED", Len(mandates')), Event("MANDATE_SIGNED", Len(mandates'))>>
    /\ UNCHANGED <<now, passports, edges, approvals, decisions, evidence, faults>>

\* The holder of p delegates to the agent of g; the human has signed.
Delegate(p, g) ==
    /\ Idle /\ Len(mandates) < MaxMandates
    /\ p \in DOMAIN mandates /\ Valid(p)
    /\ PassportActive(g.agent)
    /\ Attenuates(mandates[p], g, Capabilities[g.agent])
    /\ mandates' = Append(mandates, NewMandate(g, p))
    /\ todo' = <<Edge(p, Len(mandates')), Event("DELEGATION_CREATED", Len(mandates'))>>
    /\ UNCHANGED <<now, passports, edges, approvals, decisions, evidence, faults>>

DenyDelegation(p, g) ==
    /\ Idle
    /\ p \in DOMAIN mandates /\ Valid(p)
    /\ PassportActive(g.agent)
    /\ ~ Attenuates(mandates[p], g, Capabilities[g.agent])
    /\ todo' = <<Event("DELEGATION_DENIED", p)>>
    /\ UNCHANGED <<now, passports, mandates, edges, approvals, decisions, evidence, faults>>

WithStatus(affected, status) ==
    [m \in DOMAIN mandates |->
        IF m \in affected THEN [mandates[m] EXCEPT !.status = status] ELSE mandates[m]]

Revoke(m) ==
    /\ Idle /\ m \in DOMAIN mandates /\ mandates[m].status # "revoked"
    /\ mandates' = WithStatus(DescendantsOf(m), "revoked")
    /\ todo' = <<Contain(DescendantsOf(m)), Event("MANDATE_REVOKED", m)>>
    /\ UNCHANGED <<now, passports, edges, approvals, decisions, evidence, faults>>

Suspend(m) ==
    /\ Idle /\ m \in DOMAIN mandates /\ mandates[m].status # "revoked"
    /\ mandates' = WithStatus({m}, "suspended")
    /\ todo' = <<Event("MANDATE_AMENDED", m)>>
    /\ UNCHANGED <<now, passports, edges, approvals, decisions, evidence, faults>>

\* Mutant: the check that only a suspended mandate comes back is lost.
ReactivateAny(m) ==
    /\ Idle /\ m \in DOMAIN mandates /\ mandates[m].status # "active" /\ ~ IsExpired(m)
    /\ mandates' = WithStatus({m}, "active")
    /\ todo' = <<Event("MANDATE_AMENDED", m)>>
    /\ UNCHANGED <<now, passports, edges, approvals, decisions, evidence, faults>>

Reactivate(m) ==
    /\ Idle /\ m \in DOMAIN mandates /\ mandates[m].status = "suspended" /\ ~ IsExpired(m)
    /\ mandates' = WithStatus({m}, "active")
    /\ todo' = <<Event("MANDATE_AMENDED", m)>>
    /\ UNCHANGED <<now, passports, edges, approvals, decisions, evidence, faults>>

\* proveOverBroadDelegation: the newest delegable mandate refuses a widened child.
ProbeDelegation(agent) ==
    LET delegable == {m \in DOMAIN mandates :
                        InForce(m) /\ mandates[m].grant.delegable /\ mandates[m].grant.delegates # {}}
    IN /\ Idle /\ PassportActive(agent)
       /\ \E m \in delegable :
            /\ \A n \in delegable : n <= m
            /\ agent \in mandates[m].grant.delegates
            /\ mandates[m].depth + 1 <= mandates[m].grant.maxDepth
            /\ todo' = <<Event("DELEGATION_DENIED", m)>>
       /\ UNCHANGED <<now, passports, mandates, edges, approvals, decisions, evidence, faults>>

-----------------------------------------------------------------------------
(* The policy decision and the human's.                                     *)

Answered(r) == \E i \in DOMAIN decisions : decisions[i].request.key = r.key

\* What every rule up to the approval gate asks of the request.
Admissible(r) ==
    /\ PassportActive(r.agent)
    /\ r.mandate \in DOMAIN mandates /\ Valid(r.mandate)
    /\ LET g == mandates[r.mandate].grant
       IN /\ g.agent = r.agent
          /\ r.resource \in g.resources
          /\ r.action \notin g.prohibited
          /\ g.limit = NoLimit \/ r.amount <= g.limit

Gated(r) == r.action \in mandates[r.mandate].grant.gated

Conclude(r, verdict, approval) ==
    LET n == Len(decisions) + 1
    IN <<Decide([request |-> r, verdict |-> verdict, approval |-> approval]),
         Event("ACTION_REQUESTED", n), Event("POLICY_DECIDED", n)>>

\* evaluate: the gate comes before the list of allowed actions, so an action
\* may be gated without being listed.
Evaluation(r) ==
    IF Answered(r) \/ ~ Admissible(r) THEN "DENY"
    ELSE IF Gated(r) THEN "REQUIRES_HUMAN_APPROVAL"
    ELSE IF r.action \in mandates[r.mandate].grant.actions THEN "ALLOW" ELSE "DENY"

Authorize(r) ==
    /\ Idle /\ Len(decisions) < MaxDecisions
    /\ Evaluation(r) # "REQUIRES_HUMAN_APPROVAL"
    /\ todo' = Conclude(r, Evaluation(r), 0)
    /\ UNCHANGED <<now, passports, mandates, edges, approvals, decisions, evidence, faults>>

\* A gated action: the pending approval is written before the decision.
RequireApproval(r) ==
    /\ Idle /\ Len(decisions) < MaxDecisions
    /\ Evaluation(r) = "REQUIRES_HUMAN_APPROVAL"
    /\ approvals' = Append(approvals, [request |-> r, status |-> "pending"])
    /\ todo' = Conclude(r, "REQUIRES_HUMAN_APPROVAL", Len(approvals'))
    /\ UNCHANGED <<now, passports, mandates, edges, decisions, evidence, faults>>

\* Mutant: the mandate is not looked at again when the human answers.
ResolvableBlindly(a) == approvals[a].status = "pending"

\* Mutant: an approval that was settled may be settled again.
ResolvableAgain(a) == InForce(approvals[a].request.mandate)

Resolvable(a) ==
    /\ approvals[a].status = "pending"
    /\ InForce(approvals[a].request.mandate)

\* Mutant: the event is written before the decision it reports.
ResolveApprovalEvidenceFirst(a, approve) ==
    /\ Idle /\ Len(decisions) < MaxDecisions
    /\ a \in DOMAIN approvals /\ Resolvable(a)
    /\ approvals' = [approvals EXCEPT ![a].status = IF approve THEN "approved" ELSE "rejected"]
    /\ todo' = <<Event("HUMAN_RESOLVED", a),
                 Decide([request |-> approvals[a].request, approval |-> a,
                         verdict |-> IF approve THEN "ALLOW" ELSE "DENY"])>>
    /\ UNCHANGED <<now, passports, mandates, edges, decisions, evidence, faults>>

ResolveApproval(a, approve) ==
    /\ Idle /\ Len(decisions) < MaxDecisions
    /\ a \in DOMAIN approvals /\ Resolvable(a)
    /\ approvals' = [approvals EXCEPT ![a].status = IF approve THEN "approved" ELSE "rejected"]
    /\ todo' = <<Decide([request |-> approvals[a].request, approval |-> a,
                         verdict |-> IF approve THEN "ALLOW" ELSE "DENY"]),
                 Event("HUMAN_RESOLVED", a)>>
    /\ UNCHANGED <<now, passports, mandates, edges, decisions, evidence, faults>>

-----------------------------------------------------------------------------
(* The writes an operation owes, and what may stop them.                    *)

Invalidated(affected) ==
    [a \in DOMAIN approvals |->
        IF approvals[a].status = "pending" /\ approvals[a].request.mandate \in affected
        THEN [approvals[a] EXCEPT !.status = "invalidated"] ELSE approvals[a]]

Perform ==
    /\ ~ Idle /\ todo' = Tail(todo)
    /\ LET w == Head(todo)
       IN \/ /\ w.kind = "event"
             /\ evidence' = evidence \cup ({w.event} \cap (Tracked \X Nat))
             /\ UNCHANGED <<edges, approvals, decisions>>
          \/ /\ w.kind = "decide" /\ decisions' = Append(decisions, w.decision)
             /\ UNCHANGED <<edges, approvals, evidence>>
          \/ /\ w.kind = "contain" /\ approvals' = Invalidated(w.affected)
             /\ UNCHANGED <<edges, decisions, evidence>>
          \/ /\ w.kind = "edge" /\ edges' = edges \cup {w.edge}
             /\ UNCHANGED <<approvals, decisions, evidence>>
    /\ UNCHANGED <<now, passports, mandates, faults>>

\* The process stops, or a write throws: the rest of the operation is lost.
Fault ==
    /\ ~ Idle /\ faults < MaxFaults
    /\ todo' = <<>> /\ faults' = faults + 1
    /\ UNCHANGED <<now, passports, mandates, edges, approvals, decisions, evidence>>

Tick ==
    /\ now < MaxTime /\ now' = now + 1
    /\ UNCHANGED <<passports, mandates, edges, approvals, decisions, evidence, todo, faults>>

\* AgentIdentityService.updatePassport, on a queue of its own
UpdatePassport(a, status) ==
    /\ passports[a] # "revoked"
    /\ status = "active" => passports[a] = "suspended"
    /\ passports' = [passports EXCEPT ![a] = status]
    /\ UNCHANGED <<now, mandates, edges, approvals, decisions, evidence, todo, faults>>

Next ==
    \/ \E g \in Grants : Create(g)
    \/ \E p \in DOMAIN mandates, g \in Grants : Delegate(p, g) \/ DenyDelegation(p, g)
    \/ \E m \in DOMAIN mandates : Revoke(m) \/ Suspend(m) \/ Reactivate(m)
    \/ \E a \in Agents : ProbeDelegation(a)
    \/ \E r \in Requests : Authorize(r) \/ RequireApproval(r)
    \/ \E a \in DOMAIN approvals, approve \in BOOLEAN : ResolveApproval(a, approve)
    \/ Perform \/ Fault \/ Tick
    \/ \E a \in Agents, status \in MandateStatus : UpdatePassport(a, status)

Spec == Init /\ [][Next]_vars

-----------------------------------------------------------------------------
(* Properties.                                                              *)

\* Every record keeps the shape its schema gives it.
TypeOK ==
    /\ now \in Nat /\ faults \in Nat
    /\ passports \in [Agents -> MandateStatus]
    /\ mandates \in Seq(Mandate)
    /\ edges \in SUBSET (Nat \X Nat)
    /\ approvals \in Seq(Approval)
    /\ decisions \in Seq(Decision)
    /\ evidence \in SUBSET (EventType \X Nat)
    /\ todo \in Seq(Write)

\* A grant within another, as far as the code bounds it.
Within(down, up) ==
    /\ down.actions \subseteq up.actions
    /\ up.gated \cap down.actions \subseteq down.gated
    /\ up.prohibited \subseteq down.prohibited
    /\ down.resources \subseteq up.resources
    /\ ~ Greater(down.limit, up.limit)
    /\ down.expiresAt <= up.expiresAt

\* However long the chain, what a mandate lists (all it allows without a human)
\* each of its ancestors lists too, and none of them gates it unless the mandate
\* does; it keeps their prohibitions, reaches no other resource, names no limit
\* where one of them has none or a lower one, expires no later and is no deeper
\* than they permit (delegate and validateAttenuation).  Two things the code does
\* not bound, and neither does this: a mandate may gate an action that no ancestor
\* lists, which a human may then allow, and may have no limit where they have one.
AuthorityNeverGrows ==
    \A m \in DOMAIN mandates : \A a \in Lineage(m) \ {m} :
        /\ Within(mandates[m].grant, mandates[a].grant)
        /\ mandates[m].depth <= mandates[a].grant.maxDepth

\* The same of one link of the chain: what delegate establishes of a new child.
LinkAttenuates(m) ==
    LET up == mandates[mandates[m].parent] down == mandates[m]
    IN /\ Within(down.grant, up.grant)
       /\ down.grant.maxDepth <= up.grant.maxDepth
       /\ down.depth = up.depth + 1 /\ down.depth <= up.grant.maxDepth

\* The registry is a forest that grows at its leaves, and every link attenuates.
ChainSound ==
    \A m \in DOMAIN mandates :
        /\ mandates[m].parent < m
        /\ mandates[m].parent # 0 => LinkAttenuates(m)

\* A revoked mandate has no descendant that is not revoked, whatever was
\* delegated, suspended or reactivated under it before or is attempted after
\* (updateLifecycle revokes the whole subtree in one write).
CascadeComplete ==
    \A m \in DOMAIN mandates :
        (mandates[m].parent # 0 /\ mandates[mandates[m].parent].status = "revoked")
            => mandates[m].status = "revoked"

\* Revocation is final: no later operation, and no fault in the middle of one,
\* brings a revoked mandate back.
RevokedForever ==
    [][\A m \in DOMAIN mandates :
          mandates[m].status = "revoked" => mandates'[m].status = "revoked"]_vars

\* An action that its mandate gates is allowed only through an approval that a
\* human granted for it, also when it is listed among the allowed actions; and an
\* approval is worth one ALLOW: the human's answer cannot be used again, not even
\* after a crash between the approval's write and the decision's.
GatedNeedsHuman ==
    \A i \in DOMAIN decisions :
        (decisions[i].verdict = "ALLOW"
            /\ decisions[i].request.action \in mandates[decisions[i].request.mandate].grant.gated)
            => /\ decisions[i].approval \in DOMAIN approvals
               /\ approvals[decisions[i].approval].status = "approved"
               /\ approvals[decisions[i].approval].request = decisions[i].request
               /\ \A j \in DOMAIN decisions :
                     decisions[j].verdict = "ALLOW" /\ decisions[j].approval = decisions[i].approval
                     => i = j

\* No ALLOW is written for a mandate that is revoked or hangs below one that is,
\* even for an approval that a crash left pending because the revocation never
\* reached its containment.  A mandate above that is only suspended, and the
\* passport, are not looked at when the human answers (resolveApproval).
NoAllowOnceRevoked ==
    [][Len(decisions') > Len(decisions) =>
          LET d == decisions'[Len(decisions')]
          IN d.verdict = "ALLOW" =>
                \A a \in Lineage(d.request.mandate) : mandates[a].status # "revoked"]_vars

\* The ledger never reports more than the registries hold: a policy or human event
\* follows the decision it reports, and a revocation event the whole cascade.
EvidenceBacked ==
    /\ \A n \in 1..MaxDecisions : <<"POLICY_DECIDED", n>> \in evidence => n \in DOMAIN decisions
    /\ \A a \in DOMAIN approvals : <<"HUMAN_RESOLVED", a>> \in evidence =>
          \E i \in DOMAIN decisions : decisions[i].approval = a
                                     /\ decisions[i].verdict # "REQUIRES_HUMAN_APPROVAL"
    /\ \A m \in DOMAIN mandates : <<"MANDATE_REVOKED", m>> \in evidence =>
          \A d \in DescendantsOf(m) : mandates[d].status = "revoked"
==============================================================================
