---------------------------- MODULE MandatesProofs ----------------------------
(***************************************************************************)
(* Proofs about Mandates, for every set of agents, grants and requests.    *)
(* The registry keeps its type, authority only shrinks along a chain of    *)
(* delegations, and revocation covers a subtree and is final.  An ALLOW of *)
(* a gated action stands on one approval of a human that is used once,     *)
(* none is written for a revoked mandate, and the ledger reports nothing   *)
(* that the registries do not hold, wherever an operation is cut off.      *)
(*                                                                         *)
(* MandatesChange sums up what a step may do to the registry; every        *)
(* invariance proof about the registry cites it instead of the actions.    *)
(***************************************************************************)
EXTENDS Mandates, TLAPS, SequenceTheorems

\* A sequence written as a function over the indices of another one.
LEMMA MappedSeq ==
    ASSUME NEW S, NEW T, NEW s \in Seq(S), NEW t,
           t \in [DOMAIN s -> T]
    PROVE  t \in Seq(T) /\ Len(t) = Len(s) /\ DOMAIN t = DOMAIN s
  <1>1. DOMAIN s = 1..Len(s) /\ Len(s) \in Nat
    BY LenProperties
  <1>2. t \in Seq(T)
    BY <1>1, SeqDef
  <1>3. DOMAIN t = 1..Len(t) /\ Len(t) \in Nat
    BY <1>2, LenProperties
  <1>4. DOMAIN t = 1..Len(s)
    BY <1>1
  <1>5. Len(t) = Len(s)
    BY <1>1, <1>3, <1>4
  <1> QED BY <1>1, <1>2, <1>4, <1>5

LEMMA AppendType ==
    ASSUME NEW S, NEW s \in Seq(S), NEW e \in S
    PROVE  Append(s, e) \in Seq(S)
  OBVIOUS

\* A change of status touches no other field, and no other mandate.
LEMMA WithStatusFacts ==
    ASSUME mandates \in Seq(Mandate), NEW affected, NEW status \in MandateStatus
    PROVE  /\ WithStatus(affected, status) \in Seq(Mandate)
           /\ DOMAIN WithStatus(affected, status) = DOMAIN mandates
           /\ \A m \in DOMAIN mandates :
                /\ WithStatus(affected, status)[m].grant = mandates[m].grant
                /\ WithStatus(affected, status)[m].parent = mandates[m].parent
                /\ WithStatus(affected, status)[m].depth = mandates[m].depth
                /\ WithStatus(affected, status)[m].status =
                      IF m \in affected THEN status ELSE mandates[m].status
  <1>1. \A m \in DOMAIN mandates : mandates[m] \in Mandate
    BY ElementOfSeq, LenProperties
  <1>2. WithStatus(affected, status) \in [DOMAIN mandates -> Mandate]
    BY <1>1 DEF WithStatus, Mandate
  <1>3. WithStatus(affected, status) \in Seq(Mandate)
    BY <1>2, MappedSeq
  <1> QED BY <1>1, <1>2, <1>3 DEF WithStatus, Mandate

\* A mandate that is appended leaves the others where they are.
LEMMA AppendFacts ==
    ASSUME mandates \in Seq(Mandate), NEW new \in Mandate
    PROVE  /\ Append(mandates, new) \in Seq(Mandate)
           /\ DOMAIN mandates = 1..Len(mandates)
           /\ Len(mandates) \in Nat
           /\ DOMAIN Append(mandates, new) = 1..(Len(mandates) + 1)
           /\ \A m \in DOMAIN mandates : Append(mandates, new)[m] = mandates[m]
           /\ Append(mandates, new)[Len(mandates) + 1] = new
  OBVIOUS

LEMMA NewMandateType ==
    ASSUME TypeOK, NEW g \in Grants, NEW p \in Nat, p = 0 \/ p \in DOMAIN mandates
    PROVE  NewMandate(g, p) \in Mandate
  <1>1. CASE p = 0
    BY <1>1 DEF NewMandate, Mandate, MandateStatus
  <1>2. CASE p # 0
    <2>1. mandates[p] \in Mandate
      BY <1>2, ElementOfSeq, LenProperties DEF TypeOK
    <2> QED BY <1>2, <2>1 DEF NewMandate, Mandate, MandateStatus
  <1> QED BY <1>1, <1>2

\* A valid mandate is in force itself: it belongs to its own lineage.
LEMMA ValidInForce ==
    ASSUME TypeOK, NEW p \in DOMAIN mandates, Valid(p)
    PROVE  InForce(p)
  <1>1. p \in 1..p
    BY LenProperties DEF TypeOK
  <1>2. p \in Lineage(p)
    BY <1>1 DEF Lineage
  <1> QED BY <1>2 DEF Valid

\* The root is among its descendants, and so is every child of a descendant.
LEMMA DescendantsClosed ==
    ASSUME NEW root \in DOMAIN mandates
    PROVE  /\ root \in DescendantsOf(root)
           /\ DescendantsOf(root) \subseteq DOMAIN mandates
           /\ \A x \in DOMAIN mandates :
                 mandates[x].parent \in DescendantsOf(root) => x \in DescendantsOf(root)
  BY DEF DescendantsOf

-----------------------------------------------------------------------------
(* What a step may do to the registry.                                      *)

Appended(g) == mandates' = Append(mandates, NewMandate(g, 0))
Delegated(p, g) ==
    /\ p \in DOMAIN mandates /\ InForce(p)
    /\ Attenuates(mandates[p], g, Capabilities[g.agent])
    /\ mandates' = Append(mandates, NewMandate(g, p))
Revoked(m) == m \in DOMAIN mandates /\ mandates' = WithStatus(DescendantsOf(m), "revoked")
Amended(m, status) ==
    /\ m \in DOMAIN mandates /\ mandates[m].status # "revoked"
    /\ mandates' = WithStatus({m}, status)

LEMMA MandatesChange ==
    ASSUME TypeOK, [Next]_vars
    PROVE  \/ UNCHANGED mandates
           \/ \E g \in Grants : Appended(g)
           \/ \E p \in DOMAIN mandates, g \in Grants : Delegated(p, g)
           \/ \E m \in DOMAIN mandates : Revoked(m)
           \/ \E m \in DOMAIN mandates, status \in {"suspended", "active"} : Amended(m, status)
  <1>1. ASSUME NEW g \in Grants, Create(g) PROVE Appended(g)
    BY <1>1 DEF Create, Appended
  <1>2. ASSUME NEW p \in DOMAIN mandates, NEW g \in Grants, Delegate(p, g)
        PROVE  Delegated(p, g)
    BY <1>2, ValidInForce DEF Delegate, Delegated
  <1>3. ASSUME NEW m \in DOMAIN mandates, Revoke(m) PROVE Revoked(m)
    BY <1>3 DEF Revoke, Revoked
  <1>4. ASSUME NEW m \in DOMAIN mandates, Suspend(m) PROVE Amended(m, "suspended")
    BY <1>4 DEF Suspend, Amended
  <1>5. ASSUME NEW m \in DOMAIN mandates, Reactivate(m) PROVE Amended(m, "active")
    BY <1>5 DEF Reactivate, Amended
  <1>6. ASSUME NEW p \in DOMAIN mandates, NEW g \in Grants, DenyDelegation(p, g)
        PROVE  UNCHANGED mandates
    BY <1>6 DEF DenyDelegation
  <1>7. ASSUME NEW a \in Agents, ProbeDelegation(a) PROVE UNCHANGED mandates
    BY <1>7 DEF ProbeDelegation
  <1>8. ASSUME NEW r \in Requests, Authorize(r) \/ RequireApproval(r) PROVE UNCHANGED mandates
    BY <1>8 DEF Authorize, RequireApproval
  <1>9. ASSUME NEW a \in DOMAIN approvals, NEW approve \in BOOLEAN, ResolveApproval(a, approve)
        PROVE  UNCHANGED mandates
    BY <1>9 DEF ResolveApproval
  <1>10. CASE Perform \/ Fault \/ Tick \/ UNCHANGED vars
    BY <1>10 DEF Perform, Fault, Tick, vars
  <1>11. ASSUME NEW a \in Agents, NEW status \in MandateStatus, UpdatePassport(a, status)
         PROVE  UNCHANGED mandates
    BY <1>11 DEF UpdatePassport
  <1> QED BY <1>1, <1>2, <1>3, <1>4, <1>5, <1>6, <1>7, <1>8, <1>9, <1>10, <1>11 DEF Next

-----------------------------------------------------------------------------
(* The type invariant.                                                      *)

\* What a handler writes first, and what it leaves in todo, has its type.
LEMMA TodoTypes ==
    ASSUME TypeOK
    PROVE  /\ \A type \in EventType, id \in Nat : Event(type, id) \in Write
           /\ \A d \in Decision : Decide(d) \in Write
           /\ \A S \in SUBSET Nat : Contain(S) \in Write
           /\ \A p, c \in Nat : Edge(p, c) \in Write
  BY DEF Write, Event, Decide, Contain, Edge

LEMMA IndexTypes ==
    ASSUME TypeOK
    PROVE  /\ DOMAIN mandates \subseteq Nat /\ Len(mandates) \in Nat
           /\ DOMAIN approvals \subseteq Nat /\ Len(approvals) \in Nat
           /\ Len(decisions) \in Nat
           /\ \A m \in DOMAIN mandates : mandates[m] \in Mandate
           /\ \A a \in DOMAIN approvals : approvals[a] \in Approval
  BY LenProperties, ElementOfSeq DEF TypeOK

LEMMA ConcludeType ==
    ASSUME TypeOK, NEW r \in Requests, NEW verdict \in Verdict, NEW a \in Nat
    PROVE  Conclude(r, verdict, a) \in Seq(Write)
  <1>1. [request |-> r, verdict |-> verdict, approval |-> a] \in Decision
    BY DEF Decision
  <1>2. Len(decisions) + 1 \in Nat
    BY IndexTypes
  <1>3. /\ Decide([request |-> r, verdict |-> verdict, approval |-> a]) \in Write
        /\ Event("ACTION_REQUESTED", Len(decisions) + 1) \in Write
        /\ Event("POLICY_DECIDED", Len(decisions) + 1) \in Write
    BY <1>1, <1>2, TodoTypes DEF EventType
  <1> QED BY <1>3 DEF Conclude

LEMMA InvalidatedType ==
    ASSUME TypeOK, NEW affected
    PROVE  Invalidated(affected) \in Seq(Approval)
  <1>1. Invalidated(affected) \in [DOMAIN approvals -> Approval]
    BY IndexTypes DEF Invalidated, Approval, ApprovalStatus
  <1> QED BY <1>1, MappedSeq DEF TypeOK

\* The registry part: what MandatesChange allows keeps every record a mandate.
LEMMA MandatesType ==
    ASSUME TypeOK, [Next]_vars
    PROVE  mandates' \in Seq(Mandate)
  <1>1. CASE UNCHANGED mandates
    BY <1>1 DEF TypeOK
  <1>2. ASSUME NEW g \in Grants, Appended(g) PROVE mandates' \in Seq(Mandate)
    BY <1>2, NewMandateType, AppendFacts DEF Appended, TypeOK
  <1>3. ASSUME NEW p \in DOMAIN mandates, NEW g \in Grants, Delegated(p, g)
        PROVE  mandates' \in Seq(Mandate)
    <2>1. NewMandate(g, p) \in Mandate
      BY NewMandateType, IndexTypes
    <2> QED BY <1>3, <2>1, AppendFacts DEF Delegated, TypeOK
  <1>4. ASSUME NEW m \in DOMAIN mandates, Revoked(m) PROVE mandates' \in Seq(Mandate)
    BY <1>4, WithStatusFacts DEF Revoked, TypeOK, MandateStatus
  <1>5. ASSUME NEW m \in DOMAIN mandates, NEW status \in {"suspended", "active"},
               Amended(m, status)
        PROVE  mandates' \in Seq(Mandate)
    BY <1>5, WithStatusFacts DEF Amended, TypeOK, MandateStatus
  <1> QED BY <1>1, <1>2, <1>3, <1>4, <1>5, MandatesChange

\* Every record keeps its shape: the type invariant of the service's files.
LEMMA TypeInvariant ==
    ASSUME TypeOK, [Next]_vars
    PROVE  TypeOK'
  <1> USE IndexTypes, TodoTypes
  <1>0. mandates' \in Seq(Mandate)
    BY MandatesType
  <1>1. ASSUME NEW g \in Grants, Create(g) PROVE TypeOK'
    <2>1. Len(mandates') \in Nat
      BY <1>0, LenProperties
    <2>2. todo' \in Seq(Write)
      BY <1>1, <2>1 DEF Create, EventType
    <2> QED BY <1>0, <1>1, <2>2 DEF Create, TypeOK
  <1>2. ASSUME NEW p \in DOMAIN mandates, NEW g \in Grants, Delegate(p, g) PROVE TypeOK'
    <2>1. Len(mandates') \in Nat
      BY <1>0, LenProperties
    <2>2. todo' \in Seq(Write)
      BY <1>2, <2>1 DEF Delegate, EventType
    <2> QED BY <1>0, <1>2, <2>2 DEF Delegate, TypeOK
  <1>3. ASSUME NEW p \in DOMAIN mandates, NEW g \in Grants, DenyDelegation(p, g) PROVE TypeOK'
    <2>1. todo' \in Seq(Write)
      BY <1>3 DEF DenyDelegation, EventType
    <2> QED BY <1>0, <1>3, <2>1 DEF DenyDelegation, TypeOK
  <1>4. ASSUME NEW m \in DOMAIN mandates, Revoke(m) PROVE TypeOK'
    <2>1. DescendantsOf(m) \in SUBSET Nat
      BY DescendantsClosed
    <2>2. todo' \in Seq(Write)
      BY <1>4, <2>1 DEF Revoke, EventType
    <2> QED BY <1>0, <1>4, <2>2 DEF Revoke, TypeOK
  <1>5. ASSUME NEW m \in DOMAIN mandates, Suspend(m) \/ Reactivate(m) PROVE TypeOK'
    <2>1. todo' \in Seq(Write)
      <3>1. todo' = <<Event("MANDATE_AMENDED", m)>>
        BY <1>5 DEF Suspend, Reactivate
      <3> QED BY <3>1 DEF EventType
    <2>2. CASE Suspend(m)
      BY <1>0, <2>1, <2>2 DEF Suspend, TypeOK
    <2>3. CASE Reactivate(m)
      BY <1>0, <2>1, <2>3 DEF Reactivate, TypeOK
    <2> QED BY <1>5, <2>2, <2>3
  <1>6. ASSUME NEW a \in Agents, ProbeDelegation(a) PROVE TypeOK'
    <2>1. todo' \in Seq(Write)
      BY <1>6 DEF ProbeDelegation, EventType
    <2> QED BY <1>0, <1>6, <2>1 DEF ProbeDelegation, TypeOK
  <1>7. ASSUME NEW r \in Requests, Authorize(r) PROVE TypeOK'
    <2>1. Evaluation(r) \in Verdict
      BY DEF Evaluation, Verdict
    <2>2. todo' \in Seq(Write)
      BY <1>7, <2>1, ConcludeType DEF Authorize
    <2> QED BY <1>0, <1>7, <2>2 DEF Authorize, TypeOK
  <1>8. ASSUME NEW r \in Requests, RequireApproval(r) PROVE TypeOK'
    <2>1. approvals' \in Seq(Approval)
      BY <1>8 DEF RequireApproval, TypeOK, Approval, ApprovalStatus
    <2>2. Len(approvals') \in Nat
      BY <2>1, LenProperties
    <2>3. todo' \in Seq(Write)
      BY <1>8, <2>2, ConcludeType DEF RequireApproval, Verdict
    <2> QED BY <1>0, <1>8, <2>1, <2>3 DEF RequireApproval, TypeOK
  <1>9. ASSUME NEW a \in DOMAIN approvals, NEW approve \in BOOLEAN, ResolveApproval(a, approve)
        PROVE  TypeOK'
    <2> DEFINE status == IF approve THEN "approved" ELSE "rejected"
               verdict == IF approve THEN "ALLOW" ELSE "DENY"
               decision == [request |-> approvals[a].request, approval |-> a, verdict |-> verdict]
    <2>1. approvals' \in Seq(Approval)
      <3>1. [approvals[a] EXCEPT !.status = status] \in Approval
        BY DEF Approval, ApprovalStatus
      <3>2. approvals' = [approvals EXCEPT ![a] = [approvals[a] EXCEPT !.status = status]]
        BY <1>9 DEF ResolveApproval
      <3>3. a \in 1..Len(approvals)
        BY LenProperties DEF TypeOK
      <3> HIDE DEF status
      <3> QED BY <3>1, <3>2, <3>3, ExceptSeq DEF TypeOK
    <2>2. decision \in Decision
      BY DEF Decision, Verdict, Approval
    <2>3. todo' = <<Decide(decision), Event("HUMAN_RESOLVED", a)>>
      BY <1>9 DEF ResolveApproval
    <2> HIDE DEF decision
    <2>4. todo' \in Seq(Write)
      BY <2>2, <2>3 DEF EventType
    <2> QED BY <1>0, <1>9, <2>1, <2>4 DEF ResolveApproval, TypeOK
  <1>10. CASE Perform
    <2>1. Head(todo) \in Write /\ todo' \in Seq(Write)
      BY <1>10, HeadTailProperties DEF Perform, TypeOK, Idle
    <2>2. approvals' \in Seq(Approval)
      BY <1>10, <2>1, InvalidatedType DEF Perform, TypeOK
    <2>3. decisions' \in Seq(Decision)
      <3>1. Head(todo).kind = "decide" => Head(todo).decision \in Decision
        BY <2>1 DEF Write
      <3>2. \/ decisions' = decisions
            \/ /\ Head(todo).kind = "decide"
               /\ decisions' = Append(decisions, Head(todo).decision)
        BY <1>10 DEF Perform
      <3>3. CASE Head(todo).kind = "decide" /\ decisions' = Append(decisions, Head(todo).decision)
        BY <3>1, <3>3, AppendType DEF TypeOK
      <3>4. CASE decisions' = decisions
        BY <3>4 DEF TypeOK
      <3> QED BY <3>2, <3>3, <3>4
    <2>4. /\ Head(todo).kind = "event" => Head(todo).event \in EventType \X Nat
          /\ Head(todo).kind = "edge" => Head(todo).edge \in Nat \X Nat
      BY <2>1 DEF Write
    <2>5. evidence' \subseteq EventType \X Nat
      BY <1>10, <2>4 DEF Perform, TypeOK
    <2>6. edges' \subseteq Nat \X Nat
      BY <1>10, <2>4 DEF Perform, TypeOK
    <2> QED BY <1>0, <1>10, <2>1, <2>2, <2>3, <2>5, <2>6 DEF Perform, TypeOK
  <1>11. CASE Fault
    BY <1>0, <1>11 DEF Fault, TypeOK
  <1>13. CASE Tick
    BY <1>0, <1>13 DEF Tick, TypeOK
  <1>14. CASE UNCHANGED vars
    BY <1>0, <1>14 DEF vars, TypeOK
  <1>12. ASSUME NEW a \in Agents, NEW status \in MandateStatus, UpdatePassport(a, status)
         PROVE  TypeOK'
    BY <1>0, <1>12 DEF UpdatePassport, TypeOK
  <1> QED BY <1>1, <1>2, <1>3, <1>4, <1>5, <1>6, <1>7, <1>8, <1>9, <1>10, <1>11, <1>12,
            <1>13, <1>14 DEF Next

THEOREM TypeCorrect == Spec => []TypeOK
  <1>1. Init => TypeOK
    BY DEF Init, TypeOK, MandateStatus
  <1> QED BY <1>1, TypeInvariant, PTL DEF Spec

-----------------------------------------------------------------------------
(* The chain of delegations.                                                *)

\* Attenuates gives a new link everything LinkAttenuates asks of it.
LEMMA ChainInvariant ==
    ASSUME TypeOK, ChainSound, [Next]_vars
    PROVE  ChainSound'
  <1> USE IndexTypes
  <1>1. CASE UNCHANGED mandates
    BY <1>1 DEF ChainSound, LinkAttenuates
  <1>2. ASSUME NEW p \in Nat, NEW g \in Grants, p = 0 \/ Delegated(p, g),
               mandates' = Append(mandates, NewMandate(g, p))
        PROVE  ChainSound'
    <2>1. NewMandate(g, p) \in Mandate
      BY <1>2, NewMandateType DEF Delegated
    <2>2. /\ DOMAIN mandates = 1..Len(mandates)
          /\ DOMAIN mandates' = 1..(Len(mandates) + 1)
          /\ \A m \in DOMAIN mandates : mandates'[m] = mandates[m]
          /\ mandates'[Len(mandates) + 1] = NewMandate(g, p)
      BY <1>2, <2>1, AppendFacts DEF TypeOK
    <2>3. NewMandate(g, p).parent = p /\ NewMandate(g, p).grant = g
      BY DEF NewMandate
    <2>4. ASSUME NEW m \in DOMAIN mandates
          PROVE  /\ mandates'[m].parent < m
                 /\ mandates'[m].parent # 0 => LinkAttenuates(m)'
      <3>1. mandates[m].parent < m /\ mandates[m].parent \in Nat
        BY DEF ChainSound, Mandate
      <3>2. mandates[m].parent # 0 => mandates[m].parent \in DOMAIN mandates
        BY <2>2, <3>1
      <3> QED BY <2>2, <3>1, <3>2 DEF ChainSound, LinkAttenuates
    <2>5. ASSUME NEW n, n = Len(mandates) + 1, p # 0
          PROVE  LinkAttenuates(n)'
      <3>1. mandates'[n] = NewMandate(g, p) /\ p # 0
        BY <2>2, <2>5
      <3>2. /\ p \in DOMAIN mandates
            /\ Attenuates(mandates[p], g, Capabilities[g.agent])
        BY <1>2, <3>1 DEF Delegated
      <3>3. NewMandate(g, p).depth = mandates[p].depth + 1
        BY <3>1 DEF NewMandate
      <3> QED BY <2>2, <2>3, <3>1, <3>2, <3>3 DEF LinkAttenuates, Attenuates, Within
    <2>6. p < Len(mandates) + 1
      BY <1>2, <2>2 DEF Delegated
    <2> QED BY <2>2, <2>3, <2>4, <2>5, <2>6 DEF ChainSound
  <1>3. ASSUME NEW S, NEW status \in MandateStatus, mandates' = WithStatus(S, status)
        PROVE  ChainSound'
    <2>1. /\ DOMAIN mandates' = DOMAIN mandates
          /\ \A m \in DOMAIN mandates :
                /\ mandates'[m].grant = mandates[m].grant
                /\ mandates'[m].parent = mandates[m].parent
                /\ mandates'[m].depth = mandates[m].depth
      BY <1>3, WithStatusFacts DEF TypeOK
    <2>2. \A m \in DOMAIN mandates :
             mandates[m].parent # 0 => mandates[m].parent \in DOMAIN mandates
      <3>1. DOMAIN mandates = 1..Len(mandates)
        BY LenProperties DEF TypeOK
      <3> QED BY <3>1 DEF ChainSound, Mandate
    <2> QED BY <2>1, <2>2 DEF ChainSound, LinkAttenuates
  <1>4. ASSUME NEW g \in Grants, Appended(g) PROVE ChainSound'
    BY <1>2, <1>4 DEF Appended
  <1>5. ASSUME NEW p \in DOMAIN mandates, NEW g \in Grants, Delegated(p, g) PROVE ChainSound'
    BY <1>2, <1>5 DEF Delegated
  <1>6. ASSUME NEW m \in DOMAIN mandates, Revoked(m) PROVE ChainSound'
    BY <1>3, <1>6 DEF Revoked, MandateStatus
  <1>7. ASSUME NEW m \in DOMAIN mandates, NEW status \in {"suspended", "active"},
               Amended(m, status)
        PROVE  ChainSound'
    BY <1>3, <1>7 DEF Amended, MandateStatus
  <1> QED BY <1>1, <1>4, <1>5, <1>6, <1>7, MandatesChange

\* A child is never left standing under a parent that is revoked.
LEMMA CascadeInvariant ==
    ASSUME TypeOK, ChainSound, CascadeComplete, [Next]_vars
    PROVE  CascadeComplete'
  <1> USE IndexTypes
  <1>0. /\ DOMAIN mandates = 1..Len(mandates)
        /\ \A m \in DOMAIN mandates :
              mandates[m].parent # 0 => mandates[m].parent \in DOMAIN mandates
    <2>1. DOMAIN mandates = 1..Len(mandates)
      BY LenProperties DEF TypeOK
    <2> QED BY <2>1 DEF ChainSound, Mandate
  <1>1. CASE UNCHANGED mandates
    BY <1>1 DEF CascadeComplete
  <1>2. ASSUME NEW p \in Nat, NEW g \in Grants, p = 0 \/ Delegated(p, g),
               mandates' = Append(mandates, NewMandate(g, p))
        PROVE  CascadeComplete'
    <2>1. NewMandate(g, p) \in Mandate
      BY <1>2, NewMandateType DEF Delegated
    <2>2. /\ DOMAIN mandates' = 1..(Len(mandates) + 1)
          /\ \A m \in DOMAIN mandates : mandates'[m] = mandates[m]
          /\ mandates'[Len(mandates) + 1] = NewMandate(g, p)
      BY <1>2, <2>1, AppendFacts DEF TypeOK
    <2>3. NewMandate(g, p).parent = p
      BY DEF NewMandate
    <2>4. p # 0 => p \in DOMAIN mandates /\ mandates[p].status # "revoked"
      BY <1>2 DEF Delegated, InForce
    <2> QED BY <1>0, <2>2, <2>3, <2>4 DEF CascadeComplete
  <1>3. ASSUME NEW m \in DOMAIN mandates, Revoked(m) PROVE CascadeComplete'
    <2>1. /\ DOMAIN mandates' = DOMAIN mandates
          /\ \A x \in DOMAIN mandates :
                /\ mandates'[x].parent = mandates[x].parent
                /\ mandates'[x].status =
                      IF x \in DescendantsOf(m) THEN "revoked" ELSE mandates[x].status
      BY <1>3, WithStatusFacts DEF Revoked, TypeOK, MandateStatus
    <2> QED BY <1>0, <2>1, DescendantsClosed DEF CascadeComplete
  <1>4. ASSUME NEW m \in DOMAIN mandates, NEW status \in {"suspended", "active"},
               Amended(m, status)
        PROVE  CascadeComplete'
    <2>1. /\ DOMAIN mandates' = DOMAIN mandates
          /\ \A x \in DOMAIN mandates :
                /\ mandates'[x].parent = mandates[x].parent
                /\ mandates'[x].status = IF x \in {m} THEN status ELSE mandates[x].status
      BY <1>4, WithStatusFacts DEF Amended, TypeOK, MandateStatus
    <2>2. mandates[m].status # "revoked" /\ status # "revoked"
      BY <1>4 DEF Amended
    <2>3. ASSUME NEW x \in DOMAIN mandates, mandates[x].parent # 0,
                 mandates'[mandates[x].parent].status = "revoked"
          PROVE  mandates'[x].status = "revoked"
      <3>1. mandates[mandates[x].parent].status = "revoked"
        BY <1>0, <2>1, <2>2, <2>3
      <3>2. mandates[x].status = "revoked" /\ x # m
        BY <2>2, <2>3, <3>1 DEF CascadeComplete
      <3> QED BY <2>1, <3>2
    <2> QED BY <1>0, <2>1, <2>3 DEF CascadeComplete
  <1>5. ASSUME NEW g \in Grants, Appended(g) PROVE CascadeComplete'
    BY <1>2, <1>5 DEF Appended
  <1>6. ASSUME NEW p \in DOMAIN mandates, NEW g \in Grants, Delegated(p, g)
        PROVE  CascadeComplete'
    BY <1>2, <1>6 DEF Delegated
  <1> QED BY <1>1, <1>3, <1>4, <1>5, <1>6, MandatesChange

\* The inductive invariant of the registry: the type, the links, the cascade.
RegistryInv == TypeOK /\ ChainSound /\ CascadeComplete

THEOREM RegistryCorrect == Spec => []RegistryInv
  <1>1. Init => RegistryInv
    BY DEF Init, RegistryInv, TypeOK, MandateStatus, ChainSound, CascadeComplete
  <1>2. RegistryInv /\ [Next]_vars => RegistryInv'
    BY TypeInvariant, ChainInvariant, CascadeInvariant DEF RegistryInv
  <1> QED BY <1>1, <1>2, PTL DEF Spec

\* Revocation of a mandate revokes every mandate delegated from it, and no
\* descendant can be delegated or reactivated under it afterwards.
THEOREM RevocationCascades == Spec => []CascadeComplete
  BY RegistryCorrect, PTL DEF RegistryInv

\* A mandate that is in the registry stays there with its grant, and a revoked one
\* stays revoked.
LEMMA RegistryStays ==
    ASSUME TypeOK, [Next]_vars
    PROVE  /\ DOMAIN mandates \subseteq DOMAIN mandates'
           /\ \A m \in DOMAIN mandates :
                /\ mandates'[m].grant = mandates[m].grant
                /\ mandates[m].status = "revoked" => mandates'[m].status = "revoked"
  <1> USE IndexTypes
  <1> DEFINE Stay ==
        /\ DOMAIN mandates \subseteq DOMAIN mandates'
        /\ \A m \in DOMAIN mandates :
             /\ mandates'[m].grant = mandates[m].grant
             /\ mandates[m].status = "revoked" => mandates'[m].status = "revoked"
  <1>1. CASE UNCHANGED mandates
    BY <1>1
  <1>2. ASSUME NEW p \in Nat, NEW g \in Grants, p = 0 \/ p \in DOMAIN mandates,
               mandates' = Append(mandates, NewMandate(g, p))
        PROVE  Stay
    <2>1. NewMandate(g, p) \in Mandate
      BY <1>2, NewMandateType
    <2> QED BY <1>2, <2>1, AppendFacts DEF TypeOK
  <1>3. ASSUME NEW m \in DOMAIN mandates, Revoked(m) PROVE Stay
    BY <1>3, WithStatusFacts DEF Revoked, TypeOK, MandateStatus
  <1>4. ASSUME NEW m \in DOMAIN mandates, NEW status \in {"suspended", "active"},
               Amended(m, status)
        PROVE  Stay
    <2>1. /\ DOMAIN mandates' = DOMAIN mandates
          /\ \A x \in DOMAIN mandates :
                /\ mandates'[x].grant = mandates[x].grant
                /\ mandates'[x].status = IF x \in {m} THEN status ELSE mandates[x].status
      BY <1>4, WithStatusFacts DEF Amended, TypeOK, MandateStatus
    <2> QED BY <1>4, <2>1 DEF Amended
  <1>5. ASSUME NEW g \in Grants, Appended(g) PROVE Stay
    BY <1>2, <1>5 DEF Appended
  <1>6. ASSUME NEW p \in DOMAIN mandates, NEW g \in Grants, Delegated(p, g) PROVE Stay
    BY <1>2, <1>6 DEF Delegated
  <1> QED BY <1>1, <1>3, <1>4, <1>5, <1>6, MandatesChange

\* No step, and no fault in the middle of an operation, takes a mandate out of
\* its revoked state.
THEOREM RevocationFinal == Spec => RevokedForever
  <1>1. TypeOK /\ [Next]_vars =>
          \A m \in DOMAIN mandates :
             mandates[m].status = "revoked" => mandates'[m].status = "revoked"
    BY RegistryStays
  <1>2. RegistryInv => TypeOK
    BY DEF RegistryInv
  <1> QED BY <1>1, <1>2, RegistryCorrect, PTL DEF Spec, RevokedForever

-----------------------------------------------------------------------------
(* From one link to the whole chain.  The mandates that m stays within form *)
(* a set that holds m and is closed under parent, so it holds the lineage.  *)

\* Lying within a grant is reflexive and transitive, limits that are absent included.
LEMMA WithinOrder ==
    /\ \A g \in Grants : Within(g, g)
    /\ \A g, h, k \in Grants : Within(g, h) /\ Within(h, k) => Within(g, k)
  <1> USE GrantsAssumption
  <1>1. ASSUME NEW g \in Grants PROVE Within(g, g)
    BY DEF Within, Greater
  <1>2. ASSUME NEW g \in Grants, NEW h \in Grants, NEW k \in Grants, Within(g, h), Within(h, k)
        PROVE  Within(g, k)
    <2>1. ~ Greater(g.limit, k.limit)
      BY <1>2 DEF Within, Greater
    <2>2. g.expiresAt <= k.expiresAt
      BY <1>2 DEF Within
    <2> QED BY <1>2, <2>1, <2>2 DEF Within
  <1> QED BY <1>1, <1>2

\* What bounds a mandate along each link bounds it by all its ancestors.
LEMMA ChainBoundsLineage ==
    ASSUME TypeOK, ChainSound
    PROVE  AuthorityNeverGrows
  <1> USE IndexTypes
  <1>1. SUFFICES ASSUME NEW m \in DOMAIN mandates, NEW a \in Lineage(m) \ {m}
                 PROVE  /\ Within(mandates[m].grant, mandates[a].grant)
                        /\ mandates[m].depth <= mandates[a].grant.maxDepth
    BY DEF AuthorityNeverGrows
  <1> DEFINE Above(x) ==
               /\ Within(mandates[m].grant, mandates[x].grant)
               /\ x = m \/ mandates[m].depth <= mandates[x].grant.maxDepth
             S == {x \in 1..m : Above(x)}
  <1>2. DOMAIN mandates = 1..Len(mandates)
    BY LenProperties DEF TypeOK
  <1>3. \A x \in DOMAIN mandates :
           /\ mandates[x].grant \in Grants
           /\ mandates[x].grant.maxDepth \in Nat
           /\ mandates[x].depth \in Nat /\ mandates[x].parent \in Nat
    BY GrantsAssumption DEF Mandate
  <1>4. m \in S
    BY <1>2, <1>3, WithinOrder
  <1>5. ASSUME NEW x \in S, mandates[x].parent # 0
        PROVE  mandates[x].parent \in S
    <2> DEFINE p == mandates[x].parent
    <2>1. x \in DOMAIN mandates /\ Above(x)
      BY <1>2
    <2>2. p \in 1..m /\ p \in DOMAIN mandates /\ p < x
      BY <1>2, <1>3, <1>5, <2>1 DEF ChainSound
    <2>3. LinkAttenuates(x)
      BY <1>5, <2>1 DEF ChainSound
    <2>4. /\ Within(mandates[x].grant, mandates[p].grant)
          /\ mandates[x].grant.maxDepth <= mandates[p].grant.maxDepth
          /\ mandates[x].depth <= mandates[p].grant.maxDepth
      BY <2>3 DEF LinkAttenuates
    <2>5. mandates[m].depth <= mandates[p].grant.maxDepth
      BY <1>3, <2>1, <2>2, <2>4
    <2>6. Within(mandates[m].grant, mandates[p].grant)
      BY <1>3, <2>1, <2>2, <2>4, WithinOrder
    <2> QED BY <2>2, <2>5, <2>6
  <1>6. a \in S
    <2>1. S \in SUBSET (1..m)
      OBVIOUS
    <2> HIDE DEF S
    <2> QED BY <1>1, <1>4, <1>5, <2>1 DEF Lineage
  <1> QED BY <1>1, <1>6

\* However long the chain, no mandate lists an action that one of its ancestors
\* does not, lists ungated what one of them gates, drops a prohibition, reaches
\* further, names a higher limit, outlives or out-nests any of them.
THEOREM AuthorityOnlyShrinks == Spec => []AuthorityNeverGrows
  <1>1. RegistryInv => AuthorityNeverGrows
    BY ChainBoundsLineage DEF RegistryInv
  <1> QED BY <1>1, RegistryCorrect, PTL

-----------------------------------------------------------------------------
(* The decisions: the inductive invariant.                                  *)

\* What an ALLOW stands on, from the moment it is owed: the gate of its mandate,
\* which no later operation changes, or an approval that was granted for it.
Justified(d) ==
    \/ /\ d.approval = 0
       /\ d.request.mandate \in DOMAIN mandates
       /\ d.request.action \notin mandates[d.request.mandate].grant.gated
    \/ /\ d.approval \in DOMAIN approvals
       /\ approvals[d.approval].status = "approved"
       /\ approvals[d.approval].request = d.request

Allows(i, a) == decisions[i].verdict = "ALLOW" /\ decisions[i].approval = a

DecisionsSound ==
    \A i \in DOMAIN decisions :
       decisions[i].verdict = "ALLOW" =>
          /\ Justified(decisions[i])
          /\ decisions[i].approval # 0 =>
                \A j \in DOMAIN decisions : Allows(j, decisions[i].approval) => i = j

\* A decision that is owed is the next write, and its approval has no ALLOW yet.
OwedSound ==
    \A k \in DOMAIN todo :
       todo[k].kind = "decide" =>
          /\ k = 1
          /\ todo[k].decision.verdict = "ALLOW" =>
                LET d == todo[k].decision
                IN /\ Justified(d)
                   /\ mandates[d.request.mandate].status # "revoked"
                   /\ d.approval # 0 => \A j \in DOMAIN decisions : ~ Allows(j, d.approval)

\* What an event reports: the record it is about, now or once the decision that is
\* owed before it is written.
Reported(type, id) ==
    /\ type = "POLICY_DECIDED" => id \in DOMAIN decisions
    /\ type = "HUMAN_RESOLVED" =>
          \E i \in DOMAIN decisions : decisions[i].approval = id
                                     /\ decisions[i].verdict # "REQUIRES_HUMAN_APPROVAL"
    /\ type = "MANDATE_REVOKED" => id \in DOMAIN mandates /\ mandates[id].status = "revoked"

ReportedNext(type, id, d) ==
    /\ type # "MANDATE_REVOKED"
    /\ type = "POLICY_DECIDED" => id = Len(decisions) + 1
    /\ type = "HUMAN_RESOLVED" => d.approval = id /\ d.verdict # "REQUIRES_HUMAN_APPROVAL"

EventsSound ==
    /\ \A e \in evidence : Reported(e[1], e[2])
    /\ \A k \in DOMAIN todo :
          todo[k].kind = "event" =>
             LET e == todo[k].event
             IN \/ Reported(e[1], e[2])
                \/ /\ k > 1 /\ todo[1].kind = "decide"
                   /\ ReportedNext(e[1], e[2], todo[1].decision)

\* An approval is of a mandate that the registry holds.
ApprovalsNamed == \A a \in DOMAIN approvals : approvals[a].request.mandate \in DOMAIN mandates

ApprovalInv == RegistryInv /\ DecisionsSound /\ OwedSound /\ EventsSound /\ ApprovalsNamed

-----------------------------------------------------------------------------
(* What every step leaves in place.                                         *)

LEMMA AppendKeeps ==
    ASSUME NEW S, NEW s \in Seq(S), NEW e
    PROVE  /\ DOMAIN s = 1..Len(s) /\ Len(s) \in Nat
           /\ DOMAIN Append(s, e) = 1..(Len(s) + 1)
           /\ Len(s) + 1 \notin DOMAIN s
           /\ \A i \in DOMAIN s : i \in DOMAIN Append(s, e) /\ Append(s, e)[i] = s[i]
           /\ Append(s, e)[Len(s) + 1] = e
  OBVIOUS

\* The approvals only gain: a request stays, and what a
\* human granted is not taken back; a new one is of a mandate in the registry.
LEMMA ApprovalsStay ==
    ASSUME TypeOK, [Next]_vars
    PROVE  /\ DOMAIN approvals \subseteq DOMAIN approvals'
           /\ \A a \in DOMAIN approvals :
                /\ approvals'[a].request = approvals[a].request
                /\ approvals[a].status = "approved" => approvals'[a].status = "approved"
           /\ \A a \in DOMAIN approvals' \ DOMAIN approvals :
                approvals'[a].request.mandate \in DOMAIN mandates
  <1> DEFINE Stay ==
        /\ DOMAIN approvals \subseteq DOMAIN approvals'
        /\ \A a \in DOMAIN approvals :
             /\ approvals'[a].request = approvals[a].request
             /\ approvals[a].status = "approved" => approvals'[a].status = "approved"
        /\ \A a \in DOMAIN approvals' \ DOMAIN approvals :
             approvals'[a].request.mandate \in DOMAIN mandates
  <1>1. ASSUME UNCHANGED approvals PROVE Stay
    BY <1>1
  <1>2. ASSUME NEW r \in Requests, RequireApproval(r) PROVE Stay
    <2>1. approvals' = Append(approvals, [request |-> r, status |-> "pending"]) /\ approvals \in Seq(Approval)
      BY <1>2 DEF RequireApproval, TypeOK
    <2>2. \A a \in DOMAIN approvals : a \in DOMAIN approvals' /\ approvals'[a] = approvals[a]
      BY <2>1, AppendKeeps
    <2>3. /\ DOMAIN approvals' \ DOMAIN approvals \subseteq {Len(approvals) + 1}
          /\ approvals'[Len(approvals) + 1].request = r
      BY <2>1, AppendKeeps
    <2>4. Evaluation(r) = "REQUIRES_HUMAN_APPROVAL"
      BY <1>2 DEF RequireApproval
    <2>5. r.mandate \in DOMAIN mandates
      BY <2>4 DEF Evaluation, Admissible
    <2> QED BY <2>2, <2>3, <2>5
  <1>3. ASSUME NEW b \in DOMAIN approvals, NEW approve \in BOOLEAN, ResolveApproval(b, approve)
        PROVE  Stay
    BY <1>3, IndexTypes DEF ResolveApproval, Resolvable, Approval
  <1>4. ASSUME Perform PROVE Stay
    <2>1. UNCHANGED approvals \/ \E S : approvals' = Invalidated(S)
      BY <1>4 DEF Perform
    <2>2. ASSUME NEW S, approvals' = Invalidated(S) PROVE Stay
      BY <2>2, IndexTypes DEF Invalidated, Approval
    <2> QED BY <2>1, <2>2
  <1> HIDE DEF Stay
  <1>5. ASSUME Fault \/ Tick \/ UNCHANGED vars PROVE UNCHANGED approvals
    BY <1>5 DEF Fault, Tick, vars
  <1>6. ASSUME NEW g \in Grants, Create(g) PROVE UNCHANGED approvals
    BY <1>6 DEF Create
  <1>7. ASSUME NEW p, NEW g, Delegate(p, g) \/ DenyDelegation(p, g) PROVE UNCHANGED approvals
    BY <1>7 DEF Delegate, DenyDelegation
  <1>8. ASSUME NEW m, Revoke(m) \/ Suspend(m) \/ Reactivate(m) PROVE UNCHANGED approvals
    BY <1>8 DEF Revoke, Suspend, Reactivate
  <1>9. ASSUME NEW a, ProbeDelegation(a) PROVE UNCHANGED approvals
    BY <1>9 DEF ProbeDelegation
  <1>10. ASSUME NEW r \in Requests, Authorize(r) PROVE UNCHANGED approvals
    BY <1>10 DEF Authorize
  <1>11. ASSUME NEW a, NEW status, UpdatePassport(a, status) PROVE UNCHANGED approvals
    BY <1>11 DEF UpdatePassport
  <1>12. \/ UNCHANGED approvals \/ Perform
         \/ \E r \in Requests : RequireApproval(r)
         \/ \E a \in DOMAIN approvals, approve \in BOOLEAN : ResolveApproval(a, approve)
    BY <1>5, <1>6, <1>7, <1>8, <1>9, <1>10, <1>11 DEF Next
  <1>13. Stay
    BY <1>1, <1>2, <1>3, <1>4, <1>12
  <1> QED BY <1>13 DEF Stay

LEMMA ApprovalsNamedStep ==
    ASSUME TypeOK, ApprovalsNamed, [Next]_vars
    PROVE  ApprovalsNamed'
  BY RegistryStays, ApprovalsStay DEF ApprovalsNamed

LEMMA JustifiedStays ==
    ASSUME TypeOK, [Next]_vars, NEW d, Justified(d)
    PROVE  Justified(d)'
  BY RegistryStays, ApprovalsStay DEF Justified

-----------------------------------------------------------------------------
(* What a step may owe.  An operation is called when nothing is owed, and    *)
(* leaves events about records that are written, or one decision that is     *)
(* written before the events about it.                                       *)

Quiet == UNCHANGED <<mandates, approvals, todo, decisions, evidence>>

OwesEvents ==
    \A k \in DOMAIN todo :
       /\ todo[k].kind # "decide"
       /\ todo[k].kind = "event" => Reported(todo[k].event[1], todo[k].event[2])
EventsOnly == UNCHANGED <<decisions, evidence>> /\ OwesEvents'

\* An answer that is owed: its verdict is sound, and the events after it are about it.
Answers(d) ==
    /\ UNCHANGED <<mandates, decisions, evidence>>
    /\ 1 \in DOMAIN todo' /\ todo'[1] = Decide(d)
    /\ \A k \in DOMAIN todo' \ {1} :
          /\ k > 1 /\ todo'[k].kind = "event"
          /\ ReportedNext(todo'[k].event[1], todo'[k].event[2], d)
    /\ d.verdict = "ALLOW" =>
          /\ Justified(d)'
          /\ mandates[d.request.mandate].status # "revoked"
          /\ d.approval # 0 => \A j \in DOMAIN decisions : ~ Allows(j, d.approval)

\* One, two or three writes owed.
LEMMA Owing ==
    ASSUME NEW a, NEW b, NEW c
    PROVE  /\ DOMAIN <<a>> = {1} /\ <<a>>[1] = a
           /\ DOMAIN <<a, b>> = {1, 2} /\ <<a, b>>[1] = a /\ <<a, b>>[2] = b
           /\ DOMAIN <<a, b, c>> = {1, 2, 3}
           /\ <<a, b, c>>[1] = a /\ <<a, b, c>>[2] = b /\ <<a, b, c>>[3] = c
  OBVIOUS

LEMMA RevokeOwes ==
    ASSUME TypeOK, NEW m \in DOMAIN mandates, Revoke(m)
    PROVE  EventsOnly
  <1>1. /\ UNCHANGED <<decisions, evidence>>
        /\ todo' = <<Contain(DescendantsOf(m)), Event("MANDATE_REVOKED", m)>>
        /\ mandates' = WithStatus(DescendantsOf(m), "revoked")
    BY DEF Revoke
  <1>2. m \in DOMAIN mandates' /\ mandates'[m].status = "revoked"
    BY <1>1, WithStatusFacts, DescendantsClosed DEF TypeOK, MandateStatus
  <1>3. Reported("MANDATE_REVOKED", m)'
    BY <1>2 DEF Reported
  <1>4. DOMAIN todo' = {1, 2} /\ todo'[1] = Contain(DescendantsOf(m)) /\ todo'[2] = Event("MANDATE_REVOKED", m)
    BY <1>1
  <1>5. ASSUME NEW k \in DOMAIN todo'
        PROVE  /\ todo'[k].kind # "decide"
               /\ todo'[k].kind = "event" => todo'[k].event[1] = "MANDATE_REVOKED" /\ todo'[k].event[2] = m
    BY <1>4 DEF Contain, Event
  <1> QED BY <1>1, <1>3, <1>5 DEF EventsOnly, OwesEvents

\* Of the other operations on the registry, no event says more than that they happened.
LEMMA RegistryOwes ==
    ASSUME NEW m, NEW g, NEW a,
           \/ Create(g) \/ Delegate(m, g) \/ DenyDelegation(m, g) \/ Suspend(m) \/ Reactivate(m)
           \/ ProbeDelegation(a)
    PROVE  EventsOnly
  <1> DEFINE Types == {"MANDATE_CREATED", "MANDATE_SIGNED", "DELEGATION_CREATED", "DELEGATION_DENIED",
                       "MANDATE_AMENDED"}
  <1>1. ASSUME NEW type \in Types, NEW id PROVE Reported(type, id)'
    BY DEF Reported
  <1>2. /\ UNCHANGED <<decisions, evidence>>
        /\ \/ \E type \in Types : \E id : todo' = <<Event(type, id)>>
           \/ \E type1, type2 \in Types : \E id1, id2 : todo' = <<Event(type1, id1), Event(type2, id2)>>
           \/ \E id, c : todo' = <<Edge(id, c), Event("DELEGATION_CREATED", c)>>
    BY DEF Create, Delegate, DenyDelegation, Suspend, Reactivate, ProbeDelegation
  <1>3. SUFFICES ASSUME NEW k \in DOMAIN todo'
                 PROVE  /\ todo'[k].kind # "decide"
                        /\ todo'[k].kind = "event" => todo'[k].event[1] \in Types
    BY <1>1, <1>2 DEF EventsOnly, OwesEvents
  <1>4. ASSUME NEW type \in Types, NEW id, todo' = <<Event(type, id)>>
        PROVE  todo'[k].kind # "decide" /\ todo'[k].event[1] \in Types
    BY <1>4 DEF Event
  <1>5. ASSUME NEW type1 \in Types, NEW type2 \in Types, NEW id1, NEW id2,
               todo' = <<Event(type1, id1), Event(type2, id2)>>
        PROVE  todo'[k].kind # "decide" /\ todo'[k].event[1] \in Types
    BY <1>5 DEF Event
  <1>6. ASSUME NEW id, NEW c, todo' = <<Edge(id, c), Event("DELEGATION_CREATED", c)>>
        PROVE  /\ todo'[k].kind # "decide"
               /\ todo'[k].kind = "event" => todo'[k].event[1] \in Types
    BY <1>6 DEF Event, Edge
  <1> QED BY <1>2, <1>4, <1>5, <1>6

LEMMA ConcludeOwes ==
    ASSUME NEW r, NEW verdict, NEW a, todo' = Conclude(r, verdict, a)
    PROVE  LET d == [request |-> r, verdict |-> verdict, approval |-> a]
           IN /\ 1 \in DOMAIN todo' /\ todo'[1] = Decide(d)
              /\ \A k \in DOMAIN todo' \ {1} :
                    /\ k > 1 /\ todo'[k].kind = "event"
                    /\ ReportedNext(todo'[k].event[1], todo'[k].event[2], d)
  <1> DEFINE d == [request |-> r, verdict |-> verdict, approval |-> a]
             n == Len(decisions) + 1
  <1>1. todo' = <<Decide(d), Event("ACTION_REQUESTED", n), Event("POLICY_DECIDED", n)>>
    BY DEF Conclude
  <1> HIDE DEF d
  <1>2. /\ DOMAIN todo' = {1, 2, 3} /\ todo'[1] = Decide(d)
        /\ todo'[2] = Event("ACTION_REQUESTED", n) /\ todo'[3] = Event("POLICY_DECIDED", n)
    BY <1>1, Owing
  <1>3. \A k \in DOMAIN todo' \ {1} :
           /\ k > 1 /\ todo'[k].kind = "event"
           /\ todo'[k].event[1] \in {"ACTION_REQUESTED", "POLICY_DECIDED"} /\ todo'[k].event[2] = n
    BY <1>2 DEF Event
  <1>4. \A k \in DOMAIN todo' \ {1} : ReportedNext(todo'[k].event[1], todo'[k].event[2], d)
    BY <1>3 DEF ReportedNext
  <1> QED BY <1>2, <1>3, <1>4 DEF d

LEMMA AuthorizeOwes ==
    ASSUME TypeOK, NEW r \in Requests, Authorize(r)
    PROVE  \E d \in Decision : Answers(d)
  <1> DEFINE verdict == Evaluation(r)
             d == [request |-> r, verdict |-> verdict, approval |-> 0]
  <1>1. /\ UNCHANGED <<mandates, decisions, evidence, approvals>> /\ todo' = Conclude(r, verdict, 0)
    BY DEF Authorize
  <1>2. verdict = "ALLOW" =>
           /\ r.mandate \in DOMAIN mandates /\ mandates[r.mandate].status # "revoked"
           /\ r.action \notin mandates[r.mandate].grant.gated
    BY ValidInForce DEF Evaluation, Admissible, Gated, InForce
  <1>3. d \in Decision
    BY DEF Decision, Evaluation, Verdict
  <1> HIDE DEF verdict
  <1>4. verdict = "ALLOW" => Justified(d)'
    BY <1>1, <1>2 DEF Justified
  <1>5. Answers(d)
    BY <1>1, <1>2, <1>4, ConcludeOwes DEF Answers
  <1> QED BY <1>3, <1>5

LEMMA RequireApprovalOwes ==
    ASSUME TypeOK, NEW r \in Requests, RequireApproval(r)
    PROVE  \E d \in Decision : Answers(d)
  <1>1. PICK a \in Nat : /\ UNCHANGED <<mandates, decisions, evidence>>
                         /\ todo' = Conclude(r, "REQUIRES_HUMAN_APPROVAL", a)
    <2>1. Len(approvals') \in Nat
      BY AppendType, LenProperties DEF TypeOK, Approval, ApprovalStatus, RequireApproval
    <2>2. /\ UNCHANGED <<mandates, decisions, evidence>>
          /\ todo' = Conclude(r, "REQUIRES_HUMAN_APPROVAL", Len(approvals'))
      BY DEF RequireApproval
    <2> QED BY <2>1, <2>2
  <1> DEFINE d == [request |-> r, verdict |-> "REQUIRES_HUMAN_APPROVAL", approval |-> a]
  <1>2. d \in Decision
    BY DEF Decision, Verdict
  <1>3. Answers(d)
    BY <1>1, ConcludeOwes DEF Answers
  <1> QED BY <1>2, <1>3

LEMMA ResolveApprovalOwes ==
    ASSUME TypeOK, DecisionsSound, NEW a \in DOMAIN approvals, NEW approve \in BOOLEAN,
           ResolveApproval(a, approve)
    PROVE  \E d \in Decision : Answers(d)
  <1> DEFINE verdict == IF approve THEN "ALLOW" ELSE "DENY"
             d == [request |-> approvals[a].request, approval |-> a, verdict |-> verdict]
  <1>1. /\ UNCHANGED <<mandates, decisions, evidence>>
        /\ todo' = <<Decide(d), Event("HUMAN_RESOLVED", a)>>
        /\ approvals' = [approvals EXCEPT ![a].status = IF approve THEN "approved" ELSE "rejected"]
        /\ approvals[a].status = "pending" /\ mandates[approvals[a].request.mandate].status = "active"
    BY DEF ResolveApproval, Resolvable, InForce
  <1>2. a \in Nat /\ approvals[a] \in Approval /\ approvals \in Seq(Approval) /\ DOMAIN approvals = 1..Len(approvals)
    BY IndexTypes, LenProperties DEF TypeOK
  <1>3. d \in Decision
    BY <1>2 DEF Decision, Verdict, Approval
  <1>4. verdict = "ALLOW" => Justified(d)'
    BY <1>1, <1>2 DEF Justified, Approval
  <1>5. \A j \in DOMAIN decisions : ~ Allows(j, a)
    BY <1>1, <1>2 DEF DecisionsSound, Allows, Justified
  <1> HIDE DEF verdict
  <1>6. d.request = approvals[a].request /\ d.approval = a /\ d.verdict = verdict
    OBVIOUS
  <1>7. verdict # "REQUIRES_HUMAN_APPROVAL"
    BY DEF verdict
  <1> HIDE DEF d
  <1>8. /\ DOMAIN todo' = {1, 2} /\ todo'[1] = Decide(d) /\ todo'[2] = Event("HUMAN_RESOLVED", a)
    BY <1>1, Owing
  <1>9. \A k \in DOMAIN todo' \ {1} :
           /\ k > 1 /\ todo'[k].kind = "event"
           /\ todo'[k].event[1] = "HUMAN_RESOLVED" /\ todo'[k].event[2] = a
    BY <1>8 DEF Event
  <1>10. \A k \in DOMAIN todo' \ {1} : ReportedNext(todo'[k].event[1], todo'[k].event[2], d)
    BY <1>6, <1>7, <1>9 DEF ReportedNext
  <1>11. Answers(d)
    BY <1>1, <1>4, <1>5, <1>6, <1>8, <1>9, <1>10 DEF Answers
  <1> QED BY <1>3, <1>11

\* Every step is one of four: it leaves the lists alone, it owes events, it owes an
\* answer, or it performs a write.  A fault owes nothing.
LEMMA StepOwes ==
    ASSUME TypeOK, DecisionsSound, [Next]_vars
    PROVE  Quiet \/ EventsOnly \/ (\E d \in Decision : Answers(d)) \/ Perform
  <1>1. ASSUME NEW g \in Grants, Create(g) PROVE EventsOnly
    BY <1>1, RegistryOwes
  <1>2. ASSUME NEW p \in DOMAIN mandates, NEW g \in Grants, Delegate(p, g) \/ DenyDelegation(p, g)
        PROVE  EventsOnly
    BY <1>2, RegistryOwes
  <1>3. ASSUME NEW m \in DOMAIN mandates, Revoke(m) \/ Suspend(m) \/ Reactivate(m) PROVE EventsOnly
    BY <1>3, RegistryOwes, RevokeOwes
  <1>4. ASSUME NEW a \in Agents, ProbeDelegation(a) PROVE EventsOnly
    BY <1>4, RegistryOwes
  <1>5. ASSUME NEW r \in Requests, Authorize(r) \/ RequireApproval(r) PROVE \E d \in Decision : Answers(d)
    BY <1>5, AuthorizeOwes, RequireApprovalOwes
  <1>6. ASSUME NEW a \in DOMAIN approvals, NEW approve \in BOOLEAN, ResolveApproval(a, approve)
        PROVE  \E d \in Decision : Answers(d)
    BY <1>6, ResolveApprovalOwes
  <1>7. ASSUME Fault PROVE EventsOnly
    BY <1>7 DEF Fault, EventsOnly, OwesEvents
  <1>8. ASSUME Tick \/ UNCHANGED vars PROVE Quiet
    BY <1>8 DEF Tick, vars, Quiet
  <1>9. ASSUME NEW a \in Agents, NEW status \in MandateStatus, UpdatePassport(a, status) PROVE Quiet
    BY <1>9 DEF UpdatePassport, Quiet
  <1> QED BY <1>1, <1>2, <1>3, <1>4, <1>5, <1>6, <1>7, <1>8, <1>9 DEF Next

\* The write that is performed is the first of the list, and only a decision is appended.
LEMMA PerformFacts ==
    ASSUME TypeOK, Perform
    PROVE  /\ 1 \in DOMAIN todo
           /\ \A k \in DOMAIN todo' : k + 1 \in DOMAIN todo /\ todo'[k] = todo[k + 1] /\ k + 1 > 1
           /\ \/ UNCHANGED decisions /\ todo[1].kind # "decide"
              \/ /\ todo[1].kind = "decide" /\ decisions' = Append(decisions, todo[1].decision)
                 /\ UNCHANGED evidence
           /\ \/ evidence' \subseteq evidence
              \/ todo[1].kind = "event" /\ evidence' \subseteq evidence \cup {todo[1].event}
  <1>1. todo \in Seq(Write) /\ todo # <<>> /\ todo' = Tail(todo)
    BY DEF TypeOK, Perform, Idle
  <1>2. /\ DOMAIN todo = 1..Len(todo) /\ Len(todo) \in Nat \ {0} /\ Head(todo) = todo[1]
        /\ DOMAIN todo' = 1..(Len(todo) - 1)
        /\ \A k \in DOMAIN todo' : todo'[k] = todo[k + 1]
    BY <1>1
  <1> QED BY <1>2 DEF Perform

LEMMA DecisionsGrow ==
    ASSUME TypeOK, DecisionsSound, [Next]_vars
    PROVE  /\ DOMAIN decisions \subseteq DOMAIN decisions'
           /\ \A i \in DOMAIN decisions : decisions'[i] = decisions[i]
  <1>1. \/ UNCHANGED decisions
        \/ Perform /\ decisions' = Append(decisions, todo[1].decision)
    BY StepOwes, PerformFacts DEF Quiet, EventsOnly, Answers
  <1>2. decisions \in Seq(Decision)
    BY DEF TypeOK
  <1>3. CASE UNCHANGED decisions
    BY <1>3
  <1>4. CASE decisions' = Append(decisions, todo[1].decision)
    BY <1>2, <1>4, AppendKeeps
  <1> QED BY <1>1, <1>3, <1>4

LEMMA ReportedStays ==
    ASSUME TypeOK, DecisionsSound, [Next]_vars, NEW type, NEW id, Reported(type, id)
    PROVE  Reported(type, id)'
  BY RegistryStays, DecisionsGrow DEF Reported


-----------------------------------------------------------------------------
(* The step.                                                                 *)

LEMMA DecisionsSoundStep ==
    ASSUME ApprovalInv, [Next]_vars
    PROVE  DecisionsSound'
  <1>1. TypeOK /\ DecisionsSound /\ OwedSound
    BY DEF ApprovalInv, RegistryInv
  <1>a. ASSUME NEW i, NEW d, decisions'[i] = d, Justified(d)
        PROVE  Justified(decisions[i])'
    BY <1>1, <1>a, RegistryStays, ApprovalsStay DEF Justified
  <1>2. ASSUME NEW i \in DOMAIN decisions, decisions[i].verdict = "ALLOW", decisions'[i] = decisions[i]
        PROVE  Justified(decisions[i])'
    <2>1. Justified(decisions[i])
      BY <1>1, <1>2 DEF DecisionsSound
    <2> QED BY <1>2, <2>1, <1>a
  <1>3. CASE UNCHANGED decisions
    BY <1>1, <1>2, <1>3 DEF DecisionsSound, Allows
  <1>4. CASE Perform /\ todo[1].kind = "decide" /\ decisions' = Append(decisions, todo[1].decision)
    <2>0. SUFFICES ASSUME NEW d, d = todo[1].decision, NEW n, n = Len(decisions) + 1
                   PROVE  DecisionsSound'
      OBVIOUS
    <2>1. /\ DOMAIN decisions' = 1..n /\ DOMAIN decisions = 1..Len(decisions) /\ Len(decisions) \in Nat
          /\ \A i \in DOMAIN decisions : decisions'[i] = decisions[i]
          /\ decisions'[n] = d
          /\ \A i \in DOMAIN decisions' : i = n \/ i \in DOMAIN decisions
      BY <1>1, <1>4, <2>0, AppendKeeps DEF TypeOK
    <2>2. 1 \in DOMAIN todo
      BY <1>1, <1>4, PerformFacts
    <2>3. d.verdict = "ALLOW" =>
             /\ Justified(d)
             /\ d.approval # 0 => \A j \in DOMAIN decisions : ~ Allows(j, d.approval)
      BY <1>1, <1>4, <2>0, <2>2 DEF OwedSound
    <2>4. d.verdict = "ALLOW" => Justified(decisions[n])'
      BY <2>1, <2>3, <1>a
    <2>5. ASSUME NEW i \in DOMAIN decisions', decisions'[i].verdict = "ALLOW" PROVE Justified(decisions[i])'
      <3>1. CASE i = n
        BY <2>1, <2>4, <2>5, <3>1 DEF Justified
      <3>2. CASE i \in DOMAIN decisions
        BY <1>2, <2>1, <2>5, <3>2
      <3> QED BY <2>1, <3>1, <3>2
    <2>6. ASSUME NEW i \in DOMAIN decisions', decisions'[i].verdict = "ALLOW", decisions'[i].approval # 0,
                 NEW j \in DOMAIN decisions', decisions'[j].verdict = "ALLOW",
                 decisions'[j].approval = decisions'[i].approval
          PROVE  i = j
      <3>1. (i = n \/ i \in DOMAIN decisions) /\ (j = n \/ j \in DOMAIN decisions)
        BY <2>1
      <3>2. CASE i \in DOMAIN decisions /\ j \in DOMAIN decisions
        BY <1>1, <2>1, <2>6, <3>2 DEF DecisionsSound, Allows
      <3>3. CASE i = n /\ j \in DOMAIN decisions
        BY <2>1, <2>3, <2>6, <3>3 DEF Allows
      <3>4. CASE j = n /\ i \in DOMAIN decisions
        BY <2>1, <2>3, <2>6, <3>4 DEF Allows
      <3> QED BY <3>1, <3>2, <3>3, <3>4
    <2> QED BY <2>5, <2>6 DEF DecisionsSound, Allows
  <1> QED BY <1>1, <1>3, <1>4, StepOwes, PerformFacts DEF Quiet, EventsOnly, Answers

LEMMA OwedSoundStep ==
    ASSUME ApprovalInv, [Next]_vars
    PROVE  OwedSound'
  <1>1. TypeOK /\ DecisionsSound /\ OwedSound
    BY DEF ApprovalInv, RegistryInv
  <1>2. CASE Quiet
    BY <1>1, <1>2 DEF Quiet, OwedSound, Justified, Allows
  <1>3. CASE EventsOnly
    BY <1>3 DEF EventsOnly, OwesEvents, OwedSound
  <1>4. ASSUME NEW d \in Decision, Answers(d) PROVE OwedSound'
    <2>1. ASSUME NEW k \in DOMAIN todo', todo'[k].kind = "decide" PROVE k = 1 /\ todo'[k].decision = d
      BY <1>4, <2>1 DEF Answers, Decide
    <2> QED BY <1>4, <2>1 DEF Answers, OwedSound, Justified, Allows
  <1>5. CASE Perform
    BY <1>1, <1>5, PerformFacts DEF OwedSound
  <1> QED BY <1>1, <1>2, <1>3, <1>4, <1>5, StepOwes

LEMMA EventsSoundStep ==
    ASSUME ApprovalInv, [Next]_vars
    PROVE  EventsSound'
  <1>1. TypeOK /\ DecisionsSound /\ OwedSound /\ EventsSound
    BY DEF ApprovalInv, RegistryInv
  <1>2. ASSUME NEW e, Reported(e[1], e[2]) PROVE Reported(e[1], e[2])'
    BY <1>1, <1>2, ReportedStays
  <1>3. CASE Quiet
    BY <1>1, <1>2, <1>3 DEF Quiet, EventsSound, ReportedNext
  <1>4. CASE EventsOnly
    BY <1>1, <1>2, <1>4 DEF EventsOnly, OwesEvents, EventsSound
  <1>5. ASSUME NEW d \in Decision, Answers(d) PROVE EventsSound'
    BY <1>1, <1>2, <1>5 DEF Answers, EventsSound, ReportedNext, Decide
  <1>6. CASE Perform
    <2>1. ASSUME NEW e \in evidence' PROVE Reported(e[1], e[2])'
      <3>1. e \in evidence \/ (todo[1].kind = "event" /\ e = todo[1].event)
        BY <1>1, <1>6, PerformFacts
      <3>2. Reported(e[1], e[2])
        BY <1>1, <1>6, <3>1, PerformFacts DEF EventsSound
      <3> QED BY <1>2, <3>2
    <2>2. ASSUME NEW k \in DOMAIN todo', todo'[k].kind = "event",
                 NEW type, NEW id, type = todo'[k].event[1], id = todo'[k].event[2]
          PROVE  Reported(type, id)'
      <3>1. /\ k + 1 \in DOMAIN todo /\ todo'[k] = todo[k + 1]
            /\ \/ Reported(type, id)
               \/ todo[1].kind = "decide" /\ ReportedNext(type, id, todo[1].decision)
        BY <1>1, <1>6, <2>2, PerformFacts DEF EventsSound
      <3>2. CASE Reported(type, id)
        BY <1>1, <3>2, ReportedStays
      <3>3. CASE todo[1].kind = "decide" /\ ReportedNext(type, id, todo[1].decision)
        <4>1. decisions' = Append(decisions, todo[1].decision) /\ decisions \in Seq(Decision)
          BY <1>1, <1>6, <3>3, PerformFacts DEF TypeOK
        <4>2. /\ Len(decisions) + 1 \in DOMAIN decisions'
              /\ decisions'[Len(decisions) + 1] = todo[1].decision
          BY <4>1, AppendKeeps
        <4> QED BY <3>3, <4>2 DEF Reported, ReportedNext
      <3> QED BY <3>1, <3>2, <3>3
    <2> QED BY <2>1, <2>2 DEF EventsSound
  <1> QED BY <1>1, <1>3, <1>4, <1>5, <1>6, StepOwes

-----------------------------------------------------------------------------
(* The theorems.                                                             *)

\* Wherever an operation of MandateService is cut off, what is written and what is
\* owed stay sound.
THEOREM ApprovalsCorrect == Spec => []ApprovalInv
  <1>1. Init => ApprovalInv
    BY DEF Init, ApprovalInv, RegistryInv, TypeOK, MandateStatus, ChainSound, CascadeComplete,
           DecisionsSound, OwedSound, EventsSound, ApprovalsNamed
  <1>2. ApprovalInv /\ [Next]_vars => ApprovalInv'
    <2> SUFFICES ASSUME ApprovalInv, [Next]_vars PROVE ApprovalInv'
      OBVIOUS
    <2>1. RegistryInv'
      BY TypeInvariant, ChainInvariant, CascadeInvariant DEF ApprovalInv, RegistryInv
    <2>2. ApprovalsNamed'
      BY ApprovalsNamedStep DEF ApprovalInv, RegistryInv
    <2> QED BY <2>1, <2>2, DecisionsSoundStep, OwedSoundStep, EventsSoundStep DEF ApprovalInv
  <1> QED BY <1>1, <1>2, PTL DEF Spec

\* A gated action is allowed only through an approval that a human granted for that
\* very request, and no approval, answered once, is ever worth a second ALLOW.
THEOREM GateHolds == Spec => []GatedNeedsHuman
  <1>1. ApprovalInv => GatedNeedsHuman
    <2> SUFFICES ASSUME ApprovalInv, NEW i \in DOMAIN decisions, decisions[i].verdict = "ALLOW",
                        decisions[i].request.action \in mandates[decisions[i].request.mandate].grant.gated
                 PROVE  /\ decisions[i].approval \in DOMAIN approvals
                        /\ approvals[decisions[i].approval].status = "approved"
                        /\ approvals[decisions[i].approval].request = decisions[i].request
                        /\ \A j \in DOMAIN decisions :
                              decisions[j].verdict = "ALLOW" /\ decisions[j].approval = decisions[i].approval
                              => i = j
      BY DEF GatedNeedsHuman
    <2>1. /\ decisions[i].approval \in DOMAIN approvals
          /\ approvals[decisions[i].approval].status = "approved"
          /\ approvals[decisions[i].approval].request = decisions[i].request
      BY DEF ApprovalInv, DecisionsSound, Justified
    <2>2. DOMAIN approvals = 1..Len(approvals)
      BY LenProperties DEF ApprovalInv, RegistryInv, TypeOK
    <2>3. decisions[i].approval # 0
      BY <2>1, <2>2
    <2> QED BY <2>1, <2>3 DEF ApprovalInv, DecisionsSound, Allows
  <1> QED BY <1>1, ApprovalsCorrect, PTL

\* What the ledger reports is in the registries: the decision, the human's answer, and
\* for a revocation the whole subtree, however long and wherever it was cut off.
THEOREM LedgerIsBacked == Spec => []EvidenceBacked
  <1>1. ApprovalInv => EvidenceBacked
    <2> SUFFICES ASSUME ApprovalInv PROVE EvidenceBacked
      OBVIOUS
    <2>1. \A type, id : <<type, id>> \in evidence => Reported(type, id)
      <3>1. ASSUME NEW type, NEW id, <<type, id>> \in evidence PROVE Reported(type, id)
        <4>1. \A e \in evidence : Reported(e[1], e[2])
          BY DEF ApprovalInv, EventsSound
        <4> QED BY <3>1, <4>1
      <3> QED BY <3>1
    <2>2. ASSUME NEW m \in DOMAIN mandates, mandates[m].status = "revoked", NEW d \in DescendantsOf(m)
          PROVE  mandates[d].status = "revoked"
      <3> DEFINE S == {x \in DOMAIN mandates : mandates[x].status = "revoked"}
      <3>1. 0 \notin DOMAIN mandates
        BY LenProperties DEF ApprovalInv, RegistryInv, TypeOK
      <3>2. S \in SUBSET (DOMAIN mandates) /\ m \in S
        BY <2>2
      <3>3. \A x \in DOMAIN mandates : mandates[x].parent \in S => x \in S
        BY <3>1 DEF ApprovalInv, RegistryInv, CascadeComplete
      <3>4. d \in S
        <4> HIDE DEF S
        <4> QED BY <2>2, <3>2, <3>3 DEF DescendantsOf
      <3> QED BY <3>4
    <2> QED BY <2>1, <2>2 DEF EvidenceBacked, Reported
  <1> QED BY <1>1, ApprovalsCorrect, PTL

\* What is not revoked has nothing revoked above it.
LEMMA LineageStands ==
    ASSUME TypeOK, ChainSound, CascadeComplete,
           NEW m \in DOMAIN mandates, mandates[m].status # "revoked"
    PROVE  \A a \in Lineage(m) : mandates[a].status # "revoked"
  <1> USE IndexTypes
  <1> DEFINE S == {x \in 1..m : mandates[x].status # "revoked"}
  <1>1. DOMAIN mandates = 1..Len(mandates)
    BY LenProperties DEF TypeOK
  <1>2. m \in S
    BY <1>1
  <1>3. \A x \in S : mandates[x].parent # 0 => mandates[x].parent \in S
    BY <1>1 DEF ChainSound, CascadeComplete, Mandate
  <1>4. ASSUME NEW a \in Lineage(m) PROVE a \in S
    <2>1. S \in SUBSET (1..m)
      OBVIOUS
    <2> HIDE DEF S
    <2> QED BY <1>2, <1>3, <1>4, <2>1 DEF Lineage
  <1> QED BY <1>4

\* No step writes an ALLOW for a mandate that is revoked or below one that is: the
\* operation that owes it read the mandate in force, which nothing revoked is above,
\* and nothing revokes while it is owed.
THEOREM NoAllowForRevoked == Spec => NoAllowOnceRevoked
  <1>1. ApprovalInv /\ [Next]_vars =>
          (Len(decisions') > Len(decisions) =>
             LET d == decisions'[Len(decisions')]
             IN d.verdict = "ALLOW" =>
                   \A a \in Lineage(d.request.mandate) : mandates[a].status # "revoked")
    <2> SUFFICES ASSUME ApprovalInv, [Next]_vars, Len(decisions') > Len(decisions),
                        NEW d, d = decisions'[Len(decisions')], d.verdict = "ALLOW"
                 PROVE  \A a \in Lineage(d.request.mandate) : mandates[a].status # "revoked"
      OBVIOUS
    <2>1. TypeOK /\ DecisionsSound /\ OwedSound /\ decisions \in Seq(Decision)
      BY DEF ApprovalInv, RegistryInv, TypeOK
    <2>2. decisions' # decisions
      BY <2>1, LenProperties
    <2>3. /\ Perform /\ 1 \in DOMAIN todo /\ todo[1].kind = "decide"
          /\ decisions' = Append(decisions, todo[1].decision)
      BY <2>1, <2>2, StepOwes, PerformFacts DEF Quiet, EventsOnly, Answers
    <2>4. d = todo[1].decision
      <3>1. Append(decisions, todo[1].decision)[Len(decisions) + 1] = todo[1].decision
        BY <2>1, AppendKeeps
      <3>2. Len(decisions') = Len(decisions) + 1
        BY <2>1, <2>3
      <3> QED BY <2>3, <3>1, <3>2
    <2>5. /\ d.request.mandate \in DOMAIN mandates
          /\ mandates[d.request.mandate].status # "revoked"
      BY <2>1, <2>3, <2>4 DEF OwedSound, Justified, ApprovalInv, ApprovalsNamed
    <2> QED BY <2>5, LineageStands DEF ApprovalInv, RegistryInv
  <1> QED BY <1>1, ApprovalsCorrect, PTL DEF Spec, NoAllowOnceRevoked
==============================================================================
