--------------------------- MODULE GovernanceProofs ---------------------------
(***************************************************************************)
(* Proofs about the two parts of the governance server.                    *)
(*                                                                         *)
(* GovernedActions, for any keys, gates and bounds: a key has one action   *)
(* and one execution in the ledger, an action takes effect under the       *)
(* authority it was decided under, and a service that serves again has     *)
(* audited what was executed.                                              *)
(*                                                                         *)
(* RoomRuns, for any runs and numbers of steps, slots and failures: the    *)
(* slots bound the tasks, an outcome stays, no step is launched twice,     *)
(* what is stored as succeeded is evidenced, and only a failure lets a run *)
(* be published again.                                                     *)
(***************************************************************************)
EXTENDS GovernedActions, RoomRuns, TLAPS, SequenceTheorems, FiniteSetTheorems

-----------------------------------------------------------------------------
(* Governed actions: the inductive invariant.                               *)

ActionEvent == {"ACTION_REQUESTED", "ALLOWED", "REQUIRES_APPROVAL", "DENIED", "approved", "rejected",
              "ACTION_EXECUTED"}
Outcome == {"executed", "denied", "rejected"}

OwedStep ==
    [kind : {"evaluate"}, key : Keys, mandate : Nat]
    \cup [kind : {"open"}, approval : Approval]
    \cup [kind : {"decide"}, key : Keys]
    \cup [kind : {"event"}, event : ActionEvent \X Keys]
    \cup [kind : {"record"}, action : Action]
    \cup [kind : {"resolve"}, approval : Nat, status : {"approved", "rejected"}]
    \cup [kind : {"execute"}, action : Nat]
    \cup [kind : {"export"}, action : Nat]
    \cup [kind : {"mark"}, action : Nat, status : Outcome]
    \cup [kind : {"change"}, mandate : Nat, status : MandateStatus]
    \cup [kind : {"invalidate"}, mandate : Nat]
    \cup [kind : {"create"}, build : BOOLEAN]

Types == TypeOK /\ todo \in Seq(OwedStep) /\ events \in Seq(ActionEvent \X Keys)

\* What may still be owed before a step: a record, an execution, a mark or a change
\* is owed once.
Ahead(kind) ==
    CASE kind = "decide" -> {"open"}
      [] kind = "record" -> {"open", "decide", "event"}
      [] kind = "execute" -> {"open", "decide", "event", "record"}
      [] kind = "mark" -> {"decide", "event", "export"}
      [] kind = "event" -> {"open", "decide", "event", "export", "mark"}
      [] kind \in {"invalidate", "create"} -> {"change", "invalidate"}
      [] OTHER -> {}

Order == \A i, j \in DOMAIN todo : j < i => todo[j].kind \in Ahead(todo[i].kind)

\* The request that runs is about a key without an action; the approval its action
\* will wait for is written, or is the next write.
Unknown(k) == \A a \in DOMAIN actions : actions[a].key # k

RecordSound(x) ==
    /\ Unknown(x.key) /\ x.mandate \in DOMAIN mandates
    /\ x.status \in {"pending", "denied"}
    /\ x.approval = 0 /\ x.decision = "ALLOWED" => Gate[x.key] # "gated"
    /\ x.approval # 0 =>
          \/ /\ x.approval \in DOMAIN approvals
             /\ approvals[x.approval].key = x.key /\ approvals[x.approval].mandate = x.mandate
          \/ /\ x.approval = Len(approvals) + 1
             /\ todo[1].kind = "open"
             /\ todo[1].approval.key = x.key /\ todo[1].approval.mandate = x.mandate

RequestsOwed ==
    \A i \in DOMAIN todo :
       /\ todo[i].kind = "evaluate" => Unknown(todo[i].key) /\ todo[i].mandate \in DOMAIN mandates
       /\ todo[i].kind = "record" => RecordSound(todo[i].action)
       /\ todo[i].kind = "execute" =>
             \/ /\ todo[i].action \in DOMAIN actions
                /\ actions[todo[i].action].status # "executed"
             \/ /\ todo[i].action = Len(actions) + 1
                /\ \E j \in DOMAIN todo : todo[j].kind = "record"

\* A mark is owed to an action without a final outcome, and to its approval.
MarkSound(a, outcome) ==
    /\ a \in DOMAIN actions /\ actions[a].status \notin {"executed", "rejected"}
    /\ outcome = "rejected" =>
          actions[a].approval # 0 /\ approvals[actions[a].approval].status = "rejected"
    /\ outcome = "executed" =>
          /\ mandates[actions[a].mandate].status = "active"
          /\ actions[a].approval # 0 => approvals[actions[a].approval].status = "approved"
          /\ Gate[actions[a].key] = "gated" =>
                /\ actions[a].approval # 0
                /\ a \in exports \/ (todo[1].kind = "export" /\ todo[1].action = a)

OutcomesOwed ==
    \A i \in DOMAIN todo :
       /\ todo[i].kind = "resolve" =>
             /\ todo[i].approval \in DOMAIN approvals
             /\ approvals[todo[i].approval].status = "pending"
             /\ \E a \in DOMAIN actions : actions[a].approval = todo[i].approval
       /\ todo[i].kind = "export" => todo[i].action \in DOMAIN actions
       /\ todo[i].kind = "mark" => MarkSound(todo[i].action, todo[i].status)

\* An execution is in the ledger once, and behind the outcome it reports.
Executed(k) == <<"ACTION_EXECUTED", k>>

EventsOwed ==
    \A i \in DOMAIN todo : \A k \in Keys :
       todo[i].kind = "event" /\ todo[i].event = Executed(k) =>
          /\ \A e \in DOMAIN events : events[e] # Executed(k)
          /\ \A j \in DOMAIN todo : todo[j].kind = "event" /\ todo[j].event = Executed(k) => i = j
          /\ \E a \in DOMAIN actions :
                /\ actions[a].key = k
                /\ \/ actions[a].status = "executed"
                   \/ \E j \in 1..(i - 1) : /\ todo[j].kind = "mark" /\ todo[j].action = a
                                            /\ todo[j].status = "executed"

EventsSound ==
    \A k \in Keys : \A e \in DOMAIN events : events[e] = Executed(k) =>
       /\ \A f \in DOMAIN events : events[f] = Executed(k) => e = f
       /\ \E a \in DOMAIN actions : actions[a].key = k /\ actions[a].status = "executed"

\* Only the newest mandate is ever active, and a new one waits for its revocation.
MandatesOwed ==
    \A i \in DOMAIN todo :
       /\ todo[i].kind = "change" =>
             /\ todo[i].mandate \in DOMAIN mandates
             /\ todo[i].status = "active" => todo[i].mandate = Len(mandates)
       /\ todo[i].kind = "create" =>
             /\ todo[1].kind = "change" => todo[1].status = "revoked"
             /\ \A m \in ActiveMandates : todo[1].kind = "change" /\ todo[1].mandate = m

Newest == \A m \in ActiveMandates : m = Len(mandates)

\* A key has one action; a final outcome agrees with the approval, which is final too.
ActionsSound ==
    \A a \in DOMAIN actions :
       /\ \A b \in DOMAIN actions : actions[a].key = actions[b].key => a = b
       /\ actions[a].approval = 0 /\ actions[a].decision = "ALLOWED" => Gate[actions[a].key] # "gated"
       /\ actions[a].status = "executed" /\ actions[a].approval # 0 =>
             approvals[actions[a].approval].status = "approved"
       /\ actions[a].status = "rejected" =>
             actions[a].approval # 0 /\ approvals[actions[a].approval].status = "rejected"

\* While initialize audits, it owes events only, and is done with what is behind it.
AuditSound ==
    mode = "auditing" =>
       /\ \A i \in DOMAIN todo : todo[i].kind = "event"
       /\ \A a \in DOMAIN actions : a < cursor /\ actions[a].status = "executed" =>
             Audited(a) \/ \E i \in DOMAIN todo : todo[i].event = Executed(actions[a].key)

ServiceInv ==
    /\ Types /\ Order /\ RequestsOwed /\ OutcomesOwed /\ EventsOwed /\ EventsSound
    /\ MandatesOwed /\ Newest /\ ActionsSound /\ AuditSound

-----------------------------------------------------------------------------
(* Sequences and steps.                                                     *)

LEMMA StepFacts ==
    ASSUME NEW w \in OwedStep
    PROVE  /\ w.kind \in {"evaluate", "open", "decide", "event", "record", "resolve", "execute",
                          "export", "mark", "change", "invalidate", "create"}
           /\ w.kind = "evaluate" => w.key \in Keys /\ w.mandate \in Nat
           /\ w.kind = "open" => w.approval \in Approval
           /\ w.kind = "decide" => w.key \in Keys
           /\ w.kind = "event" => w.event \in ActionEvent \X Keys
           /\ w.kind = "record" => w.action \in Action
           /\ w.kind = "resolve" => w.approval \in Nat /\ w.status \in {"approved", "rejected"}
           /\ w.kind \in {"execute", "export"} => w.action \in Nat
           /\ w.kind = "mark" => w.action \in Nat /\ w.status \in Outcome
           /\ w.kind = "change" => w.mandate \in Nat /\ w.status \in MandateStatus
           /\ w.kind = "create" => w.build \in BOOLEAN
  BY DEF OwedStep

LEMMA NewSteps ==
    /\ \A k \in Keys : Decide(k) \in OwedStep
    /\ \A k \in Keys, m \in Nat : Evaluate(k, m) \in OwedStep /\ OpenApproval(k, m) \in OwedStep
    /\ \A k \in Keys, type \in ActionEvent : Event(type, k) \in OwedStep
    /\ \A x \in Action : Record(x) \in OwedStep
    /\ \A a \in Nat : Execute(a) \in OwedStep /\ Export(a) \in OwedStep
    /\ \A a \in Nat, outcome \in Outcome : Mark(a, outcome) \in OwedStep
    /\ \A p \in Nat, answer \in {"approved", "rejected"} : Resolve(p, answer) \in OwedStep
    /\ \A m \in Nat, standing \in MandateStatus : Change(m, standing) \in OwedStep
    /\ \A m \in Nat : Invalidate(m) \in OwedStep
    /\ \A build \in BOOLEAN : Create(build) \in OwedStep
  <1>1. \A k \in Keys : Decide(k) \in OwedStep
    BY DEF Decide, OwedStep
  <1>2. \A k \in Keys, m \in Nat : Evaluate(k, m) \in OwedStep /\ OpenApproval(k, m) \in OwedStep
    BY DEF Evaluate, OpenApproval, OwedStep, Approval, ApprovalStatus
  <1>3. \A k \in Keys, type \in ActionEvent : Event(type, k) \in OwedStep
    BY DEF Event, OwedStep
  <1>4. \A x \in Action : Record(x) \in OwedStep
    BY DEF Record, OwedStep
  <1>5. \A a \in Nat : Execute(a) \in OwedStep /\ Export(a) \in OwedStep
    BY DEF Execute, Export, OwedStep
  <1>6. \A a \in Nat, outcome \in Outcome : Mark(a, outcome) \in OwedStep
    BY DEF Mark, OwedStep
  <1>7. \A p \in Nat, answer \in {"approved", "rejected"} : Resolve(p, answer) \in OwedStep
    BY DEF Resolve, OwedStep
  <1>8. \A m \in Nat, standing \in MandateStatus : Change(m, standing) \in OwedStep
    BY DEF Change, OwedStep
  <1>9. (\A m \in Nat : Invalidate(m) \in OwedStep) /\ \A build \in BOOLEAN : Create(build) \in OwedStep
    BY DEF Invalidate, Create, OwedStep
  <1> QED BY <1>1, <1>2, <1>3, <1>4, <1>5, <1>6, <1>7, <1>8, <1>9

LEMMA RegistryFacts ==
    ASSUME TypeOK
    PROVE  /\ Len(mandates) \in Nat /\ DOMAIN mandates = 1..Len(mandates)
           /\ Len(approvals) \in Nat /\ DOMAIN approvals = 1..Len(approvals)
           /\ Len(actions) \in Nat /\ DOMAIN actions = 1..Len(actions)
           /\ \A m \in DOMAIN mandates : mandates[m] \in Mandate
           /\ \A q \in DOMAIN approvals : approvals[q] \in Approval
           /\ \A a \in DOMAIN actions : actions[a] \in Action
  BY DEF TypeOK

LEMMA OwedFacts ==
    ASSUME Types
    PROVE  /\ Len(todo) \in Nat /\ DOMAIN todo = 1..Len(todo)
           /\ \A i \in DOMAIN todo : todo[i] \in OwedStep
  BY DEF Types

LEMMA TailFacts ==
    ASSUME Types, todo # <<>>
    PROVE  /\ 1 \in DOMAIN todo /\ Step = todo[1] /\ Step \in OwedStep
           /\ Tail(todo) \in Seq(OwedStep) /\ DOMAIN Tail(todo) = 1..(Len(todo) - 1)
           /\ \A i \in DOMAIN Tail(todo) : i + 1 \in DOMAIN todo /\ Tail(todo)[i] = todo[i + 1]
  <1>1. todo \in Seq(OwedStep) /\ Len(todo) \in Nat /\ DOMAIN todo = 1..Len(todo)
    BY OwedFacts DEF Types
  <1>2. Len(todo) # 0
    BY <1>1
  <1>3. 1 \in DOMAIN todo /\ Step = todo[1] /\ Step \in OwedStep
    BY <1>1, <1>2 DEF Step
  <1>4. /\ Tail(todo) \in Seq(OwedStep) /\ Len(Tail(todo)) = Len(todo) - 1
        /\ \A i \in 1..Len(Tail(todo)) : Tail(todo)[i] = todo[i + 1]
    BY <1>1, <1>2
  <1>5. DOMAIN Tail(todo) = 1..(Len(todo) - 1)
    BY <1>4
  <1> QED BY <1>1, <1>2, <1>3, <1>4, <1>5

\* What a list may still hold behind its first step.
LEMMA Behind ==
    ASSUME Types, Order, NEW i \in DOMAIN todo, i > 1
    PROVE  /\ todo[1].kind = "open" => todo[i].kind \in {"decide", "event", "record", "execute"}
           /\ todo[1].kind \in {"decide", "event"} =>
                 todo[i].kind \in {"record", "event", "execute", "mark"}
           /\ todo[1].kind = "record" => todo[i].kind = "execute"
           /\ todo[1].kind = "export" => todo[i].kind \in {"mark", "event"}
           /\ todo[1].kind = "mark" => todo[i].kind = "event"
           /\ todo[1].kind \in {"change", "invalidate"} => todo[i].kind \in {"invalidate", "create"}
           /\ todo[1].kind \notin {"evaluate", "resolve", "execute", "create"}
  <1>1. 1 \in DOMAIN todo /\ todo[i] \in OwedStep
    BY OwedFacts
  <1>2. todo[1].kind \in Ahead(todo[i].kind)
    BY <1>1 DEF Order
  <1> HIDE DEF Order
  <1> QED BY <1>1, <1>2, StepFacts DEF Ahead

LEMMA TailOrder ==
    ASSUME Types, Order, todo # <<>>, todo' = Tail(todo)
    PROVE  Order'
  <1>1. \A i \in DOMAIN todo' : i \in Nat /\ i + 1 \in DOMAIN todo /\ todo'[i] = todo[i + 1]
    BY TailFacts, OwedFacts
  <1>2. ASSUME NEW i \in DOMAIN todo', NEW j \in DOMAIN todo', j < i
        PROVE  todo'[j].kind \in Ahead(todo'[i].kind)
    BY <1>1, <1>2 DEF Order
  <1> QED BY <1>2 DEF Order

LEMMA FirstIsNewest ==
    ASSUME TypeOK, Newest, ActiveMandates # {}
    PROVE  FirstActive \in ActiveMandates /\ FirstActive = Len(mandates) /\ FirstActive \in DOMAIN mandates
  <1>1. PICK m \in ActiveMandates : TRUE
    OBVIOUS
  <1>2. m = Len(mandates) /\ m \in Nat /\ \A n \in ActiveMandates : m <= n
    BY <1>1, RegistryFacts DEF Newest, ActiveMandates
  <1>3. \E f \in ActiveMandates : \A n \in ActiveMandates : f <= n
    BY <1>1, <1>2
  <1>4. FirstActive \in ActiveMandates
    BY <1>3 DEF FirstActive
  <1> QED BY <1>4 DEF Newest, ActiveMandates

\* A step that leaves the records alone has only the list to answer for.
LEMMA Begins ==
    ASSUME ServiceInv, UNCHANGED data,
           now' \in 0..MaxTime, mode' \in Mode, cursor' \in 1..(Len(actions) + 1),
           mode' = "down" => todo' = <<>>,
           todo' \in Seq(OwedStep), Order', RequestsOwed', OutcomesOwed', EventsOwed', MandatesOwed',
           AuditSound'
    PROVE  ServiceInv'
  <1> USE DEF ServiceInv
  <1>1. Types'
    BY DEF Types, TypeOK, data, ActiveMandates
  <1>2. EventsSound' /\ Newest' /\ ActionsSound'
    BY DEF EventsSound, Newest, ActionsSound, data, ActiveMandates
  <1> QED BY <1>1, <1>2

\* Nothing is owed.
LEMMA Rests ==
    ASSUME todo' = <<>>
    PROVE  /\ todo' \in Seq(OwedStep) /\ DOMAIN todo' = {}
           /\ Order' /\ RequestsOwed' /\ OutcomesOwed' /\ EventsOwed' /\ MandatesOwed'
  <1>1. todo' \in Seq(OwedStep) /\ DOMAIN todo' = {}
    OBVIOUS
  <1> QED BY <1>1 DEF Order, RequestsOwed, OutcomesOwed, EventsOwed, MandatesOwed

\* A list of one step.
LEMMA Single ==
    ASSUME NEW w \in OwedStep, todo' = <<w>>
    PROVE  todo' \in Seq(OwedStep) /\ DOMAIN todo' = {1} /\ todo'[1] = w /\ Order'
  <1>1. todo' \in Seq(OwedStep) /\ DOMAIN todo' = {1} /\ todo'[1] = w
    OBVIOUS
  <1> QED BY <1>1 DEF Order

-----------------------------------------------------------------------------
(* The writes, each the first step that is owed.                            *)

\* What is behind the first step moves up.
LEMMA Shifts ==
    ASSUME Types, Order, todo # <<>>, todo' = Tail(todo)
    PROVE  /\ 1 \in DOMAIN todo /\ Step = todo[1] /\ todo[1] \in OwedStep
           /\ todo' \in Seq(OwedStep) /\ Order'
           /\ \A i \in DOMAIN todo' :
                 i \in Nat /\ i >= 1 /\ i + 1 \in DOMAIN todo /\ todo'[i] = todo[i + 1]
           /\ \A i \in DOMAIN todo :
                 i \in Nat /\ (i > 1 => i - 1 \in DOMAIN todo' /\ todo'[i - 1] = todo[i])
           /\ mode # "down"
  <1>1. /\ 1 \in DOMAIN todo /\ Step = todo[1] /\ todo[1] \in OwedStep
        /\ todo' \in Seq(OwedStep) /\ Order'
    BY TailFacts, TailOrder
  <1>2. \A i \in DOMAIN todo' : i \in Nat /\ i >= 1 /\ i + 1 \in DOMAIN todo /\ todo'[i] = todo[i + 1]
    BY TailFacts, OwedFacts
  <1>3. ASSUME NEW i \in DOMAIN todo
        PROVE  i \in Nat /\ (i > 1 => i - 1 \in DOMAIN todo' /\ todo'[i - 1] = todo[i])
    <2>1. i \in 1..Len(todo) /\ Len(todo) \in Nat /\ DOMAIN todo' = 1..(Len(todo) - 1)
      BY TailFacts, OwedFacts
    <2>2. i > 1 => i - 1 \in DOMAIN todo' /\ (i - 1) + 1 = i
      BY <2>1
    <2> QED BY <2>1, <2>2, <1>2
  <1>4. mode # "down"
    BY DEF Types, TypeOK
  <1> QED BY <1>1, <1>2, <1>3, <1>4

\* The executions that are owed to the ledger stay owed once.
LEMMA EventsShift ==
    ASSUME ServiceInv, todo # <<>>, todo' = Tail(todo), UNCHANGED events,
           \A a \in DOMAIN actions :
              /\ a \in DOMAIN actions' /\ actions'[a].key = actions[a].key
              /\ actions[a].status = "executed" => actions'[a].status = "executed"
              /\ todo[1].kind = "mark" /\ todo[1].action = a /\ todo[1].status = "executed" =>
                    actions'[a].status = "executed"
    PROVE  EventsOwed' /\ EventsSound'
  <1>1. /\ \A i \in DOMAIN todo' :
                 i \in Nat /\ i >= 1 /\ i + 1 \in DOMAIN todo /\ todo'[i] = todo[i + 1]
        /\ 1 \in DOMAIN todo
    BY Shifts DEF ServiceInv
  <1>2. ASSUME NEW i \in DOMAIN todo', NEW k \in Keys,
               todo'[i].kind = "event", todo'[i].event = Executed(k)
        PROVE  /\ \A e \in DOMAIN events' : events'[e] # Executed(k)
               /\ \A j \in DOMAIN todo' : todo'[j].kind = "event" /\ todo'[j].event = Executed(k) => i = j
               /\ \E a \in DOMAIN actions' :
                     /\ actions'[a].key = k
                     /\ \/ actions'[a].status = "executed"
                        \/ \E j \in 1..(i - 1) : /\ todo'[j].kind = "mark" /\ todo'[j].action = a
                                                 /\ todo'[j].status = "executed"
    <2>1. i \in Nat /\ i >= 1 /\ i + 1 \in DOMAIN todo /\ todo[i + 1].kind = "event"
          /\ todo[i + 1].event = Executed(k)
      BY <1>1, <1>2
    <2>2. /\ \A e \in DOMAIN events : events[e] # Executed(k)
          /\ \A j \in DOMAIN todo : todo[j].kind = "event" /\ todo[j].event = Executed(k) => i + 1 = j
      BY <2>1 DEF ServiceInv, EventsOwed
    <2>3. PICK a \in DOMAIN actions :
             /\ actions[a].key = k
             /\ \/ actions[a].status = "executed"
                \/ \E j \in 1..i : /\ todo[j].kind = "mark" /\ todo[j].action = a
                                   /\ todo[j].status = "executed"
      <3>1. \E a \in DOMAIN actions :
             /\ actions[a].key = k
             /\ \/ actions[a].status = "executed"
                \/ \E j \in 1..(i + 1 - 1) : /\ todo[j].kind = "mark" /\ todo[j].action = a
                                             /\ todo[j].status = "executed"
        BY <2>1 DEF ServiceInv, EventsOwed
      <3>2. i + 1 - 1 = i
        BY <2>1
      <3> QED BY <3>1, <3>2
    <2>4. a \in DOMAIN actions' /\ actions'[a].key = k
      BY <2>3
    <2>5. ASSUME actions'[a].status # "executed"
          PROVE  \E j \in 1..(i - 1) : /\ todo'[j].kind = "mark" /\ todo'[j].action = a
                                       /\ todo'[j].status = "executed"
      <3>1. PICK j \in 1..i : /\ todo[j].kind = "mark" /\ todo[j].action = a
                              /\ todo[j].status = "executed"
        BY <2>3, <2>5
      <3>2. j # 1
        BY <2>3, <2>5, <3>1
      <3>3. j - 1 \in 1..(i - 1) /\ i - 1 \in Nat
        BY <2>1, <3>2
      <3>4. i \in 1..Len(todo') /\ DOMAIN todo' = 1..Len(todo') /\ Len(todo') \in Nat
        <4>1. todo' \in Seq(OwedStep)
          BY Shifts DEF ServiceInv
        <4> QED BY <4>1
      <3>5. j - 1 \in DOMAIN todo'
        BY <3>3, <3>4
      <3>6. todo'[j - 1] = todo[j]
        BY <1>1, <3>5, <3>1
      <3> QED BY <3>1, <3>3, <3>6
    <2>6. \A j \in DOMAIN todo' : todo'[j].kind = "event" /\ todo'[j].event = Executed(k) => i = j
      BY <1>1, <2>1, <2>2
    <2> QED BY <2>2, <2>4, <2>5, <2>6
  <1>3. EventsOwed'
    BY <1>2 DEF EventsOwed, Executed
  <1>4. EventsSound'
    <2>1. ASSUME NEW k \in Keys, NEW e \in DOMAIN events, events[e] = Executed(k)
          PROVE  /\ \A f \in DOMAIN events : events[f] = Executed(k) => e = f
                 /\ \E a \in DOMAIN actions' : actions'[a].key = k /\ actions'[a].status = "executed"
      BY <2>1 DEF ServiceInv, EventsSound
    <2> QED BY <2>1 DEF EventsSound, Executed
  <1> QED BY <1>3, <1>4

\* The record of an action stays owed, unless it was the first step.
LEMMA RecordStays ==
    ASSUME Types, Order, todo # <<>>, todo' = Tail(todo), todo[1].kind # "record",
           \E j \in DOMAIN todo : todo[j].kind = "record"
    PROVE  \E j \in DOMAIN todo' : todo'[j].kind = "record"
  <1>1. PICK j \in DOMAIN todo : todo[j].kind = "record"
    OBVIOUS
  <1>2. j \in 1..Len(todo) /\ j # 1
    BY <1>1, OwedFacts
  <1>3. j > 1
    BY <1>2
  <1> QED BY <1>1, <1>3, Shifts

\* A decision or an event changes nothing that is owed.
LEMMA QuietTail ==
    ASSUME ServiceInv, todo # <<>>, todo' = Tail(todo), todo[1].kind \in {"decide", "event"},
           UNCHANGED <<mandates, approvals, actions, exports>>
    PROVE  RequestsOwed' /\ OutcomesOwed' /\ MandatesOwed' /\ Newest' /\ ActionsSound'
  <1>1. /\ \A i \in DOMAIN todo' :
                 i \in Nat /\ i >= 1 /\ i + 1 \in DOMAIN todo /\ todo'[i] = todo[i + 1]
        /\ \A i \in DOMAIN todo :
              i \in Nat /\ (i > 1 => i - 1 \in DOMAIN todo' /\ todo'[i - 1] = todo[i])
    BY Shifts DEF ServiceInv
  <1>2. \A i \in DOMAIN todo' : todo'[i].kind \in {"record", "event", "execute", "mark"}
    BY <1>1, Behind DEF ServiceInv
  <1>3. RequestsOwed'
    <2>1. ASSUME NEW i \in DOMAIN todo', todo'[i].kind = "record", NEW x, x = todo'[i].action
          PROVE  RecordSound(x)'
      BY <1>1, <2>1 DEF ServiceInv, RequestsOwed, RecordSound, Unknown
    <2>2. ASSUME NEW i \in DOMAIN todo', todo'[i].kind = "execute"
          PROVE  \/ /\ todo'[i].action \in DOMAIN actions'
                    /\ actions'[todo'[i].action].status # "executed"
                 \/ /\ todo'[i].action = Len(actions') + 1
                    /\ \E j \in DOMAIN todo' : todo'[j].kind = "record"
      <3>1. \/ /\ todo[i + 1].action \in DOMAIN actions
               /\ actions[todo[i + 1].action].status # "executed"
            \/ /\ todo[i + 1].action = Len(actions) + 1
               /\ \E j \in DOMAIN todo : todo[j].kind = "record"
        BY <1>1, <2>2 DEF ServiceInv, RequestsOwed
      <3>2. (\E j \in DOMAIN todo : todo[j].kind = "record") => \E j \in DOMAIN todo' : todo'[j].kind = "record"
        BY <1>1, RecordStays DEF ServiceInv
      <3> QED BY <1>1, <3>1, <3>2, <2>2
    <2>3. ASSUME NEW i \in DOMAIN todo', todo'[i].kind = "record"
          PROVE  RecordSound(todo[i].action)'
      BY <2>1, <2>3 DEF RecordSound, Unknown
    <2> QED BY <1>2, <2>2, <2>3 DEF RequestsOwed
  <1>4. OutcomesOwed'
    <2>1. ASSUME NEW i \in DOMAIN todo', todo'[i].kind = "mark",
                 NEW a, a = todo'[i].action, NEW outcome, outcome = todo'[i].status
          PROVE  MarkSound(a, outcome)'
      BY <1>1, <2>1 DEF ServiceInv, OutcomesOwed, MarkSound
    <2> QED BY <1>2, <2>1 DEF OutcomesOwed, MarkSound
  <1>5. MandatesOwed'
    BY <1>2 DEF MandatesOwed
  <1>6. Newest' /\ ActionsSound'
    BY DEF ServiceInv, Newest, ActionsSound, ActiveMandates
  <1> QED BY <1>3, <1>4, <1>5, <1>6

unwritten == <<now, mode, cursor, changes, faults>>

LEMMA OpenInv ==
    ASSUME ServiceInv, DoOpen, todo' = Tail(todo), UNCHANGED unwritten
    PROVE  ServiceInv'
  <1>1. /\ todo # <<>> /\ Step.kind = "open" /\ approvals' = Append(approvals, Step.approval)
        /\ UNCHANGED <<mandates, decided, actions, exports, events>>
    BY DEF DoOpen, Owes
  <1>2. /\ 1 \in DOMAIN todo /\ Step = todo[1] /\ todo[1] \in OwedStep
        /\ todo' \in Seq(OwedStep) /\ Order'
        /\ \A i \in DOMAIN todo' :
              i \in Nat /\ i >= 1 /\ i + 1 \in DOMAIN todo /\ todo'[i] = todo[i + 1]
        /\ mode # "down"
    BY <1>1, Shifts DEF ServiceInv
  <1>3. \A i \in DOMAIN todo' : todo'[i].kind \in {"decide", "event", "record", "execute"}
    BY <1>1, <1>2, Behind DEF ServiceInv
  <1>4. /\ Step.approval \in Approval /\ Len(approvals) \in Nat /\ DOMAIN approvals = 1..Len(approvals)
        /\ approvals' \in Seq(Approval) /\ DOMAIN approvals' = 1..(Len(approvals) + 1)
        /\ \A q \in DOMAIN approvals : approvals'[q] = approvals[q]
        /\ approvals'[Len(approvals) + 1] = Step.approval
    <2>1. Step.approval \in Approval
      BY <1>1, <1>2, StepFacts
    <2>2. approvals \in Seq(Approval)
      BY DEF ServiceInv, Types, TypeOK
    <2> QED BY <1>1, <2>1, <2>2
  <1>5. Types'
    <2>1. /\ now' \in 0..MaxTime /\ mandates' \in Seq(Mandate) /\ actions' \in Seq(Action)
          /\ decided' \subseteq Keys /\ exports' \subseteq DOMAIN actions' /\ mode' \in Mode
          /\ mode' # "down" /\ cursor' \in 1..(Len(actions') + 1)
          /\ events' \in Seq(ActionEvent \X Keys)
      BY <1>1, <1>2 DEF ServiceInv, Types, TypeOK, unwritten
    <2>2. Cardinality(ActiveMandates') <= 1
      BY <1>1 DEF ServiceInv, Types, TypeOK, ActiveMandates
    <2>3. \A a \in DOMAIN actions' :
             /\ actions'[a].mandate \in DOMAIN mandates'
             /\ actions'[a].approval # 0 =>
                  /\ actions'[a].approval \in DOMAIN approvals'
                  /\ approvals'[actions'[a].approval].key = actions'[a].key
                  /\ approvals'[actions'[a].approval].mandate = actions'[a].mandate
      <3>1. \A q \in DOMAIN approvals : q \in DOMAIN approvals' /\ approvals'[q] = approvals[q]
        BY <1>4
      <3> QED BY <1>1, <3>1 DEF ServiceInv, Types, TypeOK
    <2> QED BY <1>2, <1>4, <2>1, <2>2, <2>3 DEF Types, TypeOK
  <1>6. RequestsOwed'
    <2>1. ASSUME NEW i \in DOMAIN todo', todo'[i].kind = "record", NEW x, x = todo'[i].action
          PROVE  RecordSound(x)'
      <3>1. RecordSound(x)
        BY <1>2, <2>1 DEF ServiceInv, RequestsOwed
      <3> QED BY <3>1, <1>1, <1>2, <1>4 DEF RecordSound, Unknown
    <2>2. ASSUME NEW i \in DOMAIN todo', todo'[i].kind = "execute"
          PROVE  \/ /\ todo'[i].action \in DOMAIN actions'
                    /\ actions'[todo'[i].action].status # "executed"
                 \/ /\ todo'[i].action = Len(actions') + 1
                    /\ \E j \in DOMAIN todo' : todo'[j].kind = "record"
      <3>1. \/ /\ todo[i + 1].action \in DOMAIN actions
               /\ actions[todo[i + 1].action].status # "executed"
            \/ /\ todo[i + 1].action = Len(actions) + 1
               /\ \E j \in DOMAIN todo : todo[j].kind = "record"
        BY <1>2, <2>2 DEF ServiceInv, RequestsOwed
      <3>2. (\E j \in DOMAIN todo : todo[j].kind = "record") => \E j \in DOMAIN todo' : todo'[j].kind = "record"
        BY <1>1, <1>2, RecordStays DEF ServiceInv
      <3> QED BY <1>1, <3>1, <3>2, <1>2, <2>2
    <2> QED BY <1>3, <2>1, <2>2 DEF RequestsOwed, RecordSound, Unknown
  <1>7. OutcomesOwed' /\ MandatesOwed'
    BY <1>3 DEF OutcomesOwed, MandatesOwed
  <1>8. EventsOwed' /\ EventsSound'
    BY <1>1, <1>2, EventsShift
  <1>9. Newest'
    BY <1>1 DEF ServiceInv, Newest, ActiveMandates
  <1>10. ActionsSound'
    BY <1>1, <1>4 DEF ServiceInv, ActionsSound, Types, TypeOK
  <1>11. AuditSound'
    BY <1>1, <1>2 DEF ServiceInv, AuditSound, unwritten
  <1> QED BY <1>2, <1>5, <1>6, <1>7, <1>8, <1>9, <1>10, <1>11 DEF ServiceInv

LEMMA DecideInv ==
    ASSUME ServiceInv, DoDecide, todo' = Tail(todo), UNCHANGED unwritten
    PROVE  ServiceInv'
  <1>1. /\ todo # <<>> /\ Step.kind = "decide" /\ decided' = decided \cup {Step.key}
        /\ UNCHANGED <<mandates, approvals, actions, exports, events>>
    BY DEF DoDecide, Owes
  <1>2. /\ 1 \in DOMAIN todo /\ Step = todo[1] /\ todo[1] \in OwedStep
        /\ todo' \in Seq(OwedStep) /\ Order'
        /\ \A i \in DOMAIN todo' :
              i \in Nat /\ i >= 1 /\ i + 1 \in DOMAIN todo /\ todo'[i] = todo[i + 1]
        /\ mode # "down"
    BY <1>1, Shifts DEF ServiceInv
  <1>3. Types'
    <2>1. Step.key \in Keys
      BY <1>1, <1>2, StepFacts
    <2> QED BY <1>1, <1>2, <2>1 DEF ServiceInv, Types, TypeOK, unwritten, ActiveMandates
  <1>4. RequestsOwed' /\ OutcomesOwed' /\ MandatesOwed' /\ Newest' /\ ActionsSound'
    BY <1>1, <1>2, QuietTail
  <1>5. EventsOwed' /\ EventsSound'
    BY <1>1, <1>2, EventsShift
  <1>6. AuditSound'
    BY <1>1, <1>2 DEF ServiceInv, AuditSound, unwritten
  <1> QED BY <1>2, <1>3, <1>4, <1>5, <1>6 DEF ServiceInv

LEMMA EventInv ==
    ASSUME ServiceInv, DoEvent, todo' = Tail(todo), UNCHANGED unwritten
    PROVE  ServiceInv'
  <1>1. /\ todo # <<>> /\ Step.kind = "event" /\ events' = Append(events, Step.event)
        /\ UNCHANGED <<mandates, approvals, decided, actions, exports>>
    BY DEF DoEvent, Owes
  <1>2. /\ 1 \in DOMAIN todo /\ Step = todo[1] /\ todo[1] \in OwedStep
        /\ todo' \in Seq(OwedStep) /\ Order'
        /\ \A i \in DOMAIN todo' :
              i \in Nat /\ i >= 1 /\ i + 1 \in DOMAIN todo /\ todo'[i] = todo[i + 1]
        /\ mode # "down"
    BY <1>1, Shifts DEF ServiceInv
  <1>3. /\ Step.event \in ActionEvent \X Keys /\ Len(events) \in Nat /\ DOMAIN events = 1..Len(events)
        /\ events' \in Seq(ActionEvent \X Keys) /\ DOMAIN events' = 1..(Len(events) + 1)
        /\ \A e \in DOMAIN events : events'[e] = events[e]
        /\ events'[Len(events) + 1] = Step.event
    <2>1. Step.event \in ActionEvent \X Keys
      BY <1>1, <1>2, StepFacts
    <2>2. events \in Seq(ActionEvent \X Keys)
      BY DEF ServiceInv, Types
    <2> QED BY <1>1, <2>1, <2>2
  <1>4. Types'
    BY <1>1, <1>2, <1>3 DEF ServiceInv, Types, TypeOK, unwritten, ActiveMandates
  <1>5. RequestsOwed' /\ OutcomesOwed' /\ MandatesOwed' /\ Newest' /\ ActionsSound'
    BY <1>1, <1>2, QuietTail
  <1>6. ASSUME NEW k \in Keys, Step.event = Executed(k)
        PROVE  /\ \A e \in DOMAIN events : events[e] # Executed(k)
               /\ \A j \in DOMAIN todo : todo[j].kind = "event" /\ todo[j].event = Executed(k) => 1 = j
               /\ \E a \in DOMAIN actions : actions[a].key = k /\ actions[a].status = "executed"
    <2>1. /\ \A e \in DOMAIN events : events[e] # Executed(k)
          /\ \A j \in DOMAIN todo : todo[j].kind = "event" /\ todo[j].event = Executed(k) => 1 = j
          /\ \E a \in DOMAIN actions :
                /\ actions[a].key = k
                /\ \/ actions[a].status = "executed"
                   \/ \E j \in 1..(1 - 1) : /\ todo[j].kind = "mark" /\ todo[j].action = a
                                            /\ todo[j].status = "executed"
      BY <1>1, <1>2, <1>6 DEF ServiceInv, EventsOwed
    <2>2. 1..(1 - 1) = {}
      OBVIOUS
    <2> QED BY <2>1, <2>2
  <1>7. EventsSound'
    <2>1. ASSUME NEW k \in Keys, NEW e \in DOMAIN events', events'[e] = Executed(k)
          PROVE  /\ \A f \in DOMAIN events' : events'[f] = Executed(k) => e = f
                 /\ \E a \in DOMAIN actions : actions[a].key = k /\ actions[a].status = "executed"
      <3>1. CASE Step.event = Executed(k)
        BY <1>3, <1>6, <2>1, <3>1
      <3>2. CASE Step.event # Executed(k)
        <4>1. e \in DOMAIN events /\ events[e] = Executed(k)
          BY <1>3, <2>1, <3>2
        <4>2. /\ \A f \in DOMAIN events : events[f] = Executed(k) => e = f
              /\ \E a \in DOMAIN actions : actions[a].key = k /\ actions[a].status = "executed"
          BY <4>1 DEF ServiceInv, EventsSound
        <4> QED BY <1>3, <3>2, <4>1, <4>2
      <3> QED BY <3>1, <3>2
    <2> QED BY <1>1, <2>1 DEF EventsSound, Executed
  <1>8. EventsOwed'
    <2>1. ASSUME NEW i \in DOMAIN todo', NEW k \in Keys,
                 todo'[i].kind = "event", todo'[i].event = Executed(k)
          PROVE  /\ \A e \in DOMAIN events' : events'[e] # Executed(k)
                 /\ \A j \in DOMAIN todo' : todo'[j].kind = "event" /\ todo'[j].event = Executed(k) => i = j
                 /\ \E a \in DOMAIN actions' :
                       /\ actions'[a].key = k
                       /\ \/ actions'[a].status = "executed"
                          \/ \E j \in 1..(i - 1) : /\ todo'[j].kind = "mark" /\ todo'[j].action = a
                                                   /\ todo'[j].status = "executed"
      <3>1. /\ i \in Nat /\ i >= 1 /\ i + 1 \in DOMAIN todo
            /\ todo[i + 1].kind = "event" /\ todo[i + 1].event = Executed(k)
        BY <1>2, <2>1
      <3>2. Step.event # Executed(k)
        BY <1>1, <1>2, <1>6, <3>1
      <3>3. /\ \A e \in DOMAIN events : events[e] # Executed(k)
            /\ \A j \in DOMAIN todo : todo[j].kind = "event" /\ todo[j].event = Executed(k) => i + 1 = j
        BY <3>1 DEF ServiceInv, EventsOwed
      <3>4. ASSUME NEW e \in DOMAIN events' PROVE events'[e] # Executed(k)
        BY <1>3, <3>2, <3>3
      <3>5. \A j \in DOMAIN todo' : todo'[j].kind = "event" /\ todo'[j].event = Executed(k) => i = j
        BY <1>2, <3>1, <3>3
      <3>6. \E a \in DOMAIN actions :
               /\ actions[a].key = k
               /\ \/ actions[a].status = "executed"
                  \/ \E j \in 1..i : /\ todo[j].kind = "mark" /\ todo[j].action = a
                                     /\ todo[j].status = "executed"
        <4>1. \E a \in DOMAIN actions :
                 /\ actions[a].key = k
                 /\ \/ actions[a].status = "executed"
                    \/ \E j \in 1..(i + 1 - 1) : /\ todo[j].kind = "mark" /\ todo[j].action = a
                                                 /\ todo[j].status = "executed"
          BY <3>1 DEF ServiceInv, EventsOwed
        <4>2. i + 1 - 1 = i
          BY <3>1
        <4> QED BY <4>1, <4>2
      <3>7. ASSUME NEW j \in 1..i, todo[j].kind = "mark"
            PROVE  j - 1 \in 1..(i - 1) /\ todo'[j - 1] = todo[j]
        <4>1. j # 1 /\ j \in Nat /\ j >= 1
          BY <1>1, <1>2, <3>1, <3>7
        <4>2. j \in DOMAIN todo
          BY <3>1, OwedFacts DEF ServiceInv
        <4>3. todo'[j - 1] = todo[j]
          BY <1>1, <4>1, <4>2, Shifts DEF ServiceInv
        <4> QED BY <3>1, <4>1, <4>3
      <3> QED BY <1>1, <3>4, <3>5, <3>6, <3>7
    <2> QED BY <2>1 DEF EventsOwed, Executed
  <1>9. AuditSound'
    <2> SUFFICES ASSUME mode = "auditing"
                 PROVE  /\ \A i \in DOMAIN todo' : todo'[i].kind = "event"
                        /\ \A a \in DOMAIN actions : a < cursor /\ actions[a].status = "executed" =>
                              \/ \E e \in DOMAIN events' : events'[e] = Executed(actions[a].key)
                              \/ \E i \in DOMAIN todo' : todo'[i].event = Executed(actions[a].key)
      BY <1>1 DEF AuditSound, Audited, Executed, unwritten
    <2>1. \A i \in DOMAIN todo' : todo'[i].kind = "event"
      BY <1>2 DEF ServiceInv, AuditSound
    <2>2. ASSUME NEW a \in DOMAIN actions, a < cursor, actions[a].status = "executed"
          PROVE  \/ \E e \in DOMAIN events' : events'[e] = Executed(actions[a].key)
                 \/ \E i \in DOMAIN todo' : todo'[i].event = Executed(actions[a].key)
      <3>1. \/ \E e \in DOMAIN events : events[e] = Executed(actions[a].key)
            \/ \E i \in DOMAIN todo : todo[i].event = Executed(actions[a].key)
        BY <2>2 DEF ServiceInv, AuditSound, Audited, Executed
      <3>2. ASSUME NEW e \in DOMAIN events, events[e] = Executed(actions[a].key)
            PROVE  \E f \in DOMAIN events' : events'[f] = Executed(actions[a].key)
        BY <1>3, <3>2
      <3>3. ASSUME NEW i \in DOMAIN todo, todo[i].event = Executed(actions[a].key)
            PROVE  \/ \E e \in DOMAIN events' : events'[e] = Executed(actions[a].key)
                   \/ \E j \in DOMAIN todo' : todo'[j].event = Executed(actions[a].key)
        <4>1. CASE i = 1
          <5>1. Step.event = Executed(actions[a].key) /\ Len(events) + 1 \in DOMAIN events'
            BY <1>2, <1>3, <3>3, <4>1
          <5>2. events'[Len(events) + 1] = Executed(actions[a].key)
            BY <1>3, <5>1
          <5> QED BY <5>1, <5>2
        <4>2. CASE i # 1
          <5>1. i > 1
            BY <4>2, OwedFacts DEF ServiceInv
          <5> QED BY <1>1, <3>3, <5>1, Shifts DEF ServiceInv
        <4> QED BY <4>1, <4>2
      <3> QED BY <3>1, <3>2, <3>3
    <2> QED BY <2>1, <2>2
  <1> QED BY <1>2, <1>4, <1>5, <1>7, <1>8, <1>9 DEF ServiceInv

LEMMA RecordInv ==
    ASSUME ServiceInv, DoRecord, todo' = Tail(todo), UNCHANGED unwritten
    PROVE  ServiceInv'
  <1>1. /\ todo # <<>> /\ Step.kind = "record" /\ actions' = Append(actions, Step.action)
        /\ UNCHANGED <<mandates, approvals, decided, exports, events>>
    BY DEF DoRecord, Owes
  <1>2. /\ 1 \in DOMAIN todo /\ Step = todo[1] /\ todo[1] \in OwedStep
        /\ todo' \in Seq(OwedStep) /\ Order'
        /\ \A i \in DOMAIN todo' :
              i \in Nat /\ i >= 1 /\ i + 1 \in DOMAIN todo /\ todo'[i] = todo[i + 1]
        /\ mode # "down"
    BY <1>1, Shifts DEF ServiceInv
  <1>3. \A i \in DOMAIN todo' : todo'[i].kind = "execute"
    BY <1>1, <1>2, Behind DEF ServiceInv
  <1>4. PICK x \in Action : x = Step.action
    BY <1>1, <1>2, StepFacts
  <1>5. /\ Len(actions) \in Nat /\ DOMAIN actions = 1..Len(actions)
        /\ actions' \in Seq(Action) /\ Len(actions') = Len(actions) + 1
        /\ DOMAIN actions' = 1..(Len(actions) + 1)
        /\ \A a \in DOMAIN actions : a \in DOMAIN actions' /\ actions'[a] = actions[a]
        /\ actions'[Len(actions) + 1] = x
    <2>1. actions \in Seq(Action)
      BY DEF ServiceInv, Types, TypeOK
    <2> QED BY <1>1, <1>4, <2>1
  <1>6. /\ Unknown(x.key) /\ x.mandate \in DOMAIN mandates /\ x.status \in {"pending", "denied"}
        /\ x.approval = 0 /\ x.decision = "ALLOWED" => Gate[x.key] # "gated"
        /\ x.approval # 0 =>
              /\ x.approval \in DOMAIN approvals
              /\ approvals[x.approval].key = x.key /\ approvals[x.approval].mandate = x.mandate
    BY <1>1, <1>2, <1>4 DEF ServiceInv, RequestsOwed, RecordSound
  <1>7. Types'
    <2>1. /\ now' \in 0..MaxTime /\ mandates' \in Seq(Mandate) /\ approvals' \in Seq(Approval)
          /\ decided' \subseteq Keys /\ mode' \in Mode /\ mode' # "down"
          /\ Cardinality(ActiveMandates') <= 1 /\ events' \in Seq(ActionEvent \X Keys)
      BY <1>1, <1>2 DEF ServiceInv, Types, TypeOK, unwritten, ActiveMandates
    <2>2. exports' \subseteq DOMAIN actions' /\ cursor' \in 1..(Len(actions') + 1)
      BY <1>1, <1>5 DEF ServiceInv, Types, TypeOK, unwritten
    <2>3. ASSUME NEW a \in DOMAIN actions'
          PROVE  /\ actions'[a].mandate \in DOMAIN mandates
                 /\ actions'[a].approval # 0 =>
                      /\ actions'[a].approval \in DOMAIN approvals
                      /\ approvals[actions'[a].approval].key = actions'[a].key
                      /\ approvals[actions'[a].approval].mandate = actions'[a].mandate
      <3>1. CASE a \in DOMAIN actions
        BY <1>5, <3>1 DEF ServiceInv, Types, TypeOK
      <3>2. CASE a \notin DOMAIN actions
        BY <1>5, <1>6, <3>2
      <3> QED BY <3>1, <3>2
    <2> QED BY <1>1, <1>2, <1>5, <2>1, <2>2, <2>3 DEF Types, TypeOK
  <1>8. RequestsOwed'
    <2>1. ASSUME NEW i \in DOMAIN todo'
          PROVE  todo'[i].action \in DOMAIN actions' /\ actions'[todo'[i].action].status # "executed"
      <3>1. \/ /\ todo[i + 1].action \in DOMAIN actions
               /\ actions[todo[i + 1].action].status # "executed"
            \/ todo[i + 1].action = Len(actions) + 1
        BY <1>2, <1>3 DEF ServiceInv, RequestsOwed
      <3> QED BY <1>2, <1>5, <1>6, <3>1
    <2> QED BY <1>3, <2>1 DEF RequestsOwed
  <1>9. OutcomesOwed' /\ MandatesOwed'
    BY <1>3 DEF OutcomesOwed, MandatesOwed
  <1>10. EventsOwed' /\ EventsSound'
    BY <1>1, <1>2, <1>5, EventsShift
  <1>11. Newest'
    BY <1>1 DEF ServiceInv, Newest, ActiveMandates
  <1>12. ActionsSound'
    <2>1. ASSUME NEW a \in DOMAIN actions', NEW b \in DOMAIN actions', actions'[a].key = actions'[b].key
          PROVE  a = b
      <3>1. CASE a \in DOMAIN actions /\ b \in DOMAIN actions
        BY <1>5, <2>1, <3>1 DEF ServiceInv, ActionsSound
      <3>2. CASE ~ (a \in DOMAIN actions /\ b \in DOMAIN actions)
        BY <1>5, <1>6, <2>1, <3>2 DEF Unknown
      <3> QED BY <3>1, <3>2
    <2>2. ASSUME NEW a \in DOMAIN actions'
          PROVE  /\ actions'[a].approval = 0 /\ actions'[a].decision = "ALLOWED" =>
                       Gate[actions'[a].key] # "gated"
                 /\ actions'[a].status = "executed" /\ actions'[a].approval # 0 =>
                       approvals[actions'[a].approval].status = "approved"
                 /\ actions'[a].status = "rejected" =>
                       /\ actions'[a].approval # 0
                       /\ approvals[actions'[a].approval].status = "rejected"
      <3>1. CASE a \in DOMAIN actions
        BY <1>5, <3>1 DEF ServiceInv, ActionsSound
      <3>2. CASE a \notin DOMAIN actions
        BY <1>5, <1>6, <3>2
      <3> QED BY <3>1, <3>2
    <2> QED BY <1>1, <2>1, <2>2 DEF ActionsSound
  <1>13. AuditSound'
    BY <1>1, <1>2 DEF ServiceInv, AuditSound, unwritten
  <1> QED BY <1>2, <1>7, <1>8, <1>9, <1>10, <1>11, <1>12, <1>13 DEF ServiceInv

LEMMA ExportInv ==
    ASSUME ServiceInv, DoExport, todo' = Tail(todo), UNCHANGED unwritten
    PROVE  ServiceInv'
  <1>1. /\ todo # <<>> /\ Step.kind = "export" /\ exports' = exports \cup {Step.action}
        /\ UNCHANGED <<mandates, approvals, decided, actions, events>>
    BY DEF DoExport, Owes
  <1>2. /\ 1 \in DOMAIN todo /\ Step = todo[1] /\ todo[1] \in OwedStep
        /\ todo' \in Seq(OwedStep) /\ Order'
        /\ \A i \in DOMAIN todo' :
              i \in Nat /\ i >= 1 /\ i + 1 \in DOMAIN todo /\ todo'[i] = todo[i + 1]
        /\ mode # "down"
    BY <1>1, Shifts DEF ServiceInv
  <1>3. \A i \in DOMAIN todo' : todo'[i].kind \in {"mark", "event"}
    BY <1>1, <1>2, Behind DEF ServiceInv
  <1>4. Step.action \in DOMAIN actions
    BY <1>1, <1>2 DEF ServiceInv, OutcomesOwed
  <1>5. Types'
    BY <1>1, <1>2, <1>4 DEF ServiceInv, Types, TypeOK, unwritten, ActiveMandates
  <1>6. RequestsOwed' /\ MandatesOwed'
    BY <1>3 DEF RequestsOwed, MandatesOwed
  <1>7. OutcomesOwed'
    <2>1. ASSUME NEW i \in DOMAIN todo', todo'[i].kind = "mark",
                 NEW a, a = todo'[i].action, NEW outcome, outcome = todo'[i].status
          PROVE  MarkSound(a, outcome)'
      <3>1. MarkSound(a, outcome)
        BY <1>2, <2>1 DEF ServiceInv, OutcomesOwed
      <3> QED BY <1>1, <1>2, <3>1 DEF MarkSound
    <2> QED BY <1>3, <2>1 DEF OutcomesOwed, MarkSound
  <1>8. EventsOwed' /\ EventsSound'
    BY <1>1, <1>2, EventsShift
  <1>9. Newest' /\ ActionsSound'
    BY <1>1 DEF ServiceInv, Newest, ActionsSound, ActiveMandates
  <1>10. AuditSound'
    BY <1>1, <1>2 DEF ServiceInv, AuditSound, unwritten
  <1> QED BY <1>2, <1>5, <1>6, <1>7, <1>8, <1>9, <1>10 DEF ServiceInv

LEMMA MarkInv ==
    ASSUME ServiceInv, DoMark, todo' = Tail(todo), UNCHANGED unwritten
    PROVE  ServiceInv'
  <1>1. /\ todo # <<>> /\ Step.kind = "mark"
        /\ actions' = [actions EXCEPT ![Step.action].status = Step.status]
        /\ UNCHANGED <<mandates, approvals, decided, exports, events>>
    BY DEF DoMark, Owes
  <1>2. /\ 1 \in DOMAIN todo /\ Step = todo[1] /\ todo[1] \in OwedStep
        /\ todo' \in Seq(OwedStep) /\ Order'
        /\ \A i \in DOMAIN todo' :
              i \in Nat /\ i >= 1 /\ i + 1 \in DOMAIN todo /\ todo'[i] = todo[i + 1]
        /\ mode # "down"
    BY <1>1, Shifts DEF ServiceInv
  <1>3. \A i \in DOMAIN todo' : todo'[i].kind = "event"
    BY <1>1, <1>2, Behind DEF ServiceInv
  <1>4. PICK m \in DOMAIN actions, outcome \in Outcome :
           m = Step.action /\ outcome = Step.status /\ MarkSound(m, outcome)
    BY <1>1, <1>2, StepFacts DEF ServiceInv, OutcomesOwed, MarkSound
  <1>5. actions \in Seq(Action) /\ DOMAIN actions = 1..Len(actions) /\ Len(actions) \in Nat
    BY RegistryFacts DEF ServiceInv, Types, TypeOK
  <1>6. /\ actions' \in Seq(Action) /\ DOMAIN actions' = DOMAIN actions /\ Len(actions') = Len(actions)
        /\ \A a \in DOMAIN actions :
              /\ actions'[a].key = actions[a].key /\ actions'[a].mandate = actions[a].mandate
              /\ actions'[a].approval = actions[a].approval /\ actions'[a].decision = actions[a].decision
              /\ actions'[a].status = IF a = m THEN outcome ELSE actions[a].status
    <2>1. [actions[m] EXCEPT !.status = outcome] \in Action
      <3>1. actions[m] \in Action
        BY <1>5
      <3> QED BY <3>1 DEF Action, Outcome
    <2>2. actions' = [actions EXCEPT ![m] = [actions[m] EXCEPT !.status = outcome]]
      BY <1>1, <1>4
    <2>3. actions' \in Seq(Action) /\ DOMAIN actions' = DOMAIN actions /\ Len(actions') = Len(actions)
      BY <1>4, <1>5, <2>1, <2>2
    <2>4. \A a \in DOMAIN actions : actions[a] \in Action
      BY <1>5
    <2>5. ASSUME NEW a \in DOMAIN actions
          PROVE  /\ actions'[a].key = actions[a].key /\ actions'[a].mandate = actions[a].mandate
                 /\ actions'[a].approval = actions[a].approval
                 /\ actions'[a].decision = actions[a].decision
                 /\ actions'[a].status = IF a = m THEN outcome ELSE actions[a].status
      BY <1>5, <2>2, <2>4 DEF Action
    <2> QED BY <2>3, <2>5
  <1>7. Types'
    <2>1. /\ now' \in 0..MaxTime /\ mandates' \in Seq(Mandate) /\ approvals' \in Seq(Approval)
          /\ decided' \subseteq Keys /\ mode' \in Mode /\ mode' # "down"
          /\ Cardinality(ActiveMandates') <= 1 /\ events' \in Seq(ActionEvent \X Keys)
      BY <1>1, <1>2 DEF ServiceInv, Types, TypeOK, unwritten, ActiveMandates
    <2>2. exports' \subseteq DOMAIN actions' /\ cursor' \in 1..(Len(actions') + 1)
      BY <1>1, <1>6 DEF ServiceInv, Types, TypeOK, unwritten
    <2>3. \A a \in DOMAIN actions' :
             /\ actions'[a].mandate \in DOMAIN mandates
             /\ actions'[a].approval # 0 =>
                  /\ actions'[a].approval \in DOMAIN approvals
                  /\ approvals[actions'[a].approval].key = actions'[a].key
                  /\ approvals[actions'[a].approval].mandate = actions'[a].mandate
      <3>1. ASSUME NEW a \in DOMAIN actions
            PROVE  /\ actions[a].mandate \in DOMAIN mandates
                   /\ actions[a].approval # 0 =>
                        /\ actions[a].approval \in DOMAIN approvals
                        /\ approvals[actions[a].approval].key = actions[a].key
                        /\ approvals[actions[a].approval].mandate = actions[a].mandate
        BY DEF ServiceInv, Types, TypeOK
      <3> QED BY <1>6, <3>1
    <2> QED BY <1>1, <1>2, <1>6, <2>1, <2>2, <2>3 DEF Types, TypeOK
  <1>8. RequestsOwed' /\ OutcomesOwed' /\ MandatesOwed'
    BY <1>3 DEF RequestsOwed, OutcomesOwed, MandatesOwed
  <1>9. EventsOwed' /\ EventsSound'
    <2>1. \A a \in DOMAIN actions :
             /\ a \in DOMAIN actions' /\ actions'[a].key = actions[a].key
             /\ actions[a].status = "executed" => actions'[a].status = "executed"
             /\ todo[1].kind = "mark" /\ todo[1].action = a /\ todo[1].status = "executed" =>
                   actions'[a].status = "executed"
      BY <1>2, <1>4, <1>6 DEF MarkSound
    <2> QED BY <1>1, <2>1, EventsShift
  <1>10. Newest'
    BY <1>1 DEF ServiceInv, Newest, ActiveMandates
  <1>11. ActionsSound'
    <2>1. \A a, b \in DOMAIN actions' : actions'[a].key = actions'[b].key => a = b
      BY <1>6 DEF ServiceInv, ActionsSound
    <2>2. \A a \in DOMAIN actions' :
             /\ actions'[a].approval = 0 /\ actions'[a].decision = "ALLOWED" =>
                   Gate[actions'[a].key] # "gated"
             /\ actions'[a].status = "executed" /\ actions'[a].approval # 0 =>
                   approvals[actions'[a].approval].status = "approved"
             /\ actions'[a].status = "rejected" =>
                   /\ actions'[a].approval # 0
                   /\ approvals[actions'[a].approval].status = "rejected"
      BY <1>4, <1>6 DEF ServiceInv, ActionsSound, MarkSound
    <2> QED BY <1>1, <2>1, <2>2 DEF ActionsSound
  <1>12. AuditSound'
    BY <1>1, <1>2 DEF ServiceInv, AuditSound, unwritten
  <1> QED BY <1>2, <1>7, <1>8, <1>9, <1>10, <1>11, <1>12 DEF ServiceInv

LEMMA NewestBounds == Newest => Cardinality(ActiveMandates) <= 1
  <1> SUFFICES ASSUME Newest PROVE Cardinality(ActiveMandates) <= 1
    OBVIOUS
  <1>1. CASE ActiveMandates = {}
    BY <1>1, FS_EmptySet
  <1>2. CASE ActiveMandates # {}
    <2>1. ActiveMandates = {Len(mandates)}
      BY <1>2 DEF Newest
    <2>2. PICK x : ActiveMandates = {x}
      BY <2>1
    <2>3. Cardinality({x}) = 1
      BY FS_Singleton
    <2> QED BY <2>2, <2>3
  <1> QED BY <1>1, <1>2

LEMMA ChangeInv ==
    ASSUME ServiceInv, DoChange, todo' = Tail(todo), UNCHANGED unwritten
    PROVE  ServiceInv'
  <1>1. /\ todo # <<>> /\ Step.kind = "change"
        /\ mandates' = [mandates EXCEPT ![Step.mandate].status = Step.status]
        /\ UNCHANGED <<approvals, decided, actions, exports, events>>
    BY DEF DoChange, Owes
  <1>2. /\ 1 \in DOMAIN todo /\ Step = todo[1] /\ todo[1] \in OwedStep
        /\ todo' \in Seq(OwedStep) /\ Order'
        /\ \A i \in DOMAIN todo' :
              i \in Nat /\ i >= 1 /\ i + 1 \in DOMAIN todo /\ todo'[i] = todo[i + 1]
        /\ mode # "down"
    BY <1>1, Shifts DEF ServiceInv
  <1>3. \A i \in DOMAIN todo' : todo'[i].kind \in {"invalidate", "create"}
    BY <1>1, <1>2, Behind DEF ServiceInv
  <1>4. PICK m \in DOMAIN mandates, standing \in MandateStatus :
           /\ m = Step.mandate /\ standing = Step.status
           /\ standing = "active" => m = Len(mandates)
    BY <1>1, <1>2, StepFacts DEF ServiceInv, MandatesOwed
  <1>5. /\ mandates' \in Seq(Mandate) /\ DOMAIN mandates' = DOMAIN mandates
        /\ Len(mandates') = Len(mandates)
        /\ \A n \in DOMAIN mandates :
              mandates'[n].status = IF n = m THEN standing ELSE mandates[n].status
    <2>1. mandates \in Seq(Mandate) /\ Len(mandates) \in Nat /\ DOMAIN mandates = 1..Len(mandates)
      BY DEF ServiceInv, Types, TypeOK
    <2>2. [mandates[m] EXCEPT !.status = standing] \in Mandate
      <3>1. mandates[m] \in Mandate
        BY <2>1
      <3> QED BY <3>1 DEF Mandate
    <2>3. mandates' = [mandates EXCEPT ![m] = [mandates[m] EXCEPT !.status = standing]]
      BY <1>1, <1>4
    <2>4. /\ mandates' \in Seq(Mandate) /\ DOMAIN mandates' = DOMAIN mandates
          /\ Len(mandates') = Len(mandates)
      BY <1>4, <2>1, <2>2, <2>3
    <2>5. \A n \in DOMAIN mandates : mandates[n] \in Mandate
      BY <2>1
    <2>6. ASSUME NEW n \in DOMAIN mandates
          PROVE  mandates'[n].status = IF n = m THEN standing ELSE mandates[n].status
      BY <2>1, <2>3, <2>5 DEF Mandate
    <2> QED BY <2>4, <2>6
  <1>6. Newest'
    BY <1>4, <1>5 DEF ServiceInv, Newest, ActiveMandates
  <1>7. Types'
    <2>1. /\ now' \in 0..MaxTime /\ approvals' \in Seq(Approval) /\ actions' \in Seq(Action)
          /\ decided' \subseteq Keys /\ exports' \subseteq DOMAIN actions'
          /\ mode' \in Mode /\ mode' # "down" /\ cursor' \in 1..(Len(actions') + 1)
          /\ events' \in Seq(ActionEvent \X Keys)
      BY <1>1, <1>2 DEF ServiceInv, Types, TypeOK, unwritten
    <2>2. (Cardinality(ActiveMandates) <= 1)'
      BY <1>6, NewestBounds, PTL
    <2>3. \A a \in DOMAIN actions' :
             /\ actions'[a].mandate \in DOMAIN mandates'
             /\ actions'[a].approval # 0 =>
                  /\ actions'[a].approval \in DOMAIN approvals'
                  /\ approvals'[actions'[a].approval].key = actions'[a].key
                  /\ approvals'[actions'[a].approval].mandate = actions'[a].mandate
      BY <1>1, <1>5 DEF ServiceInv, Types, TypeOK
    <2> QED BY <1>2, <1>5, <2>1, <2>2, <2>3 DEF Types, TypeOK
  <1>8. RequestsOwed' /\ OutcomesOwed' /\ EventsOwed'
    BY <1>3 DEF RequestsOwed, OutcomesOwed, EventsOwed
  <1>9. MandatesOwed'
    <2>1. ASSUME NEW i \in DOMAIN todo', todo'[i].kind = "create", NEW n \in ActiveMandates' PROVE FALSE
      <3>1. n \in DOMAIN mandates /\ mandates'[n].status = "active"
        BY <1>5 DEF ActiveMandates
      <3>2. /\ standing = "revoked"
            /\ \A o \in ActiveMandates : o = m
        BY <1>1, <1>2, <1>4, <2>1 DEF ServiceInv, MandatesOwed
      <3> QED BY <1>5, <3>1, <3>2 DEF ActiveMandates
    <2>2. \A i \in DOMAIN todo' : todo'[1].kind # "change"
      <3>1. ASSUME NEW i \in DOMAIN todo' PROVE 1 \in DOMAIN todo'
        <4>1. Len(todo') \in Nat /\ DOMAIN todo' = 1..Len(todo')
          BY <1>2
        <4> QED BY <4>1
      <3> QED BY <1>3, <3>1
    <2> QED BY <1>3, <2>1, <2>2 DEF MandatesOwed
  <1>10. EventsSound' /\ ActionsSound'
    BY <1>1 DEF ServiceInv, EventsSound, ActionsSound, Executed
  <1>11. AuditSound'
    BY <1>1, <1>2 DEF ServiceInv, AuditSound, unwritten
  <1> QED BY <1>2, <1>6, <1>7, <1>8, <1>9, <1>10, <1>11 DEF ServiceInv

LEMMA InvalidateInv ==
    ASSUME ServiceInv, DoInvalidate, todo' = Tail(todo), UNCHANGED unwritten
    PROVE  ServiceInv'
  <1>1. /\ todo # <<>> /\ Step.kind = "invalidate"
        /\ approvals' = [q \in DOMAIN approvals |->
              IF approvals[q].status = "pending" /\ approvals[q].mandate = Step.mandate
              THEN [approvals[q] EXCEPT !.status = "invalidated"] ELSE approvals[q]]
        /\ UNCHANGED <<mandates, decided, actions, exports, events>>
    BY DEF DoInvalidate, Owes
  <1>2. /\ 1 \in DOMAIN todo /\ Step = todo[1] /\ todo[1] \in OwedStep
        /\ todo' \in Seq(OwedStep) /\ Order'
        /\ \A i \in DOMAIN todo' :
              i \in Nat /\ i >= 1 /\ i + 1 \in DOMAIN todo /\ todo'[i] = todo[i + 1]
        /\ mode # "down"
    BY <1>1, Shifts DEF ServiceInv
  <1>3. \A i \in DOMAIN todo' : todo'[i].kind \in {"invalidate", "create"}
    BY <1>1, <1>2, Behind DEF ServiceInv
  <1>4. /\ approvals' \in Seq(Approval) /\ DOMAIN approvals' = DOMAIN approvals
        /\ \A q \in DOMAIN approvals :
              /\ approvals'[q].key = approvals[q].key /\ approvals'[q].mandate = approvals[q].mandate
              /\ approvals[q].status # "pending" => approvals'[q].status = approvals[q].status
    <2>1. /\ Len(approvals) \in Nat /\ DOMAIN approvals = 1..Len(approvals)
          /\ \A q \in DOMAIN approvals : approvals[q] \in Approval
      BY RegistryFacts DEF ServiceInv, Types
    <2>2. \A q \in DOMAIN approvals :
             /\ approvals'[q] \in Approval
             /\ approvals'[q].key = approvals[q].key /\ approvals'[q].mandate = approvals[q].mandate
             /\ approvals[q].status # "pending" => approvals'[q].status = approvals[q].status
      BY <1>1, <2>1 DEF Approval, ApprovalStatus
    <2>3. approvals' \in [1..Len(approvals) -> Approval]
      BY <1>1, <2>1, <2>2
    <2>4. approvals' \in Seq(Approval)
      BY <2>1, <2>3
    <2> QED BY <1>1, <2>2, <2>4
  <1>5. Types'
    BY <1>1, <1>2, <1>4 DEF ServiceInv, Types, TypeOK, unwritten, ActiveMandates
  <1>6. RequestsOwed' /\ OutcomesOwed' /\ EventsOwed'
    BY <1>3 DEF RequestsOwed, OutcomesOwed, EventsOwed
  <1>7. MandatesOwed'
    <2>1. ASSUME NEW i \in DOMAIN todo', todo'[i].kind = "create", NEW n \in ActiveMandates PROVE FALSE
      BY <1>1, <1>2, <2>1 DEF ServiceInv, MandatesOwed
    <2>2. \A i \in DOMAIN todo' : todo'[1].kind # "change"
      <3>1. ASSUME NEW i \in DOMAIN todo' PROVE 1 \in DOMAIN todo'
        <4>1. Len(todo') \in Nat /\ DOMAIN todo' = 1..Len(todo')
          BY <1>2
        <4> QED BY <4>1
      <3> QED BY <1>3, <3>1
    <2> QED BY <1>1, <1>3, <2>1, <2>2 DEF MandatesOwed, ActiveMandates
  <1>8. EventsSound' /\ Newest'
    BY <1>1 DEF ServiceInv, EventsSound, Newest, ActiveMandates, Executed
  <1>9. ActionsSound'
    BY <1>1, <1>4 DEF ServiceInv, Types, TypeOK, ActionsSound
  <1>10. AuditSound'
    BY <1>1, <1>2 DEF ServiceInv, AuditSound, unwritten
  <1> QED BY <1>2, <1>5, <1>6, <1>7, <1>8, <1>9, <1>10 DEF ServiceInv

LEMMA WriteInv == ASSUME ServiceInv, DoWrite PROVE ServiceInv'
  BY OpenInv, DecideInv, EventInv, RecordInv, ExportInv, MarkInv, ChangeInv, InvalidateInv
     DEF DoWrite, unwritten

-----------------------------------------------------------------------------
(* What ends an operation, and the stages of initialize.                    *)

LEMMA NothingChanges ==
    ASSUME ServiceInv, UNCHANGED <<data, todo>>
    PROVE  /\ Order' /\ RequestsOwed' /\ OutcomesOwed' /\ EventsOwed' /\ MandatesOwed'
           /\ todo' \in Seq(OwedStep)
  <1>1. Order' /\ todo' \in Seq(OwedStep)
    BY DEF ServiceInv, Types, Order
  <1>2. RequestsOwed'
    BY DEF ServiceInv, RequestsOwed, RecordSound, Unknown, data
  <1>3. OutcomesOwed'
    BY DEF ServiceInv, OutcomesOwed, MarkSound, data
  <1>4. EventsOwed'
    BY DEF ServiceInv, EventsOwed, Executed, data
  <1>5. MandatesOwed'
    BY DEF ServiceInv, MandatesOwed, ActiveMandates, data
  <1> QED BY <1>1, <1>2, <1>3, <1>4, <1>5

LEMMA AbortInv ==
    ASSUME ServiceInv, Abort
    PROVE  ServiceInv'
  <1>1. todo' = <<>> /\ UNCHANGED <<now, data, cursor>> /\ mode' \in {"up", "down"}
    BY DEF Abort
  <1>2. now' \in 0..MaxTime /\ cursor' \in 1..(Len(actions) + 1) /\ mode' \in Mode
    BY <1>1 DEF ServiceInv, Types, TypeOK, Mode
  <1>3. AuditSound'
    BY <1>1 DEF AuditSound
  <1> QED BY <1>1, <1>2, <1>3, Rests, Begins

LEMMA EndingInv ==
    ASSUME ServiceInv, Fail \/ Stop \/ Restart \/ Advance
    PROVE  ServiceInv'
  <1>1. CASE Fail
    BY <1>1, AbortInv DEF Fail
  <1>2. CASE Stop \/ Restart
    <2>1. /\ todo' = <<>> /\ UNCHANGED <<now, data>> /\ mode' \in {"down", "recovering"}
          /\ cursor' \in {1, cursor}
      BY <1>2 DEF Stop, Restart, ServiceInv, Types, TypeOK
    <2>2. now' \in 0..MaxTime /\ cursor' \in 1..(Len(actions) + 1) /\ mode' \in Mode
      BY <2>1, RegistryFacts DEF ServiceInv, Types, TypeOK, Mode
    <2>3. AuditSound'
      BY <2>1 DEF AuditSound
    <2> QED BY <2>1, <2>2, <2>3, Rests, Begins
  <1>3. CASE Advance
    <2>1. /\ todo' = <<>> /\ UNCHANGED <<now, data>> /\ mode' \in {"auditing", "up"} /\ cursor' = 1
      BY <1>3 DEF Advance
    <2>2. now' \in 0..MaxTime /\ cursor' \in 1..(Len(actions) + 1) /\ mode' \in Mode
      BY <2>1, RegistryFacts DEF ServiceInv, Types, TypeOK, Mode
    <2>3. AuditSound'
      <3>1. DOMAIN actions' = 1..Len(actions) /\ Len(actions) \in Nat
        BY <2>1, RegistryFacts DEF ServiceInv, Types, data
      <3> QED BY <2>1, <3>1 DEF AuditSound
    <2> QED BY <2>1, <2>2, <2>3, Rests, Begins
  <1> QED BY <1>1, <1>2, <1>3

LEMMA TickInv ==
    ASSUME ServiceInv, Tick
    PROVE  ServiceInv'
  <1>1. now' = now + 1 /\ now < MaxTime /\ UNCHANGED <<data, todo, mode, cursor>>
    BY DEF Tick
  <1>2. now' \in 0..MaxTime /\ cursor' \in 1..(Len(actions) + 1) /\ mode' \in Mode
    BY <1>1, ConstantsAssumption DEF ServiceInv, Types, TypeOK
  <1>3. mode' = "down" => todo' = <<>>
    BY <1>1 DEF ServiceInv, Types, TypeOK
  <1>4. AuditSound'
    BY <1>1 DEF ServiceInv, AuditSound, Audited, Executed, data
  <1>5. UNCHANGED data
    BY <1>1
  <1> QED BY <1>1, <1>2, <1>3, <1>4, <1>5, NothingChanges, Begins

-----------------------------------------------------------------------------
(* The operations, as they start.                                           *)

LEMMA StartFacts ==
    ASSUME ServiceInv, NEW steps, Start(steps), Serving
    PROVE  /\ todo' = steps /\ UNCHANGED data /\ mode' = "up" /\ AuditSound'
           /\ now' \in 0..MaxTime /\ mode' \in Mode /\ cursor' \in 1..(Len(actions) + 1)
  BY DEF Start, Serving, AuditSound, Mode, ServiceInv, Types, TypeOK

LEMMA RequestInv ==
    ASSUME ServiceInv, NEW k \in Keys, RequestAction(k)
    PROVE  ServiceInv'
  <1> DEFINE w == Evaluate(k, FirstActive)
  <1>1. /\ Serving /\ Governed /\ Unknown(k) /\ Start(<<w>>)
    BY DEF RequestAction, Unknown
  <1>2. FirstActive \in DOMAIN mandates /\ FirstActive \in Nat
    BY <1>1, FirstIsNewest, RegistryFacts DEF Governed, ServiceInv, Types
  <1>3. /\ w \in OwedStep /\ w.kind = "evaluate" /\ w.key = k /\ w.mandate = FirstActive
    BY <1>2, NewSteps DEF Evaluate
  <1>4. /\ todo' = <<w>> /\ UNCHANGED data /\ mode' = "up" /\ AuditSound'
        /\ now' \in 0..MaxTime /\ mode' \in Mode /\ cursor' \in 1..(Len(actions) + 1)
    BY <1>1, StartFacts
  <1> HIDE DEF w
  <1>5. todo' \in Seq(OwedStep) /\ DOMAIN todo' = {1} /\ todo'[1] = w /\ Order'
    BY <1>3, <1>4, Single
  <1>6. RequestsOwed'
    BY <1>1, <1>2, <1>3, <1>4, <1>5 DEF RequestsOwed, Unknown, data
  <1>7. OutcomesOwed' /\ EventsOwed' /\ MandatesOwed'
    BY <1>3, <1>5 DEF OutcomesOwed, EventsOwed, MandatesOwed
  <1> QED BY <1>4, <1>5, <1>6, <1>7, Begins

\* An execution may be owed to an action that was not executed, an answer to an
\* approval that is pending.
LEMMA DecideApprovalInv ==
    ASSUME ServiceInv, NEW a \in DOMAIN actions, NEW decision \in {"approved", "rejected"},
           DecideApproval(a, decision)
    PROVE  ServiceInv'
  <1>1. a \in Nat /\ actions[a] \in Action /\ actions[a].approval \in Nat
    BY RegistryFacts DEF ServiceInv, Types, Action
  <1>2. /\ Serving /\ actions[a].approval # 0 /\ actions[a].approval \in DOMAIN approvals
    BY DEF DecideApproval, ServiceInv, Types, TypeOK
  <1>3. PICK w \in {Resolve(actions[a].approval, decision), Execute(a)} :
           /\ Start(<<w>>)
           /\ \/ /\ w = Resolve(actions[a].approval, decision)
                 /\ approvals[actions[a].approval].status = "pending"
              \/ w = Execute(a) /\ actions[a].status # "executed"
    BY DEF DecideApproval
  <1>4. w \in OwedStep
    BY <1>1, <1>3, NewSteps
  <1>5. /\ todo' = <<w>> /\ UNCHANGED data /\ mode' = "up" /\ AuditSound'
        /\ now' \in 0..MaxTime /\ mode' \in Mode /\ cursor' \in 1..(Len(actions) + 1)
    BY <1>2, <1>3, StartFacts
  <1>6. todo' \in Seq(OwedStep) /\ DOMAIN todo' = {1} /\ todo'[1] = w /\ Order'
    BY <1>4, <1>5, Single
  <1>7. RequestsOwed' /\ OutcomesOwed' /\ EventsOwed' /\ MandatesOwed'
    <2>1. CASE /\ w = Resolve(actions[a].approval, decision)
               /\ approvals[actions[a].approval].status = "pending"
      <3>1. w.kind = "resolve" /\ w.approval = actions[a].approval
        BY <2>1 DEF Resolve
      <3>2. OutcomesOwed'
        BY <1>2, <1>5, <1>6, <2>1, <3>1 DEF OutcomesOwed, data
      <3> QED BY <1>6, <3>1, <3>2 DEF RequestsOwed, EventsOwed, MandatesOwed
    <2>2. CASE w = Execute(a) /\ actions[a].status # "executed"
      <3>1. w.kind = "execute" /\ w.action = a
        BY <2>2 DEF Execute
      <3>2. RequestsOwed'
        BY <1>5, <1>6, <2>2, <3>1 DEF RequestsOwed, data
      <3> QED BY <1>6, <3>1, <3>2 DEF OutcomesOwed, EventsOwed, MandatesOwed
    <2> QED BY <1>3, <2>1, <2>2
  <1> QED BY <1>5, <1>6, <1>7, Begins

\* A list of a change and its containment, of which the second part may be missing.
LEMMA UpdateInv ==
    ASSUME ServiceInv, NEW action \in {"suspend", "reactivate", "revoke"}, UpdateMandate(action)
    PROVE  ServiceInv'
  <1> DEFINE m == Len(mandates)
  <1>1. m \in Nat /\ m \in DOMAIN mandates /\ Serving
    <2>1. mandates # <<>> /\ Serving
      BY DEF UpdateMandate
    <2>2. mandates \in Seq(Mandate)
      BY DEF ServiceInv, Types, TypeOK
    <2> QED BY <2>1, <2>2
  <1>2. PICK standing \in MandateStatus :
           \/ Start(<<Change(m, standing)>>)
           \/ standing = "revoked" /\ Start(<<Change(m, standing), Invalidate(m)>>)
    BY DEF UpdateMandate, Revocation, MandateStatus
  <1> HIDE DEF m
  <1>3. /\ Change(m, standing) \in OwedStep /\ Invalidate(m) \in OwedStep
        /\ Change(m, standing).kind = "change" /\ Change(m, standing).mandate = m
        /\ Change(m, standing).status = standing /\ Invalidate(m).kind = "invalidate"
    BY <1>1, NewSteps DEF Change, Invalidate
  <1>4. /\ UNCHANGED data /\ mode' = "up" /\ AuditSound'
        /\ now' \in 0..MaxTime /\ mode' \in Mode /\ cursor' \in 1..(Len(actions) + 1)
        /\ \/ todo' = <<Change(m, standing)>>
           \/ todo' = <<Change(m, standing), Invalidate(m)>>
    BY <1>1, <1>2, StartFacts
  <1>5. /\ todo' \in Seq(OwedStep)
        /\ \A i \in DOMAIN todo' : \/ i = 1 /\ todo'[i] = Change(m, standing)
                                   \/ i = 2 /\ todo'[i] = Invalidate(m)
    <2>1. ASSUME NEW c \in OwedStep, NEW d \in OwedStep, todo' = <<c>> \/ todo' = <<c, d>>
          PROVE  /\ todo' \in Seq(OwedStep)
                 /\ \A i \in DOMAIN todo' : \/ i = 1 /\ todo'[i] = c
                                            \/ i = 2 /\ todo'[i] = d
      <3>1. CASE todo' = <<c>>
        BY <3>1
      <3>2. CASE todo' = <<c, d>>
        BY <3>2
      <3> QED BY <2>1, <3>1, <3>2
    <2> QED BY <1>3, <1>4, <2>1
  <1>6. Order'
    BY <1>3, <1>5 DEF Order, Ahead
  <1>7. MandatesOwed'
    BY <1>1, <1>3, <1>4, <1>5 DEF MandatesOwed, data, m
  <1>8. RequestsOwed' /\ OutcomesOwed' /\ EventsOwed'
    BY <1>3, <1>5 DEF RequestsOwed, OutcomesOwed, EventsOwed
  <1> QED BY <1>4, <1>5, <1>6, <1>7, <1>8, Begins

LEMMA Joins ==
    ASSUME NEW S, NEW s \in Seq(S), NEW u \in Seq(S)
    PROVE  /\ s \o u \in Seq(S) /\ Len(s) \in Nat /\ Len(u) \in Nat
           /\ Len(s \o u) = Len(s) + Len(u) /\ DOMAIN (s \o u) = 1..(Len(s) + Len(u))
           /\ \A i \in 1..Len(s) : (s \o u)[i] = s[i]
           /\ \A i \in 1..(Len(s) + Len(u)) : i > Len(s) => (s \o u)[i] = u[i - Len(s)]
  <1>1. s \o u \in Seq(S) /\ Len(s) \in Nat /\ Len(u) \in Nat
    OBVIOUS
  <1>2. /\ Len(s \o u) = Len(s) + Len(u)
        /\ \A i \in 1..(Len(s) + Len(u)) : (s \o u)[i] = IF i <= Len(s) THEN s[i] ELSE u[i - Len(s)]
    BY ConcatProperties
  <1>3. DOMAIN (s \o u) = 1..Len(s \o u)
    BY <1>1
  <1> QED BY <1>1, <1>2, <1>3

\* A new mandate waits for the revocation of the one that is in force.
LEMMA AssignInv ==
    ASSUME ServiceInv, NEW build \in BOOLEAN, AssignMandate(build)
    PROVE  ServiceInv'
  <1> DEFINE c == Change(FirstActive, "revoked")
             d == Invalidate(FirstActive)
             e == Create(build)
             s == IF ActiveMandates = {} THEN <<>> ELSE <<c, d>>
  <1>1. Serving /\ Start(s \o <<e>>)
    BY DEF AssignMandate, Revocation
  <1>2. e \in OwedStep /\ e.kind = "create"
    BY NewSteps DEF Create
  <1>3. ASSUME ActiveMandates # {}
        PROVE  /\ FirstActive \in DOMAIN mandates /\ \A m \in ActiveMandates : m = FirstActive
               /\ c \in OwedStep /\ c.kind = "change" /\ c.mandate = FirstActive /\ c.status = "revoked"
               /\ d \in OwedStep /\ d.kind = "invalidate"
    <2>1. /\ FirstActive \in DOMAIN mandates /\ FirstActive \in Nat
          /\ \A m \in ActiveMandates : m = FirstActive
      BY <1>3, FirstIsNewest, RegistryFacts DEF ServiceInv, Types, Newest
    <2>2. /\ c \in OwedStep /\ c.kind = "change" /\ c.mandate = FirstActive /\ c.status = "revoked"
          /\ d \in OwedStep /\ d.kind = "invalidate"
      BY <2>1, NewSteps DEF Change, Invalidate, MandateStatus
    <2> QED BY <2>1, <2>2
  <1>4. /\ todo' = s \o <<e>> /\ UNCHANGED data /\ mode' = "up" /\ AuditSound'
        /\ now' \in 0..MaxTime /\ mode' \in Mode /\ cursor' \in 1..(Len(actions) + 1)
    <2> DEFINE steps == s \o <<e>>
    <2>1. Serving /\ Start(steps)
      BY <1>1
    <2> HIDE DEF steps
    <2>2. /\ todo' = steps /\ UNCHANGED data /\ mode' = "up" /\ AuditSound'
          /\ now' \in 0..MaxTime /\ mode' \in Mode /\ cursor' \in 1..(Len(actions) + 1)
      BY <2>1, StartFacts
    <2> QED BY <2>2 DEF steps
  <1>5. CASE ActiveMandates = {}
    <2>1. todo' = <<e>>
      BY <1>4, <1>5
    <2> HIDE DEF e
    <2>2. todo' \in Seq(OwedStep) /\ DOMAIN todo' = {1} /\ todo'[1] = e /\ Order'
      BY <1>2, <2>1, Single
    <2>3. MandatesOwed'
      BY <1>2, <1>4, <1>5, <2>2 DEF MandatesOwed, ActiveMandates, data
    <2>4. RequestsOwed' /\ OutcomesOwed' /\ EventsOwed'
      BY <1>2, <2>2 DEF RequestsOwed, OutcomesOwed, EventsOwed
    <2> QED BY <1>4, <2>2, <2>3, <2>4, Begins
  <1>6. CASE ActiveMandates # {}
    <2>1. todo' = <<c, d>> \o <<e>>
      BY <1>4, <1>6
    <2>2. ASSUME NEW x \in OwedStep, NEW y \in OwedStep, NEW z \in OwedStep, todo' = <<x, y>> \o <<z>>
          PROVE  /\ todo' \in Seq(OwedStep) /\ DOMAIN todo' = 1..3
                 /\ todo'[1] = x /\ todo'[2] = y /\ todo'[3] = z
      BY <2>2
    <2>3. /\ todo' \in Seq(OwedStep) /\ DOMAIN todo' = 1..3
          /\ todo'[1] = c /\ todo'[2] = d /\ todo'[3] = e
      BY <1>2, <1>3, <1>6, <2>1, <2>2
    <2>4. /\ todo'[1].kind = "change" /\ todo'[1].mandate = FirstActive /\ todo'[1].status = "revoked"
          /\ todo'[2].kind = "invalidate" /\ todo'[3].kind = "create"
          /\ FirstActive \in DOMAIN mandates /\ \A m \in ActiveMandates : m = FirstActive
      BY <1>2, <1>3, <1>6, <2>3
    <2> HIDE DEF c, d, e, s
    <2>5. \A i \in DOMAIN todo' : i \in {1, 2, 3}
      BY <2>3
    <2>6. Order'
      BY <2>4, <2>5 DEF Order, Ahead
    <2>7. MandatesOwed'
      BY <1>4, <2>4, <2>5 DEF MandatesOwed, ActiveMandates, data
    <2>8. RequestsOwed' /\ OutcomesOwed' /\ EventsOwed'
      BY <2>4, <2>5 DEF RequestsOwed, OutcomesOwed, EventsOwed
    <2> QED BY <1>4, <2>3, <2>6, <2>7, <2>8, Begins
  <1> QED BY <1>5, <1>6

\* A mandate that is created is the only one in force, and the last step of its list.
LEMMA CreateInv ==
    ASSUME ServiceInv, DoCreate
    PROVE  ServiceInv'
  <1>1. todo # <<>> /\ Step.kind = "create"
    BY DEF DoCreate, Owes
  <1>2. /\ Step = todo[1] /\ 1 \in DOMAIN todo /\ todo[1] \in OwedStep /\ Step.build \in BOOLEAN
    BY <1>1, TailFacts, StepFacts DEF ServiceInv
  <1>3. CASE PassportActive
    <2>1. /\ mandates' = Append(mandates, [status |-> "active", expiresAt |-> now + Lifetime,
                                           build |-> Step.build])
          /\ todo' = Tail(todo)
          /\ UNCHANGED <<now, approvals, decided, actions, exports, events, mode, cursor>>
      BY <1>3 DEF DoCreate
    <2>2. todo' = <<>>
      <3>1. \A i \in DOMAIN todo : ~ (i > 1)
        BY <1>1, <1>2, Behind DEF ServiceInv
      <3>2. Len(todo) = 1
        BY <1>2, <3>1, OwedFacts DEF ServiceInv
      <3>3. DOMAIN Tail(todo) = 1..(Len(todo) - 1) /\ Tail(todo) \in Seq(OwedStep)
        BY <1>1, TailFacts DEF ServiceInv
      <3> QED BY <2>1, <3>2, <3>3
    <2>3. ActiveMandates = {}
      BY <1>1, <1>2 DEF ServiceInv, MandatesOwed
    <2>4. PICK x \in Mandate : x.status = "active" /\ mandates' = Append(mandates, x)
      <3>1. now + Lifetime \in Nat
        BY ConstantsAssumption DEF ServiceInv, Types, TypeOK
      <3> DEFINE x == [status |-> "active", expiresAt |-> now + Lifetime, build |-> Step.build]
      <3>2. x \in Mandate /\ x.status = "active"
        BY <1>2, <3>1 DEF Mandate, MandateStatus
      <3> QED BY <2>1, <3>2
    <2>5. /\ mandates' \in Seq(Mandate) /\ Len(mandates') = Len(mandates) + 1 /\ Len(mandates) \in Nat
          /\ DOMAIN mandates' = 1..(Len(mandates) + 1) /\ DOMAIN mandates = 1..Len(mandates)
          /\ \A m \in DOMAIN mandates : m \in DOMAIN mandates' /\ mandates'[m] = mandates[m]
      <3>1. mandates \in Seq(Mandate)
        BY DEF ServiceInv, Types, TypeOK
      <3> QED BY <2>4, <3>1
    <2>6. Newest'
      BY <2>3, <2>5 DEF Newest, ActiveMandates
    <2>7. (Cardinality(ActiveMandates) <= 1)'
      BY <2>6, NewestBounds, PTL
    <2>8. Types'
      <3>1. /\ now' \in 0..MaxTime /\ approvals' \in Seq(Approval) /\ actions' \in Seq(Action)
            /\ decided' \subseteq Keys /\ exports' \subseteq DOMAIN actions'
            /\ mode' \in Mode /\ cursor' \in 1..(Len(actions') + 1)
            /\ events' \in Seq(ActionEvent \X Keys)
        BY <2>1 DEF ServiceInv, Types, TypeOK
      <3>2. \A a \in DOMAIN actions' :
               /\ actions'[a].mandate \in DOMAIN mandates'
               /\ actions'[a].approval # 0 =>
                    /\ actions'[a].approval \in DOMAIN approvals'
                    /\ approvals'[actions'[a].approval].key = actions'[a].key
                    /\ approvals'[actions'[a].approval].mandate = actions'[a].mandate
        BY <2>1, <2>5 DEF ServiceInv, Types, TypeOK
      <3> QED BY <2>2, <2>5, <2>7, <3>1, <3>2, Rests DEF Types, TypeOK
    <2>9. EventsSound' /\ ActionsSound'
      BY <2>1 DEF ServiceInv, EventsSound, ActionsSound, Executed
    <2>10. AuditSound'
      BY <1>1, <1>2, <2>1 DEF ServiceInv, AuditSound
    <2> QED BY <2>2, <2>6, <2>8, <2>9, <2>10, Rests DEF ServiceInv
  <1>4. CASE ~ PassportActive
    BY <1>4, AbortInv DEF DoCreate
  <1> QED BY <1>3, <1>4

-----------------------------------------------------------------------------
(* The checks an operation makes when their turn comes.                     *)

LEMMA RequestShape ==
    ASSUME TypeOK, NEW x \in Action, x.approval \in Nat, x.key \in Keys, x.mandate \in Nat
    PROVE  \E off \in {0, 1} : \E n \in {0, 1} :
              /\ RequestSteps(x) \in Seq(OwedStep)
              /\ DOMAIN RequestSteps(x) = 1..(off + 4 + n)
              /\ off = 1 <=> x.approval # 0
              /\ n = 1 <=> x.decision = "ALLOWED"
              /\ off = 1 => RequestSteps(x)[1] = OpenApproval(x.key, x.mandate)
              /\ RequestSteps(x)[off + 1] = Decide(x.key)
              /\ RequestSteps(x)[off + 2] = Event("ACTION_REQUESTED", x.key)
              /\ RequestSteps(x)[off + 3] = Event(x.decision, x.key)
              /\ RequestSteps(x)[off + 4] = Record(x)
              /\ n = 1 => RequestSteps(x)[off + 5] = Execute(Len(actions) + 1)
  <1> DEFINE o == OpenApproval(x.key, x.mandate)
             a == Decide(x.key)
             b == Event("ACTION_REQUESTED", x.key)
             c == Event(x.decision, x.key)
             d == Record(x)
             e == Execute(Len(actions) + 1)
             s == IF x.approval # 0 THEN <<o>> ELSE <<>>
             u == <<a, b, c, d>>
             v == IF x.decision = "ALLOWED" THEN <<e>> ELSE <<>>
  <1>1. RequestSteps(x) = (s \o u) \o v
    BY DEF RequestSteps
  <1>2. {o, a, b, c, d, e} \subseteq OwedStep
    <2>1. x.decision \in ActionEvent
      BY DEF Action, ActionEvent
    <2>2. Len(actions) + 1 \in Nat
      BY RegistryFacts
    <2>3. o \in OwedStep /\ a \in OwedStep /\ d \in OwedStep
      BY NewSteps
    <2>4. b \in OwedStep /\ c \in OwedStep
      BY <2>1, NewSteps DEF ActionEvent
    <2>5. e \in OwedStep
      BY <2>2, NewSteps
    <2> QED BY <2>3, <2>4, <2>5
  <1> HIDE DEF o, a, b, c, d, e
  <1>3. PICK off \in {0, 1} : /\ s \in Seq(OwedStep) /\ Len(s) = off
                              /\ off = 1 <=> x.approval # 0
                              /\ off = 1 => s[1] = o
    <2>1. CASE x.approval = 0
      BY <1>2, <2>1
    <2>2. CASE x.approval # 0
      BY <1>2, <2>2
    <2> QED BY <2>1, <2>2
  <1>4. PICK n \in {0, 1} : /\ v \in Seq(OwedStep) /\ Len(v) = n
                            /\ n = 1 <=> x.decision = "ALLOWED"
                            /\ n = 1 => v[1] = e
    <2>1. CASE x.decision = "ALLOWED"
      BY <1>2, <2>1
    <2>2. CASE x.decision # "ALLOWED"
      BY <1>2, <2>2
    <2> QED BY <2>1, <2>2
  <1>5. u \in Seq(OwedStep) /\ Len(u) = 4 /\ u[1] = a /\ u[2] = b /\ u[3] = c /\ u[4] = d
    BY <1>2
  <1> HIDE DEF s, u, v
  <1>6. /\ s \o u \in Seq(OwedStep) /\ Len(s \o u) = off + 4
        /\ off = 1 => (s \o u)[1] = o
        /\ (s \o u)[off + 1] = a /\ (s \o u)[off + 2] = b /\ (s \o u)[off + 3] = c /\ (s \o u)[off + 4] = d
    <2>1. /\ s \o u \in Seq(OwedStep) /\ Len(s \o u) = off + 4
          /\ \A i \in 1..off : (s \o u)[i] = s[i]
          /\ \A i \in 1..(off + 4) : i > off => (s \o u)[i] = u[i - off]
      <3>1. /\ s \o u \in Seq(OwedStep) /\ Len(s \o u) = Len(s) + Len(u)
            /\ \A i \in 1..Len(s) : (s \o u)[i] = s[i]
            /\ \A i \in 1..(Len(s) + Len(u)) : i > Len(s) => (s \o u)[i] = u[i - Len(s)]
        <4>1. PICK y \in Seq(OwedStep) : y = s
          BY <1>3
        <4>2. PICK z \in Seq(OwedStep) : z = u
          BY <1>5
        <4>3. /\ y \o z \in Seq(OwedStep) /\ Len(y \o z) = Len(y) + Len(z)
              /\ \A i \in 1..Len(y) : (y \o z)[i] = y[i]
              /\ \A i \in 1..(Len(y) + Len(z)) : i > Len(y) => (y \o z)[i] = z[i - Len(y)]
          BY Joins
        <4> QED BY <4>1, <4>2, <4>3
      <3> QED BY <1>3, <1>5, <3>1
    <2> QED BY <1>3, <1>5, <2>1
  <1>7. PICK w \in Seq(OwedStep) : w = s \o u
    BY <1>6
  <1>8. /\ w \o v \in Seq(OwedStep) /\ DOMAIN (w \o v) = 1..(off + 4 + n)
        /\ \A i \in 1..(off + 4) : (w \o v)[i] = w[i]
        /\ \A i \in 1..(off + 4 + n) : i > off + 4 => (w \o v)[i] = v[i - (off + 4)]
    <2>1. Len(w) = off + 4
      BY <1>6, <1>7
    <2>2. /\ w \o v \in Seq(OwedStep)
          /\ DOMAIN (w \o v) = 1..(Len(w) + Len(v))
          /\ \A i \in 1..Len(w) : (w \o v)[i] = w[i]
          /\ \A i \in 1..(Len(w) + Len(v)) : i > Len(w) => (w \o v)[i] = v[i - Len(w)]
      <3>1. PICK y \in Seq(OwedStep) : y = v
        BY <1>4
      <3>2. /\ w \o y \in Seq(OwedStep) /\ DOMAIN (w \o y) = 1..(Len(w) + Len(y))
            /\ \A i \in 1..Len(w) : (w \o y)[i] = w[i]
            /\ \A i \in 1..(Len(w) + Len(y)) : i > Len(w) => (w \o y)[i] = y[i - Len(w)]
        BY Joins
      <3> QED BY <3>1, <3>2
    <2> QED BY <1>4, <2>1, <2>2
  <1>9. /\ off = 1 => (w \o v)[1] = o
        /\ (w \o v)[off + 1] = a /\ (w \o v)[off + 2] = b /\ (w \o v)[off + 3] = c /\ (w \o v)[off + 4] = d
        /\ n = 1 => (w \o v)[off + 5] = e
    <2>1. off \in {0, 1} /\ Len(w) = off + 4 /\ Len(v) = n /\ n \in {0, 1}
      BY <1>3, <1>4, <1>6, <1>7
    <2>2. \A i \in 1..(off + 4) : (w \o v)[i] = w[i]
      BY <1>8, <2>1
    <2>3. off = 1 => (w \o v)[1] = o
      BY <1>6, <1>7, <2>1, <2>2
    <2>4. (w \o v)[off + 1] = a /\ (w \o v)[off + 2] = b
      BY <1>6, <1>7, <2>1, <2>2
    <2>5. (w \o v)[off + 3] = c /\ (w \o v)[off + 4] = d
      BY <1>6, <1>7, <2>1, <2>2
    <2>6. n = 1 => (w \o v)[off + 5] = e
      <3>1. ASSUME n = 1 PROVE off + 5 \in 1..(Len(w) + Len(v)) /\ off + 5 > Len(w) /\ off + 5 - Len(w) = 1
        BY <2>1, <3>1
      <3> QED BY <1>4, <1>8, <3>1
    <2> QED BY <2>3, <2>4, <2>5, <2>6
  <1> QED BY <1>1, <1>3, <1>4, <1>7, <1>8, <1>9 DEF o, a, b, c, d, e

\* The action that a request makes waits for its own approval.
LEMMA EvaluateInv ==
    ASSUME ServiceInv, DoEvaluate
    PROVE  ServiceInv'
  <1> DEFINE k == Step.key
             inForce == PassportActive /\ now < mandates[Step.mandate].expiresAt
             verdict == IF k \in decided \/ ~ inForce \/ Gate[k] = "prohibited" THEN "DENIED"
                        ELSE IF Gate[k] = "gated" THEN "REQUIRES_APPROVAL" ELSE "ALLOWED"
             request == [key |-> k, mandate |-> Step.mandate, decision |-> verdict,
                         approval |-> IF verdict = "REQUIRES_APPROVAL" THEN Len(approvals) + 1 ELSE 0,
                         status |-> IF verdict = "DENIED" THEN "denied" ELSE "pending"]
  <1>1. /\ todo # <<>> /\ Step.kind = "evaluate" /\ todo' = RequestSteps(request)
        /\ UNCHANGED <<now, data, mode, cursor, changes, faults>>
    BY DEF DoEvaluate, Owes
  <1>2. /\ Step = todo[1] /\ 1 \in DOMAIN todo /\ k \in Keys /\ Step.mandate \in Nat
    BY <1>1, TailFacts, StepFacts DEF ServiceInv
  <1>3. Unknown(k) /\ Step.mandate \in DOMAIN mandates
    BY <1>1, <1>2 DEF ServiceInv, RequestsOwed
  <1>4. /\ verdict \in {"ALLOWED", "REQUIRES_APPROVAL", "DENIED"}
        /\ verdict = "ALLOWED" => Gate[k] # "gated"
    OBVIOUS
  <1> HIDE DEF verdict
  <1>5. PICK x \in Action :
           /\ x = request /\ x.key = k /\ x.mandate = Step.mandate /\ x.decision = verdict
           /\ x.approval = (IF verdict = "REQUIRES_APPROVAL" THEN Len(approvals) + 1 ELSE 0)
           /\ x.approval \in Nat /\ x.status \in {"pending", "denied"}
    <2>1. /\ request \in Action /\ request.key = k /\ request.mandate = Step.mandate
          /\ request.decision = verdict
          /\ request.approval = (IF verdict = "REQUIRES_APPROVAL" THEN Len(approvals) + 1 ELSE 0)
          /\ request.approval \in Nat /\ request.status \in {"pending", "denied"}
      BY <1>2, <1>4, RegistryFacts DEF Action, ServiceInv, Types
    <2> QED BY <2>1
  <1> HIDE DEF k, request
  <1>6. PICK off \in {0, 1}, n \in {0, 1} :
              /\ todo' \in Seq(OwedStep)
              /\ DOMAIN todo' = 1..(off + 4 + n)
              /\ off = 1 <=> x.approval # 0
              /\ n = 1 <=> x.decision = "ALLOWED"
              /\ off = 1 => todo'[1] = OpenApproval(k, x.mandate)
              /\ todo'[off + 1] = Decide(k)
              /\ todo'[off + 2] = Event("ACTION_REQUESTED", k)
              /\ todo'[off + 3] = Event(verdict, k)
              /\ todo'[off + 4] = Record(x)
              /\ n = 1 => todo'[off + 5] = Execute(Len(actions) + 1)
    BY <1>1, <1>2, <1>5, RequestShape DEF ServiceInv, Types
  <1>7. /\ off = 1 => /\ todo'[1].kind = "open" /\ todo'[1].approval.key = k
                      /\ todo'[1].approval.mandate = x.mandate
        /\ todo'[off + 1].kind = "decide"
        /\ todo'[off + 2].kind = "event" /\ todo'[off + 2].event = <<"ACTION_REQUESTED", k>>
        /\ todo'[off + 3].kind = "event" /\ todo'[off + 3].event = <<verdict, k>>
        /\ todo'[off + 4].kind = "record" /\ todo'[off + 4].action = x
        /\ n = 1 => todo'[off + 5].kind = "execute" /\ todo'[off + 5].action = Len(actions) + 1
    BY <1>6 DEF OpenApproval, Decide, Event, Record, Execute
  <1>8. \A i \in DOMAIN todo' : \/ i = 1 /\ off = 1
                                \/ i \in {off + 1, off + 2, off + 3, off + 4}
                                \/ i = off + 5 /\ n = 1
    BY <1>6
  <1>9. Order'
    BY <1>7, <1>8 DEF Order, Ahead
  <1>10. RequestsOwed'
    <2>1. ASSUME NEW i \in DOMAIN todo', todo'[i].kind = "record" PROVE todo'[i].action = x
      BY <1>7, <1>8, <2>1
    <2>2. RecordSound(x)'
      BY <1>1, <1>3, <1>4, <1>5, <1>6, <1>7 DEF RecordSound, Unknown, data
    <2>3. \A i \in DOMAIN todo' : todo'[i].kind # "evaluate"
      BY <1>7, <1>8
    <2>4. ASSUME NEW i \in DOMAIN todo', todo'[i].kind = "execute"
          PROVE  todo'[i].action = Len(actions) + 1 /\ \E j \in DOMAIN todo' : todo'[j].kind = "record"
      <3>1. todo'[i].action = Len(actions) + 1
        BY <1>7, <1>8, <2>4
      <3>2. off + 4 \in DOMAIN todo'
        BY <1>6
      <3> QED BY <1>7, <3>1, <3>2
    <2>5. UNCHANGED actions
      BY <1>1 DEF data
    <2> QED BY <2>1, <2>2, <2>3, <2>4, <2>5 DEF RequestsOwed, RecordSound, Unknown
  <1>11. OutcomesOwed' /\ EventsOwed' /\ MandatesOwed'
    <2>1. \A i \in DOMAIN todo' : /\ todo'[i].kind \in {"open", "decide", "event", "record", "execute"}
                                  /\ todo'[i].kind = "event" => todo'[i].event[1] # "ACTION_EXECUTED"
      BY <1>4, <1>7, <1>8
    <2> QED BY <2>1 DEF OutcomesOwed, EventsOwed, MandatesOwed, Executed
  <1>12. AuditSound'
    BY <1>1, <1>2 DEF ServiceInv, AuditSound
  <1>13. /\ now' \in 0..MaxTime /\ mode' \in Mode /\ cursor' \in 1..(Len(actions) + 1)
         /\ mode' = "down" => todo' = <<>>
    BY <1>1 DEF ServiceInv, Types, TypeOK
  <1> QED BY <1>1, <1>6, <1>9, <1>10, <1>11, <1>12, <1>13, Begins

\* The first step of a list that has no step behind it.
LEMMA Alone ==
    ASSUME ServiceInv, todo # <<>>, Step.kind \in {"resolve", "execute"}
    PROVE  /\ Step = todo[1] /\ todo[1] \in OwedStep /\ DOMAIN todo = {1} /\ mode \notin {"down", "auditing"}
  <1>1. Step = todo[1] /\ 1 \in DOMAIN todo /\ todo[1] \in OwedStep
    BY TailFacts DEF ServiceInv
  <1>2. \A i \in DOMAIN todo : ~ (i > 1)
    BY <1>1, Behind DEF ServiceInv
  <1>3. DOMAIN todo = {1}
    BY <1>1, <1>2, OwedFacts DEF ServiceInv
  <1>4. mode \notin {"down", "auditing"}
    BY <1>1 DEF ServiceInv, Types, TypeOK, AuditSound
  <1> QED BY <1>1, <1>3, <1>4

LEMMA Pair ==
    ASSUME NEW y \in OwedStep, NEW z \in OwedStep, NEW steps, steps = <<y, z>>
    PROVE  steps \in Seq(OwedStep) /\ DOMAIN steps = 1..2 /\ steps[1] = y /\ steps[2] = z
  OBVIOUS

LEMMA Triple ==
    ASSUME NEW x \in OwedStep, NEW y \in OwedStep, NEW z \in OwedStep, NEW steps,
           steps = <<x>> \o <<y, z>>
    PROVE  /\ steps \in Seq(OwedStep) /\ DOMAIN steps = 1..3
           /\ steps[1] = x /\ steps[2] = y /\ steps[3] = z
  OBVIOUS

LEMMA ExecutionShape ==
    ASSUME NEW a \in Nat, NEW k \in Keys
    PROVE  LET steps == (IF Gate[k] = "gated" THEN <<Export(a)>> ELSE <<>>)
                        \o <<Mark(a, "executed"), Event("ACTION_EXECUTED", k)>>
           IN \E n \in {0, 1} :
                 /\ steps \in Seq(OwedStep) /\ DOMAIN steps = 1..(n + 2)
                 /\ Gate[k] = "gated" => n = 1
                 /\ n = 1 => steps[1] = Export(a)
                 /\ steps[n + 1] = Mark(a, "executed")
                 /\ steps[n + 2] = Event("ACTION_EXECUTED", k)
  <1> DEFINE o == Export(a)
             b == Mark(a, "executed")
             c == Event("ACTION_EXECUTED", k)
             steps == (IF Gate[k] = "gated" THEN <<o>> ELSE <<>>) \o <<b, c>>
  <1>1. o \in OwedStep /\ b \in OwedStep /\ c \in OwedStep
    BY NewSteps DEF Outcome, ActionEvent
  <1>2. \E n \in {0, 1} : /\ steps \in Seq(OwedStep) /\ DOMAIN steps = 1..(n + 2)
                          /\ Gate[k] = "gated" => n = 1
                          /\ n = 1 => steps[1] = o
                          /\ steps[n + 1] = b /\ steps[n + 2] = c
    <2> HIDE DEF o, b, c
    <2>1. CASE Gate[k] = "gated"
      <3>1. steps = <<o>> \o <<b, c>>
        BY <2>1
      <3> HIDE DEF steps
      <3>2. steps \in Seq(OwedStep) /\ DOMAIN steps = 1..3 /\ steps[1] = o /\ steps[2] = b /\ steps[3] = c
        BY <1>1, <3>1, Triple
      <3>3. 1 + 1 = 2 /\ 1 + 2 = 3
        OBVIOUS
      <3> QED BY <3>2, <3>3
    <2>2. CASE Gate[k] # "gated"
      <3>1. steps = <<b, c>>
        BY <2>2
      <3> HIDE DEF steps
      <3>2. steps \in Seq(OwedStep) /\ DOMAIN steps = 1..2 /\ steps[1] = b /\ steps[2] = c
        BY <1>1, <3>1, Pair
      <3>3. 0 + 1 = 1 /\ 0 + 2 = 2
        OBVIOUS
      <3> QED BY <2>2, <3>2, <3>3
    <2> QED BY <2>1, <2>2
  <1> QED BY <1>2

\* What is executed is authorized, approved, and not in the ledger.
LEMMA ExecuteInv ==
    ASSUME ServiceInv, DoExecute
    PROVE  ServiceInv'
  <1>1. todo # <<>> /\ Step.kind = "execute"
    BY DEF DoExecute, Owes
  <1>2. /\ Step = todo[1] /\ todo[1] \in OwedStep /\ DOMAIN todo = {1} /\ mode \notin {"down", "auditing"}
    BY <1>1, Alone
  <1>3. PICK a \in DOMAIN actions : a = Step.action /\ actions[a].status # "executed"
    <2>1. ~ \E j \in DOMAIN todo : todo[j].kind = "record"
      BY <1>1, <1>2
    <2> QED BY <1>1, <1>2, <2>1 DEF ServiceInv, RequestsOwed
  <1>4. PICK k \in Keys : k = actions[a].key
    BY RegistryFacts DEF ServiceInv, Types, Action
  <1>5. a \in Nat
    BY RegistryFacts DEF ServiceInv, Types
  <1>6. CASE ActiveAuthority(a) /\ ApprovedFor(a)
    <2> DEFINE steps == (IF Gate[k] = "gated" THEN <<Export(a)>> ELSE <<>>)
                        \o <<Mark(a, "executed"), Event("ACTION_EXECUTED", k)>>
    <2>1. todo' = steps /\ UNCHANGED <<now, data, mode, cursor, changes>>
      BY <1>3, <1>4, <1>6 DEF DoExecute
    <2>2. PICK n \in {0, 1} :
             /\ steps \in Seq(OwedStep) /\ DOMAIN steps = 1..(n + 2)
             /\ Gate[k] = "gated" => n = 1
             /\ n = 1 => steps[1] = Export(a)
             /\ steps[n + 1] = Mark(a, "executed")
             /\ steps[n + 2] = Event("ACTION_EXECUTED", k)
      BY <1>4, <1>5, ExecutionShape
    <2> HIDE DEF steps
    <2>3. /\ todo' \in Seq(OwedStep) /\ DOMAIN todo' = 1..(n + 2)
          /\ Gate[k] = "gated" => n = 1
          /\ n = 1 => todo'[1].kind = "export" /\ todo'[1].action = a
          /\ todo'[n + 1].kind = "mark" /\ todo'[n + 1].action = a /\ todo'[n + 1].status = "executed"
          /\ todo'[n + 2].kind = "event" /\ todo'[n + 2].event = Executed(k)
      BY <2>1, <2>2 DEF Export, Mark, Event, Executed
    <2>4. \A i \in DOMAIN todo' : (i = 1 /\ n = 1) \/ i = n + 1 \/ i = n + 2
      BY <2>3
    <2>5. Order'
      BY <2>3, <2>4 DEF Order, Ahead
    <2>6. RequestsOwed' /\ MandatesOwed'
      BY <2>3, <2>4 DEF RequestsOwed, MandatesOwed
    <2>7. /\ actions[a].status \notin {"executed", "rejected"}
          /\ mandates[actions[a].mandate].status = "active"
          /\ actions[a].approval # 0 => approvals[actions[a].approval].status = "approved"
          /\ Gate[k] = "gated" => actions[a].approval # 0
      <3>1. mandates[actions[a].mandate].status = "active"
        BY <1>6, FirstIsNewest DEF ActiveAuthority, Governed, ServiceInv, Types, ActiveMandates
      <3>2. actions[a].approval # 0 => approvals[actions[a].approval].status = "approved"
        BY <1>6 DEF ApprovedFor
      <3>3. actions[a].approval = 0 => Gate[k] # "gated"
        BY <1>4, <1>6 DEF ApprovedFor, ServiceInv, ActionsSound
      <3>4. actions[a].status # "rejected"
        BY <3>2 DEF ServiceInv, ActionsSound
      <3> QED BY <1>3, <3>1, <3>2, <3>3, <3>4
    <2>8. MarkSound(a, "executed")'
      BY <1>4, <2>1, <2>3, <2>7 DEF MarkSound, data
    <2>9. OutcomesOwed'
      <3>1. ASSUME NEW i \in DOMAIN todo'
            PROVE  /\ todo'[i].kind # "resolve"
                   /\ todo'[i].kind = "export" => todo'[i].action \in DOMAIN actions
                   /\ todo'[i].kind = "mark" => todo'[i].action = a /\ todo'[i].status = "executed"
        BY <2>3, <2>4
      <3>2. UNCHANGED actions
        BY <2>1 DEF data
      <3> QED BY <2>8, <3>1, <3>2 DEF OutcomesOwed, MarkSound
    <2>10. EventsOwed'
      <3>1. \A e \in DOMAIN events : events[e] # Executed(k)
        BY <1>3, <1>4 DEF ServiceInv, EventsSound, ActionsSound
      <3>2. \A i \in DOMAIN todo' : todo'[i].kind = "event" => i = n + 2
        BY <2>3, <2>4
      <3>3. ASSUME NEW l \in Keys, Executed(l) = Executed(k) PROVE l = k
        BY <3>3 DEF Executed
      <3>4. n + 1 \in 1..(n + 2 - 1)
        OBVIOUS
      <3>5. UNCHANGED <<actions, events>>
        BY <2>1 DEF data
      <3>6. ASSUME NEW i \in DOMAIN todo', NEW l \in Keys,
                   todo'[i].kind = "event", todo'[i].event = Executed(l)
            PROVE  i = n + 2 /\ l = k
        BY <2>3, <3>2, <3>3, <3>6
      <3>7. \E j \in 1..(n + 2 - 1) : /\ todo'[j].kind = "mark" /\ todo'[j].action = a
                                      /\ todo'[j].status = "executed"
        BY <2>3, <3>4
      <3> QED BY <1>4, <3>1, <3>2, <3>5, <3>6, <3>7 DEF EventsOwed, Executed
    <2>11. AuditSound'
      BY <1>2, <2>1 DEF AuditSound
    <2>12. /\ now' \in 0..MaxTime /\ mode' \in Mode /\ cursor' \in 1..(Len(actions) + 1)
           /\ mode' = "down" => todo' = <<>>
      BY <1>2, <2>1 DEF ServiceInv, Types, TypeOK
    <2>13. UNCHANGED data
      BY <2>1
    <2> QED BY <2>3, <2>5, <2>6, <2>9, <2>10, <2>11, <2>12, <2>13, Begins
  <1>7. CASE ~ (ActiveAuthority(a) /\ ApprovedFor(a))
    BY <1>3, <1>7, AbortInv DEF DoExecute
  <1> QED BY <1>6, <1>7

LEMMA Three ==
    ASSUME NEW x \in OwedStep, NEW y \in OwedStep, NEW z \in OwedStep, NEW steps, steps = <<x, y, z>>
    PROVE  /\ steps \in Seq(OwedStep) /\ DOMAIN steps = 1..3
           /\ steps[1] = x /\ steps[2] = y /\ steps[3] = z
  OBVIOUS

\* An approval is answered once, and the action that waits for it was not settled.
LEMMA ResolveInv ==
    ASSUME ServiceInv, DoResolve
    PROVE  ServiceInv'
  <1>1. todo # <<>> /\ Step.kind = "resolve"
    BY DEF DoResolve, Owes
  <1>2. /\ Step = todo[1] /\ todo[1] \in OwedStep /\ DOMAIN todo = {1} /\ mode \notin {"down", "auditing"}
    BY <1>1, Alone
  <1>3. PICK p \in DOMAIN approvals : p = Step.approval /\ approvals[p].status = "pending"
    BY <1>1, <1>2 DEF ServiceInv, OutcomesOwed
  <1>4. PICK s \in {"approved", "rejected"} : s = Step.status
    BY <1>1, <1>2, StepFacts
  <1>5. PICK a \in DOMAIN actions : /\ actions[a].approval = p
                                    /\ a = CHOOSE b \in DOMAIN actions : actions[b].approval = p
    <2>1. \E b \in DOMAIN actions : actions[b].approval = p
      BY <1>1, <1>2, <1>3 DEF ServiceInv, OutcomesOwed
    <2> QED BY <2>1
  <1>6. PICK k \in Keys : k = approvals[p].key
    BY <1>3, RegistryFacts DEF ServiceInv, Types, Approval
  <1>7. a \in Nat /\ p \in Nat /\ p # 0 /\ actions[a].status \notin {"executed", "rejected"}
    <2>1. a \in Nat /\ p \in Nat /\ p # 0
      BY RegistryFacts DEF ServiceInv, Types
    <2> QED BY <1>3, <1>5, <2>1 DEF ServiceInv, ActionsSound
  <1>8. CASE /\ mandates[approvals[p].mandate].status = "active"
             /\ now < mandates[approvals[p].mandate].expiresAt
    <2> DEFINE c == Decide(k)
               d == Event(s, k)
               e == IF s = "approved" THEN Execute(a) ELSE Mark(a, "rejected")
               steps == <<c, d, e>>
    <2>1. /\ approvals' = [approvals EXCEPT ![p].status = s]
          /\ todo' = steps
          /\ UNCHANGED <<now, mandates, decided, actions, exports, events, mode, cursor, changes>>
      BY <1>3, <1>4, <1>5, <1>6, <1>8 DEF DoResolve
    <2>2. /\ c \in OwedStep /\ c.kind = "decide"
          /\ d \in OwedStep /\ d.kind = "event" /\ d.event = <<s, k>>
          /\ e \in OwedStep /\ e.action = a
          /\ \/ e.kind = "execute"
             \/ s = "rejected" /\ e.kind = "mark" /\ e.status = "rejected"
      <3>1. c \in OwedStep /\ c.kind = "decide"
        BY NewSteps DEF Decide
      <3>2. d \in OwedStep /\ d.kind = "event" /\ d.event = <<s, k>>
        BY NewSteps DEF Event, ActionEvent
      <3>3. /\ e \in OwedStep /\ e.action = a
            /\ \/ e.kind = "execute"
               \/ s = "rejected" /\ e.kind = "mark" /\ e.status = "rejected"
        BY <1>7, NewSteps DEF Execute, Mark, Outcome
      <3> QED BY <3>1, <3>2, <3>3
    <2> HIDE DEF c, d, e
    <2>3. /\ steps \in Seq(OwedStep) /\ DOMAIN steps = 1..3
          /\ steps[1] = c /\ steps[2] = d /\ steps[3] = e
      BY <2>2, Three
    <2> HIDE DEF steps
    <2>4. /\ todo' \in Seq(OwedStep) /\ DOMAIN todo' = 1..3
          /\ todo'[1].kind = "decide"
          /\ todo'[2].kind = "event" /\ todo'[2].event = <<s, k>>
          /\ todo'[3].action = a
          /\ \/ todo'[3].kind = "execute"
             \/ s = "rejected" /\ todo'[3].kind = "mark" /\ todo'[3].status = "rejected"
      BY <2>1, <2>2, <2>3
    <2>5. \A i \in DOMAIN todo' : i = 1 \/ i = 2 \/ i = 3
      BY <2>4
    <2>6. Order'
      BY <2>4, <2>5 DEF Order, Ahead
    <2>7. /\ approvals' \in Seq(Approval) /\ DOMAIN approvals' = DOMAIN approvals
          /\ approvals'[p].status = s
          /\ \A q \in DOMAIN approvals :
                /\ approvals'[q].key = approvals[q].key /\ approvals'[q].mandate = approvals[q].mandate
                /\ approvals[q].status # "pending" => approvals'[q].status = approvals[q].status
      <3>1. approvals \in Seq(Approval) /\ s \in ApprovalStatus
        BY DEF ServiceInv, Types, TypeOK, ApprovalStatus
      <3>2. \A q \in DOMAIN approvals : approvals[q] \in Approval
        BY RegistryFacts DEF ServiceInv, Types
      <3>3. DOMAIN approvals' = DOMAIN approvals
        BY <2>1
      <3>4. ASSUME NEW q \in DOMAIN approvals
            PROVE  /\ approvals'[q] \in Approval
                   /\ approvals'[q].key = approvals[q].key /\ approvals'[q].mandate = approvals[q].mandate
                   /\ q # p => approvals'[q] = approvals[q]
                   /\ q = p => approvals'[q].status = s
        BY <2>1, <3>1, <3>2 DEF Approval
      <3>5. approvals' \in Seq(Approval)
        <4>1. approvals' \in [1..Len(approvals) -> Approval] /\ Len(approvals) \in Nat
          BY <2>1, <3>1, <3>3, <3>4
        <4> QED BY <4>1
      <3> QED BY <1>3, <3>3, <3>4, <3>5
    <2>8. Types'
      <3>1. ActiveMandates' = ActiveMandates
        BY <2>1 DEF ActiveMandates
      <3>2. /\ now' \in 0..MaxTime /\ mandates' \in Seq(Mandate) /\ actions' \in Seq(Action)
            /\ decided' \subseteq Keys /\ exports' \subseteq DOMAIN actions'
            /\ mode' \in Mode /\ cursor' \in 1..(Len(actions') + 1) /\ mode' # "down"
            /\ events' \in Seq(ActionEvent \X Keys) /\ Cardinality(ActiveMandates') <= 1
        BY <1>2, <2>1, <3>1 DEF ServiceInv, Types, TypeOK
      <3>3. \A b \in DOMAIN actions' :
               /\ actions'[b].mandate \in DOMAIN mandates'
               /\ actions'[b].approval # 0 =>
                    /\ actions'[b].approval \in DOMAIN approvals'
                    /\ approvals'[actions'[b].approval].key = actions'[b].key
                    /\ approvals'[actions'[b].approval].mandate = actions'[b].mandate
        BY <2>1, <2>7 DEF ServiceInv, Types, TypeOK
      <3> QED BY <2>4, <2>7, <3>2, <3>3 DEF Types, TypeOK
    <2>9. RequestsOwed'
      BY <1>7, <2>1, <2>4, <2>5 DEF RequestsOwed
    <2>10. OutcomesOwed'
      <3>1. s = "rejected" => MarkSound(a, "rejected")'
        BY <1>5, <1>7, <2>1, <2>7 DEF MarkSound
      <3>2. ASSUME NEW i \in DOMAIN todo'
            PROVE  /\ todo'[i].kind \notin {"resolve", "export"}
                   /\ todo'[i].kind = "mark" =>
                         s = "rejected" /\ todo'[i].action = a /\ todo'[i].status = "rejected"
        BY <2>4, <2>5
      <3> QED BY <3>1, <3>2 DEF OutcomesOwed, MarkSound
    <2>11. EventsOwed' /\ MandatesOwed'
      <3>1. ASSUME NEW i \in DOMAIN todo'
            PROVE  /\ todo'[i].kind \notin {"change", "create"}
                   /\ todo'[i].kind = "event" => todo'[i].event[1] # "ACTION_EXECUTED"
        BY <2>4, <2>5
      <3> QED BY <3>1 DEF EventsOwed, MandatesOwed, Executed
    <2>12. EventsSound' /\ Newest'
      BY <2>1 DEF ServiceInv, EventsSound, Newest, ActiveMandates, Executed
    <2>13. ActionsSound'
      <3>1. ASSUME NEW b \in DOMAIN actions, actions[b].approval # 0
            PROVE  actions[b].approval \in DOMAIN approvals
        BY <3>1 DEF ServiceInv, Types, TypeOK
      <3> QED BY <2>1, <2>7, <3>1 DEF ServiceInv, ActionsSound
    <2>14. AuditSound'
      BY <1>2, <2>1 DEF AuditSound
    <2> QED BY <2>6, <2>8, <2>9, <2>10, <2>11, <2>12, <2>13, <2>14 DEF ServiceInv
  <1>9. CASE ~ (/\ mandates[approvals[p].mandate].status = "active"
                /\ now < mandates[approvals[p].mandate].expiresAt)
    BY <1>3, <1>9, AbortInv DEF DoResolve
  <1> QED BY <1>8, <1>9

-----------------------------------------------------------------------------
(* The stages of initialize that look at the actions.                       *)

\* An action is resumed or settled only while it is pending, and by its approval.
LEMMA RecoverInv ==
    ASSUME ServiceInv, Recover
    PROVE  ServiceInv'
  <1>1. PICK a \in DOMAIN actions : a = cursor
    BY DEF Recover
  <1>2. PICK k \in Keys : k = actions[a].key
    BY RegistryFacts DEF ServiceInv, Types, Action
  <1>3. a \in Nat /\ a + 1 \in 1..(Len(actions) + 1)
    BY RegistryFacts DEF ServiceInv, Types
  <1>4. /\ UNCHANGED <<now, data, mode>> /\ mode' = "recovering" /\ cursor' = a + 1 /\ UNCHANGED data
    BY <1>1 DEF Recover, Recovering
  <1>5. \/ todo' = <<>>
        \/ actions[a].status = "pending" /\ todo' = <<Execute(a)>>
        \/ actions[a].status = "pending" /\ todo' = <<Mark(a, "denied"), Event("DENIED", k)>>
        \/ /\ actions[a].status = "pending" /\ Refused(a)
           /\ todo' = <<Mark(a, RefusedOutcome[approvals[actions[a].approval].status])>>
    <2> DEFINE d == <<Execute(a)>>
               e == <<Mark(a, "denied"), Event("DENIED", k)>>
               f == <<Mark(a, RefusedOutcome[approvals[actions[a].approval].status])>>
               none == <<>>
    <2>1. todo' = IF actions[a].status # "pending" THEN none
                  ELSE IF ApprovedFor(a) THEN IF ActiveAuthority(a) THEN d ELSE e
                  ELSE IF Refused(a) THEN f ELSE none
      BY <1>1, <1>2 DEF Recover
    <2>2. \/ todo' = none
          \/ actions[a].status = "pending" /\ todo' = d
          \/ actions[a].status = "pending" /\ todo' = e
          \/ actions[a].status = "pending" /\ Refused(a) /\ todo' = f
      <3> HIDE DEF d, e, f, none
      <3> QED BY <2>1
    <2> QED BY <2>2
  <1>6. /\ now' \in 0..MaxTime /\ mode' \in Mode /\ cursor' \in 1..(Len(actions) + 1)
        /\ mode' # "down" /\ AuditSound'
    BY <1>3, <1>4 DEF ServiceInv, Types, TypeOK, Mode, AuditSound
  <1>7. CASE todo' = <<>>
    BY <1>4, <1>6, <1>7, Rests, Begins
  <1>8. CASE actions[a].status = "pending" /\ todo' = <<Execute(a)>>
    <2>1. PICK w \in OwedStep : w = Execute(a) /\ w.kind = "execute" /\ w.action = a
      BY <1>3, NewSteps DEF Execute
    <2>2. todo' \in Seq(OwedStep) /\ DOMAIN todo' = {1} /\ todo'[1] = w /\ Order'
      BY <1>8, <2>1, Single
    <2>3. RequestsOwed'
      BY <1>4, <1>8, <2>1, <2>2 DEF RequestsOwed, data
    <2>4. OutcomesOwed' /\ EventsOwed' /\ MandatesOwed'
      BY <2>1, <2>2 DEF OutcomesOwed, EventsOwed, MandatesOwed
    <2> QED BY <1>4, <1>6, <2>2, <2>3, <2>4, Begins
  <1>9. ASSUME actions[a].status = "pending", NEW outcome \in {"denied", "rejected"},
               outcome = "rejected" =>
                  actions[a].approval # 0 /\ approvals[actions[a].approval].status = "rejected",
               \/ todo' = <<Mark(a, outcome)>>
               \/ todo' = <<Mark(a, outcome), Event("DENIED", k)>>
        PROVE  ServiceInv'
    <2>1. PICK w \in OwedStep : /\ w = Mark(a, outcome) /\ w.kind = "mark" /\ w.action = a
                                /\ w.status = outcome
      BY <1>3, NewSteps DEF Mark, Outcome
    <2>2. PICK z \in OwedStep : /\ z = Event("DENIED", k) /\ z.kind = "event"
                                /\ z.event = <<"DENIED", k>>
      BY NewSteps DEF Event, ActionEvent
    <2>3. /\ todo' \in Seq(OwedStep) /\ 1 \in DOMAIN todo' /\ todo'[1] = w
          /\ \A i \in DOMAIN todo' : i = 1 \/ (i = 2 /\ todo'[i] = z)
      <3>1. CASE todo' = <<w>>
        BY <3>1, Single
      <3>2. CASE todo' = <<w, z>>
        <4>1. todo' \in Seq(OwedStep) /\ DOMAIN todo' = 1..2 /\ todo'[1] = w /\ todo'[2] = z
          BY <3>2, Pair
        <4> QED BY <4>1
      <3> QED BY <1>9, <2>1, <2>2, <3>1, <3>2
    <2>4. Order'
      BY <2>1, <2>2, <2>3 DEF Order, Ahead
    <2>5. RequestsOwed' /\ MandatesOwed'
      BY <2>1, <2>2, <2>3 DEF RequestsOwed, MandatesOwed
    <2>6. OutcomesOwed'
      <3>1. MarkSound(a, outcome)'
        BY <1>4, <1>9 DEF MarkSound, data
      <3>2. ASSUME NEW i \in DOMAIN todo'
            PROVE  /\ todo'[i].kind \notin {"resolve", "export"}
                   /\ todo'[i].kind = "mark" => todo'[i].action = a /\ todo'[i].status = outcome
        BY <2>1, <2>2, <2>3
      <3> QED BY <3>1, <3>2 DEF OutcomesOwed, MarkSound
    <2>7. EventsOwed'
      <3>1. ASSUME NEW i \in DOMAIN todo'
            PROVE  todo'[i].kind = "event" => todo'[i].event[1] # "ACTION_EXECUTED"
        BY <2>1, <2>2, <2>3
      <3> QED BY <3>1 DEF EventsOwed, Executed
    <2> QED BY <1>4, <1>6, <2>3, <2>4, <2>5, <2>6, <2>7, Begins
  <1>10. CASE actions[a].status = "pending" /\ todo' = <<Mark(a, "denied"), Event("DENIED", k)>>
    BY <1>9, <1>10
  <1>11. CASE /\ actions[a].status = "pending" /\ Refused(a)
              /\ todo' = <<Mark(a, RefusedOutcome[approvals[actions[a].approval].status])>>
    <2>1. PICK outcome \in {"denied", "rejected"} :
             /\ outcome = RefusedOutcome[approvals[actions[a].approval].status]
             /\ outcome = "rejected" =>
                   actions[a].approval # 0 /\ approvals[actions[a].approval].status = "rejected"
      <3>1. /\ actions[a].approval # 0
            /\ approvals[actions[a].approval].status \in {"rejected", "invalidated"}
        BY <1>11 DEF Refused, RefusedOutcome
      <3>2. RefusedOutcome["rejected"] = "rejected" /\ RefusedOutcome["invalidated"] = "denied"
        BY DEF RefusedOutcome
      <3> QED BY <3>1, <3>2
    <2> QED BY <1>9, <1>11, <2>1
  <1> QED BY <1>5, <1>7, <1>8, <1>10, <1>11

\* The audit owes an execution the ledger does not show, and leaves none behind.
LEMMA AuditInv ==
    ASSUME ServiceInv, Audit
    PROVE  ServiceInv'
  <1>1. PICK a \in DOMAIN actions : a = cursor
    BY DEF Audit
  <1>2. PICK k \in Keys : k = actions[a].key
    BY RegistryFacts DEF ServiceInv, Types, Action
  <1>3. /\ a \in Nat /\ a + 1 \in 1..(Len(actions) + 1)
        /\ \A b \in DOMAIN actions : b < a + 1 <=> (b < a \/ b = a)
    BY RegistryFacts DEF ServiceInv, Types
  <1>4. /\ todo = <<>> /\ mode = "auditing" /\ UNCHANGED <<now, data, mode>> /\ cursor' = a + 1
        /\ UNCHANGED data
        /\ \/ todo' = <<>> /\ (actions[a].status = "executed" => Audited(a))
           \/ /\ todo' = <<Event("ACTION_EXECUTED", k)>>
              /\ actions[a].status = "executed" /\ ~ Audited(a)
    BY <1>1, <1>2 DEF Audit, Recovering
  <1>5. /\ now' \in 0..MaxTime /\ mode' \in Mode /\ cursor' \in 1..(Len(actions) + 1)
        /\ mode' # "down"
    BY <1>3, <1>4 DEF ServiceInv, Types, TypeOK, Mode
  <1>6. ASSUME NEW b \in DOMAIN actions, b < a, actions[b].status = "executed"
        PROVE  Audited(b)
    BY <1>1, <1>4, <1>6 DEF ServiceInv, AuditSound
  <1>7. \A b \in DOMAIN actions : Audited(b)' <=> Audited(b)
    BY <1>4 DEF Audited, data
  <1>8. UNCHANGED actions
    BY <1>4 DEF data
  <1>9. CASE todo' = <<>> /\ (actions[a].status = "executed" => Audited(a))
    <2>1. AuditSound'
      <3>1. \A b \in DOMAIN actions : b < a + 1 /\ actions[b].status = "executed" => Audited(b)
        BY <1>3, <1>6, <1>9
      <3> QED BY <1>4, <1>7, <1>8, <1>9, <3>1 DEF AuditSound
    <2> QED BY <1>4, <1>5, <1>9, <2>1, Rests, Begins
  <1>10. CASE /\ todo' = <<Event("ACTION_EXECUTED", k)>>
              /\ actions[a].status = "executed" /\ ~ Audited(a)
    <2>1. PICK w \in OwedStep : /\ w = Event("ACTION_EXECUTED", k) /\ w.kind = "event"
                                /\ w.event = Executed(k)
      BY NewSteps DEF Event, ActionEvent, Executed
    <2>2. todo' \in Seq(OwedStep) /\ DOMAIN todo' = {1} /\ todo'[1] = w /\ Order'
      BY <1>10, <2>1, Single
    <2>3. RequestsOwed' /\ OutcomesOwed' /\ MandatesOwed'
      BY <2>1, <2>2 DEF RequestsOwed, OutcomesOwed, MandatesOwed
    <2>4. EventsOwed'
      <3>1. \A e \in DOMAIN events : events[e] # Executed(k)
        BY <1>2, <1>10 DEF Audited, Executed
      <3>2. ASSUME NEW l \in Keys, Executed(l) = Executed(k) PROVE l = k
        BY <3>2 DEF Executed
      <3> QED BY <1>2, <1>4, <1>10, <2>1, <2>2, <3>1, <3>2 DEF EventsOwed, Executed, data
    <2>5. AuditSound'
      <3>1. \A b \in DOMAIN actions : b < a + 1 /\ actions[b].status = "executed" => Audited(b) \/ b = a
        BY <1>3, <1>6
      <3>2. \E i \in DOMAIN todo' : todo'[i].event = Executed(actions[a].key)
        BY <1>2, <2>1, <2>2
      <3> QED BY <1>4, <1>7, <1>8, <2>1, <2>2, <3>1, <3>2 DEF AuditSound, Executed
    <2> QED BY <1>4, <1>5, <2>2, <2>3, <2>4, <2>5, Begins
  <1> QED BY <1>4, <1>9, <1>10

-----------------------------------------------------------------------------
(* The theorems.                                                            *)

LEMMA InitInv == ASSUME Init PROVE ServiceInv
  <1>1. ActiveMandates = {} /\ DOMAIN todo = {} /\ DOMAIN events = {} /\ DOMAIN actions = {}
    BY DEF Init, ActiveMandates
  <1>2. Types
    <2>1. Cardinality(ActiveMandates) <= 1
      BY <1>1, FS_EmptySet
    <2>2. /\ now \in 0..MaxTime /\ mode \in Mode /\ cursor \in 1..(Len(actions) + 1)
          /\ mandates \in Seq(Mandate) /\ approvals \in Seq(Approval) /\ actions \in Seq(Action)
          /\ todo \in Seq(OwedStep) /\ events \in Seq(ActionEvent \X Keys)
          /\ decided \subseteq Keys /\ exports \subseteq DOMAIN actions /\ mode # "down"
      BY ConstantsAssumption DEF Init, Mode
    <2> QED BY <1>1, <2>1, <2>2 DEF Types, TypeOK
  <1>3. Order /\ RequestsOwed /\ OutcomesOwed /\ EventsOwed /\ MandatesOwed
    BY <1>1 DEF Order, RequestsOwed, OutcomesOwed, EventsOwed, MandatesOwed
  <1>4. EventsSound /\ Newest /\ ActionsSound /\ AuditSound
    BY <1>1 DEF Init, EventsSound, Newest, ActionsSound, AuditSound
  <1> QED BY <1>2, <1>3, <1>4 DEF ServiceInv

LEMMA StutterInv == ASSUME ServiceInv, UNCHANGED vars PROVE ServiceInv'
  <1>1. UNCHANGED <<now, data, todo, mode, cursor>> /\ UNCHANGED data
    BY DEF vars
  <1>2. /\ now' \in 0..MaxTime /\ mode' \in Mode /\ cursor' \in 1..(Len(actions) + 1)
        /\ mode' = "down" => todo' = <<>>
    BY <1>1 DEF ServiceInv, Types, TypeOK
  <1>3. AuditSound'
    BY <1>1 DEF ServiceInv, AuditSound, Audited, Executed, data
  <1> QED BY <1>1, <1>2, <1>3, NothingChanges, Begins

LEMMA StepInv == ASSUME ServiceInv, [Next]_vars PROVE ServiceInv'
  <1>1. CASE \E k \in Keys : RequestAction(k)
    BY <1>1, RequestInv
  <1>2. CASE \E a \in DOMAIN actions, decision \in {"approved", "rejected"} : DecideApproval(a, decision)
    BY <1>2, DecideApprovalInv
  <1>3. CASE \E action \in {"suspend", "reactivate", "revoke"} : UpdateMandate(action)
    BY <1>3, UpdateInv
  <1>4. CASE \E build \in BOOLEAN : AssignMandate(build)
    BY <1>4, AssignInv
  <1>5. CASE Proceed
    BY <1>5, EvaluateInv, ResolveInv, ExecuteInv, CreateInv, WriteInv DEF Proceed
  <1>6. CASE Initialize \/ Fail \/ Stop
    BY <1>6, EndingInv, RecoverInv, AuditInv DEF Initialize
  <1>7. CASE Tick
    BY <1>7, TickInv
  <1>8. CASE UNCHANGED vars
    BY <1>8, StutterInv
  <1> QED BY <1>1, <1>2, <1>3, <1>4, <1>5, <1>6, <1>7, <1>8 DEF Next

\* The inductive invariant of the governance service: the records, what a running
\* operation still owes them, and what the ledger says of them.
THEOREM ServiceCorrect == Spec => []ServiceInv
  <1>1. Init => ServiceInv
    BY InitInv
  <1>2. ServiceInv /\ [Next]_vars => ServiceInv'
    BY StepInv
  <1> QED BY <1>1, <1>2, PTL DEF Spec

\* A position that is the only one with its property counts for one.
LEMMA CountOne ==
    ASSUME NEW S, NEW i \in S, \A j \in S : j = i
    PROVE  Cardinality(S) = 1
  <1>1. S = {i}
    OBVIOUS
  <1> QED BY <1>1, FS_Singleton

\* A key has one action and at most one execution in the ledger, whatever was retried,
\* failed or stopped (requestAction, and the audit of initialize).
THEOREM ActionsHold == Spec => []ActionsInv
  <1>1. ServiceInv => ActionsInv
    <2> SUFFICES ASSUME ServiceInv PROVE ActionsInv
      OBVIOUS
    <2>1. TypeOK /\ \A a, b \in DOMAIN actions : actions[a].key = actions[b].key => a = b
      BY DEF ServiceInv, Types, ActionsSound
    <2>2. ASSUME NEW k \in Keys PROVE Count("ACTION_EXECUTED", k) <= 1
      <3> DEFINE S == {i \in DOMAIN events : events[i] = Executed(k)}
      <3>1. Count("ACTION_EXECUTED", k) = Cardinality(S)
        BY DEF Count, Executed
      <3>2. \A i, j \in S : i = j
        BY DEF ServiceInv, EventsSound
      <3>3. CASE S = {}
        BY <3>1, <3>3, FS_EmptySet
      <3>4. ASSUME NEW i \in S PROVE Cardinality(S) = 1
        <4> HIDE DEF S
        <4> QED BY <3>2, CountOne
      <3> HIDE DEF S
      <3> QED BY <3>1, <3>3, <3>4
    <2> QED BY <2>1, <2>2 DEF ActionsInv, OneActionPerKey
  <1> QED BY <1>1, ServiceCorrect, PTL

\* An outcome that is final stays, and an action takes effect under the mandate it was
\* decided under, after its approval and its evidence pack (execute).
THEOREM AuthorityHolds == Spec => ExecutesUnderAuthority
  <1> DEFINE Sound(a) ==
                /\ actions[a].status \in {"executed", "rejected"} => actions'[a].status = actions[a].status
                /\ actions[a].status # "executed" /\ actions'[a].status = "executed" =>
                     /\ mandates[actions[a].mandate].status = "active"
                     /\ Gate[actions[a].key] = "gated" =>
                           approvals[actions[a].approval].status = "approved" /\ a \in exports
             Step0 == \A a \in DOMAIN actions : Sound(a)
  <1>1. ASSUME ServiceInv, [Next]_vars, NEW a \in DOMAIN actions PROVE Sound(a)
    <2>1. CASE UNCHANGED actions
      BY <2>1
    <2>2. CASE DoRecord
      <3>1. actions' = Append(actions, Step.action) /\ actions \in Seq(Action)
        BY <1>1, <2>2 DEF DoRecord, ServiceInv, Types, TypeOK
      <3>2. actions'[a] = actions[a]
        BY <1>1, <3>1
      <3> QED BY <3>2
    <2>3. CASE DoMark
      <3>1. /\ todo # <<>> /\ Step.kind = "mark"
            /\ actions' = [actions EXCEPT ![Step.action].status = Step.status]
        BY <2>3 DEF DoMark, Owes
      <3>2. Step = todo[1] /\ 1 \in DOMAIN todo
        BY <1>1, <3>1, TailFacts DEF ServiceInv
      <3>3. MarkSound(Step.action, Step.status)
        BY <1>1, <3>1, <3>2 DEF ServiceInv, OutcomesOwed
      <3>4. CASE Step.action = a
        <4>1. actions'[a].status = Step.status
          BY <1>1, <3>1, <3>4, RegistryFacts DEF ServiceInv, Types, Action
        <4> QED BY <3>1, <3>2, <3>3, <3>4, <4>1 DEF MarkSound
      <3>5. CASE Step.action # a
        BY <1>1, <3>1, <3>5
      <3> QED BY <3>4, <3>5
    <2>4. UNCHANGED actions \/ DoRecord \/ DoMark
      <3>1. CASE UNCHANGED vars
        BY <3>1 DEF vars, data
      <3>2. CASE Proceed
        BY <3>2 DEF Proceed, DoEvaluate, DoResolve, DoExecute, DoCreate, DoWrite, DoOpen, DoDecide,
                    DoEvent, DoExport, DoChange, DoInvalidate, Abort, data
      <3>3. CASE Initialize \/ Fail \/ Stop \/ Tick
        BY <3>3 DEF Initialize, Restart, Recover, Audit, Advance, Fail, Stop, Tick, Abort, data
      <3>4. CASE \/ \E k \in Keys : RequestAction(k)
                 \/ \E b \in DOMAIN actions, decision \in {"approved", "rejected"} : DecideApproval(b, decision)
                 \/ \E action \in {"suspend", "reactivate", "revoke"} : UpdateMandate(action)
                 \/ \E build \in BOOLEAN : AssignMandate(build)
        BY <3>4 DEF RequestAction, DecideApproval, UpdateMandate, AssignMandate, Start, data
      <3> QED BY <1>1, <3>1, <3>2, <3>3, <3>4 DEF Next
    <2> QED BY <2>1, <2>2, <2>3, <2>4
  <1>2. ServiceInv /\ [Next]_vars => [Step0]_vars
    BY <1>1
  <1>3. [][Step0]_vars => ExecutesUnderAuthority
    BY PTL DEF ExecutesUnderAuthority
  <1> QED BY <1>2, <1>3, ServiceCorrect, PTL DEF Spec

\* A service that serves again has every execution in its ledger, once (initialize).
THEOREM AuditHolds == Spec => AuditedWhenServing
  <1> DEFINE Shown == mode # "up" /\ mode' = "up" =>
                         \A a \in DOMAIN actions : actions[a].status = "executed" =>
                             Count("ACTION_EXECUTED", actions[a].key) = 1
  <1>1. ASSUME ServiceInv, [Next]_vars, mode # "up", mode' = "up" PROVE Advance
    <2>1. CASE UNCHANGED vars
      BY <1>1, <2>1 DEF vars
    <2>2. CASE Proceed
      BY <1>1, <2>2 DEF Proceed, DoEvaluate, DoResolve, DoExecute, DoCreate, DoWrite, Abort
    <2>3. CASE Initialize \/ Fail \/ Stop \/ Tick
      BY <1>1, <2>3 DEF Initialize, Restart, Recover, Audit, Fail, Stop, Tick, Abort
    <2>4. CASE \/ \E k \in Keys : RequestAction(k)
               \/ \E b \in DOMAIN actions, decision \in {"approved", "rejected"} : DecideApproval(b, decision)
               \/ \E action \in {"suspend", "reactivate", "revoke"} : UpdateMandate(action)
               \/ \E build \in BOOLEAN : AssignMandate(build)
      BY <1>1, <2>4 DEF RequestAction, DecideApproval, UpdateMandate, AssignMandate, Start, Serving
    <2> QED BY <1>1, <2>1, <2>2, <2>3, <2>4 DEF Next
  <1>2. ASSUME ServiceInv, [Next]_vars, mode # "up", mode' = "up",
               NEW a \in DOMAIN actions, actions[a].status = "executed"
        PROVE  Count("ACTION_EXECUTED", actions[a].key) = 1
    <2>1. /\ mode = "auditing" /\ todo = <<>> /\ cursor > Len(actions) /\ a \in 1..Len(actions)
          /\ cursor \in Nat /\ Len(actions) \in Nat
      <3>1. Len(actions) \in Nat /\ a \in 1..Len(actions)
        BY <1>2, RegistryFacts DEF ServiceInv, Types
      <3>2. cursor \in Nat
        BY <1>2, <3>1 DEF ServiceInv, Types, TypeOK
      <3>3. mode = "auditing" /\ todo = <<>> /\ cursor > Len(actions)
        <4>1. Advance
          BY <1>1, <1>2
        <4> QED BY <1>2, <4>1 DEF Advance
      <3> QED BY <3>1, <3>2, <3>3
    <2>2. Audited(a)
      BY <1>2, <2>1 DEF ServiceInv, AuditSound
    <2>3. PICK k \in Keys : k = actions[a].key
      BY <1>2, RegistryFacts DEF ServiceInv, Types, Action
    <2> DEFINE S == {i \in DOMAIN events : events[i] = Executed(k)}
    <2>4. PICK i \in S : TRUE
      BY <2>2, <2>3 DEF Audited, Executed
    <2>5. \A j \in S : j = i
      BY <1>2, <2>4 DEF ServiceInv, EventsSound
    <2>6. Cardinality(S) = 1
      <3> HIDE DEF S
      <3> QED BY <2>4, <2>5, CountOne
    <2> QED BY <2>3, <2>6 DEF Count, Executed
  <1>3. ServiceInv /\ [Next]_vars => [Shown]_vars
    BY <1>2
  <1>4. [][Shown]_vars => AuditedWhenServing
    BY PTL DEF AuditedWhenServing
  <1> QED BY <1>3, <1>4, ServiceCorrect, PTL DEF Spec

-----------------------------------------------------------------------------
(* Rooms: the inductive invariant.  A run is decided once, so the place of   *)
(* its task tells which statuses it can have (RoomStages), what the task has *)
(* recorded (RoomEvidence) and what it has launched (RoomLaunches).          *)

\* The slots are counted as they are taken; the server that is down holds none.
RoomSlots ==
    /\ IsFiniteSet(active) /\ Cardinality(active) <= MaxActive
    /\ changing.kind = "approve" => changing.run \in active
    /\ ~ up => changing = None /\ \A r \in Runs : task[r].at = "none"

RoomStages ==
    /\ changing.kind \in {"approve", "reject"} => status[changing.run] = "pending"
    /\ RunningHasTask
    /\ \A r \in Runs :
          /\ status[r] \in {"none", "pending"} => task[r].at = "none"
          /\ task[r].at \in Trying \cup {"prepare", "fail"} => status[r] \in {"running", "cancelled"}
          /\ task[r].at \in {"record-failure", "trace", "trace-again"} => status[r] \in Settled
          /\ task[r].at = "last-resort" => failures >= 1

\* The first step is begun once the decision is found in the ledger, and each next
\* one once its predecessor is stored and recorded.
RoomEvidence ==
    /\ SucceededIsEvidenced
    /\ changing.kind = "publish" => Recorded("PUBLISHED", changing.run)
    /\ \A r \in Runs :
          /\ task[r].at \in {"prepare", "verify"} => task[r].step = 1
          /\ task[r].at \in Trying \ {"verify"} =>
                /\ Recorded("ACTION_REQUESTED", r) /\ Recorded("HUMAN_APPROVED", r)
                /\ \A i \in RunStep : i < task[r].step => <<"ACTION_EXECUTED", r, i>> \in evidence
          /\ task[r].at = "record" => outputs[r] = task[r].step
          /\ task[r].at = "finish" =>
                outputs[r] = Steps /\ \A i \in RunStep : <<"ACTION_EXECUTED", r, i>> \in evidence

RoomLaunches ==
    \A r \in Runs, i \in RunStep :
       <<r, i>> \in launched =>
          /\ status[r] \notin {"none", "pending"}
          /\ task[r].at \in Trying \cup {"prepare"} => i <= task[r].step
          /\ task[r].at \in {"prepare", "verify", "begin", "launch"} => i < task[r].step

\* A copy is the one that is published or being published, or was left by a failure.
RoomCopies ==
    \A r \in Runs :
       copies[r] <= failures + IF published[r] \/ changing = [kind |-> "publish", run |-> r] THEN 1 ELSE 0

RoomInv ==
    /\ RoomTypeOK /\ toggles \in Nat /\ failures \in Nat
    /\ RoomSlots /\ RoomStages /\ RoomEvidence /\ RoomLaunches /\ RoomCopies

-----------------------------------------------------------------------------
(* Types.                                                                    *)

LEMMA OneMore ==
    ASSUME NEW S, IsFiniteSet(S), NEW e, NEW n \in Nat, Cardinality(S) < n
    PROVE  IsFiniteSet(S \cup {e}) /\ Cardinality(S \cup {e}) <= n
  <1>1. Cardinality(S) \in Nat
    BY FS_CardinalityType
  <1>2. /\ IsFiniteSet(S \cup {e})
        /\ Cardinality(S \cup {e}) = IF e \in S THEN Cardinality(S) ELSE Cardinality(S) + 1
    BY FS_AddElement
  <1>3. Cardinality(S) + 1 <= n
    BY <1>1
  <1> QED BY <1>1, <1>2, <1>3

LEMMA OneLess ==
    ASSUME NEW S, IsFiniteSet(S), NEW e, NEW n \in Nat, Cardinality(S) <= n
    PROVE  IsFiniteSet(S \ {e}) /\ Cardinality(S \ {e}) <= n
  <1>1. Cardinality(S) \in Nat
    BY FS_CardinalityType
  <1> QED BY <1>1, FS_RemoveElement

LEMMA RoomInitInv == RoomInit => RoomInv
  <1> SUFFICES ASSUME RoomInit PROVE RoomInv
    OBVIOUS
  <1>1. RoomTypeOK /\ toggles \in Nat /\ failures \in Nat
    BY RoomAssumption DEF RoomInit, RoomTypeOK, Status, EventType, Place, Trying, RunStep, RoomChange, None
  <1>2. RoomSlots
    BY RoomAssumption, FS_EmptySet DEF RoomInit, RoomSlots, None
  <1>3. RoomStages /\ RoomEvidence /\ RoomLaunches
    BY DEF RoomInit, RoomStages, RoomEvidence, RoomLaunches, None, Trying, Settled, Status,
           RunningHasTask, SucceededIsEvidenced
  <1>4. RoomCopies
    BY DEF RoomInit, RoomCopies, None
  <1> QED BY <1>1, <1>2, <1>3, <1>4 DEF RoomInv

USE DEF stored, requests, tasks

LEMMA RoomRequestInv == ASSUME RoomInv, NEW r \in Runs, Request(r) PROVE RoomInv'
  <1>1. RoomTypeOK'
    BY DEF RoomInv, RoomTypeOK, Request, Status
  <1>2. RoomSlots'
    BY DEF RoomInv, RoomSlots, Request
  <1>3. RoomStages'
    BY DEF RoomInv, RoomStages, Request, Free, RoomTypeOK, None, RunningHasTask, Trying, Settled, Status
  <1>4. RoomEvidence'
    BY DEF RoomInv, RoomEvidence, Request, Free, RoomTypeOK, None, SucceededIsEvidenced, Recorded
  <1>5. RoomLaunches'
    BY DEF RoomInv, RoomLaunches, Request, Free, RoomTypeOK, RoomStages, Trying
  <1>6. RoomCopies'
    BY DEF RoomInv, RoomCopies, Request
  <1> QED BY <1>1, <1>2, <1>3, <1>4, <1>5, <1>6 DEF RoomInv, Request

LEMMA BeginDecisionInv == ASSUME RoomInv, NEW d \in reviews, BeginDecision(d) PROVE RoomInv'
  <1>0. d \in RoomChange /\ d.run \in Runs /\ d.kind \in {"approve", "reject"} /\ 0 \in 0..Steps
    BY RoomAssumption DEF RoomInv, RoomTypeOK, RoomChange
  <1>a. evidence' \subseteq EventType \X Runs \X (0..Steps)
    <2> DEFINE type == IF d.kind = "approve" THEN "HUMAN_APPROVED" ELSE "HUMAN_REJECTED"
    <2>1. type \in EventType
      BY DEF EventType
    <2>2. evidence' \subseteq evidence \cup {<<type, d.run, 0>>}
      BY DEF BeginDecision
    <2> QED BY <1>0, <2>1, <2>2 DEF RoomInv, RoomTypeOK
  <1>1. RoomTypeOK'
    <2>1. /\ changing' \in RoomChange /\ active' \subseteq Runs
          /\ aborted' \subseteq Runs /\ active \subseteq active'
      BY <1>0 DEF RoomInv, RoomTypeOK, BeginDecision
    <2> QED BY <1>a, <2>1 DEF RoomInv, RoomTypeOK, BeginDecision
  <1>2. RoomSlots'
    <2>1. \/ active' = active
          \/ active' = active \cup {d.run} /\ Cardinality(active) < MaxActive /\ changing' = d
      BY DEF BeginDecision, MayDecide
    <2>2. IsFiniteSet(active') /\ Cardinality(active') <= MaxActive
      <3>1. IsFiniteSet(active) /\ Cardinality(active) <= MaxActive /\ MaxActive \in Nat
        BY RoomAssumption DEF RoomInv, RoomSlots
      <3>2. PICK S : S = active
        OBVIOUS
      <3>3. Cardinality(S) < MaxActive =>
               IsFiniteSet(S \cup {d.run}) /\ Cardinality(S \cup {d.run}) <= MaxActive
        BY <3>1, <3>2, OneMore
      <3> QED BY <2>1, <3>1, <3>2, <3>3
    <2>3. changing'.kind = "approve" => changing'.run \in active'
      <3>1. CASE MayDecide(d)
        BY <3>1 DEF BeginDecision
      <3>2. CASE ~ MayDecide(d)
        BY <3>2 DEF BeginDecision, RoomInv, RoomSlots
      <3> QED BY <3>1, <3>2
    <2> QED BY <2>2, <2>3 DEF RoomSlots, BeginDecision, Free
  <1>3. RoomStages'
    BY DEF RoomInv, RoomStages, BeginDecision, Free, RoomTypeOK, None, RunningHasTask, Trying,
           Settled, Status, MayDecide
  <1>4. RoomEvidence'
    <2>1. evidence \subseteq evidence' /\ changing'.kind # "publish"
      BY <1>0 DEF BeginDecision, Free, None
    <2> QED BY <2>1 DEF RoomInv, RoomEvidence, BeginDecision, SucceededIsEvidenced, Recorded
  <1>5. RoomLaunches'
    BY DEF RoomInv, RoomLaunches, BeginDecision, Free, RoomTypeOK, RoomStages, Trying
  <1>6. RoomCopies'
    <2>1. \A r \in Runs : changing' # [kind |-> "publish", run |-> r]
      BY <1>0 DEF BeginDecision, Free, None
    <2> QED BY <2>1 DEF RoomInv, RoomCopies, BeginDecision, Free, None
  <1> QED BY <1>1, <1>2, <1>3, <1>4, <1>5, <1>6 DEF RoomInv, BeginDecision

LEMMA RecordRequestInv == ASSUME RoomInv, NEW r \in Runs, RecordRequest(r) PROVE RoomInv'
  BY RoomAssumption DEF RoomInv, RoomTypeOK, EventType, RoomSlots, RoomStages, RunningHasTask, RoomEvidence,
     SucceededIsEvidenced, Recorded, RoomLaunches, RoomCopies, RecordRequest

LEMMA ReviewInv ==
    ASSUME RoomInv, NEW r \in Runs, NEW kind \in {"approve", "reject"}, Review(r, kind)
    PROVE  RoomInv'
  BY DEF RoomInv, RoomTypeOK, RoomSlots, RoomStages, RunningHasTask, RoomEvidence,
     SucceededIsEvidenced, Recorded, RoomLaunches, RoomCopies, Review

LEMMA ReleaseInv == ASSUME RoomInv, NEW r \in Runs, Release(r) PROVE RoomInv'
  BY DEF RoomInv, RoomTypeOK, RoomSlots, RoomStages, RunningHasTask, RoomEvidence,
     SucceededIsEvidenced, Recorded, RoomLaunches, RoomCopies, Release

LEMMA CancelInv == ASSUME RoomInv, NEW r \in Runs, Cancel(r) PROVE RoomInv'
  BY DEF RoomInv, RoomTypeOK, RoomSlots, RoomStages, RunningHasTask, RoomEvidence, Free, None, Status, Settled,
     SucceededIsEvidenced, Recorded, RoomLaunches, RoomCopies, Cancel

LEMMA Moved ==
    ASSUME RoomTypeOK, NEW r \in Runs, NEW place \in Place, Go(r, place)
    PROVE  /\ task' \in [Runs -> [at : Place, step : RunStep]]
           /\ task'[r].at = place /\ task'[r].step = task[r].step
           /\ \A q \in Runs \ {r} : task'[q] = task[q]
  BY DEF RoomTypeOK, Go

LEMMA EndDecisionInv == ASSUME RoomInv, EndDecision PROVE RoomInv'
  <1> DEFINE r == changing.run
  <1>1. r \in Runs /\ status[r] = "pending" /\ task[r].at = "none"
    BY DEF RoomInv, RoomTypeOK, RoomChange, None, EndDecision, RoomStages
  <1>2. CASE changing.kind = "approve"
    <2>0. /\ status' = [status EXCEPT ![r] = "running"] /\ changing' = None
          /\ task' = [task EXCEPT ![r] = [at |-> "prepare", step |-> 1]] /\ up /\ up' = up
          /\ UNCHANGED <<authority, outputs, published, copies, evidence, asking, reviews, releases,
                         active, aborted, launched, toggles, failures>>
      BY <1>2 DEF EndDecision
    <2>1. /\ status' \in [Runs -> Status] /\ task' \in [Runs -> [at : Place, step : RunStep]]
          /\ task'[r].at = "prepare" /\ task'[r].step = 1 /\ status'[r] = "running"
          /\ \A q \in Runs \ {r} : task'[q] = task[q] /\ status'[q] = status[q]
      BY <2>0, <1>1, RoomAssumption DEF RoomInv, RoomTypeOK, Status, Place, RunStep
    <2>2. RoomTypeOK' /\ RoomSlots' /\ RoomCopies'
      BY <1>1, <1>2, <2>0, <2>1 DEF RoomInv, RoomTypeOK, RoomSlots, RoomCopies, RoomChange, None
    <2>3. RoomStages' /\ RoomLaunches'
      BY <1>1, <2>0, <2>1 DEF RoomInv, RoomStages, RunningHasTask, Trying, RoomLaunches, None
    <2>4. RoomEvidence'
      <3>1. \A i \in RunStep : ~ (i < 1)
        BY DEF RunStep
      <3> QED BY <2>0, <2>1, <3>1 DEF RoomInv, RoomEvidence, SucceededIsEvidenced, Recorded, Trying, None
    <2> QED BY <2>0, <2>2, <2>3, <2>4 DEF RoomInv
  <1>3. CASE changing.kind = "reject"
    <2>0. /\ status' = [status EXCEPT ![r] = "rejected"] /\ changing' = None
          /\ UNCHANGED <<task, up, authority, outputs, published, copies, evidence, asking, reviews,
                         releases, active, aborted, launched, toggles, failures>>
      BY <1>3 DEF EndDecision
    <2>1. /\ status' \in [Runs -> Status] /\ status'[r] = "rejected"
          /\ \A q \in Runs \ {r} : status'[q] = status[q]
      BY <2>0, <1>1 DEF RoomInv, RoomTypeOK, Status
    <2>2. RoomTypeOK' /\ RoomSlots' /\ RoomCopies'
      BY <1>1, <1>3, <2>0, <2>1 DEF RoomInv, RoomTypeOK, RoomSlots, RoomCopies, RoomChange, None
    <2>3. RoomStages' /\ RoomLaunches'
      BY <1>1, <2>0, <2>1 DEF RoomInv, RoomStages, RunningHasTask, Trying, RoomLaunches, None
    <2>4. RoomEvidence'
      BY <1>1, <2>0, <2>1 DEF RoomInv, RoomEvidence, SucceededIsEvidenced, Recorded, None
    <2> QED BY <2>0, <2>2, <2>3, <2>4 DEF RoomInv
  <1> QED BY <1>2, <1>3 DEF EndDecision

\* A step of a task that stores nothing, within execute or out of it to the handler.
LEMMA WithinInv ==
    ASSUME RoomInv, NEW r \in Runs, Prepare(r) \/ Verify(r) \/ Begin(r) \/ Return(r) \/ Judge(r),
           UNCHANGED <<up, authority, requests, toggles, failures>>
    PROVE  RoomInv'
  <1>0. PICK place \in {"verify", "begin", "launch", "judge", "save", "fail"} :
          /\ Only(r, place)
          /\ task[r].at \in Trying \cup {"prepare"}
          /\ place = "verify" => task[r].at = "prepare"
          /\ place = "begin" => /\ task[r].at = "verify"
                                /\ Recorded("ACTION_REQUESTED", r) /\ Recorded("HUMAN_APPROVED", r)
          /\ place = "launch" => task[r].at = "begin"
          /\ place \in {"judge", "save"} => task[r].at \in {"executing", "judge"}
    BY DEF Prepare, Verify, Begin, Return, Judge, At, Trying
  <1>1. place \in Place /\ Go(r, place) /\ UNCHANGED <<stored, active, aborted, launched>>
    BY <1>0 DEF Place, Trying, Only
  <1>2. /\ task' \in [Runs -> [at : Place, step : RunStep]]
        /\ task'[r].at = place /\ task'[r].step = task[r].step
        /\ \A q \in Runs \ {r} : task'[q] = task[q]
    BY <1>1, Moved DEF RoomInv
  <1>3. RoomTypeOK' /\ RoomSlots' /\ RoomCopies'
    BY <1>0, <1>1, <1>2 DEF RoomInv, RoomTypeOK, RoomSlots, RoomCopies, Trying
  <1>4. RoomStages'
    BY <1>0, <1>1, <1>2 DEF RoomInv, RoomStages, RunningHasTask, Trying
  <1>5. RoomLaunches'
    BY <1>0, <1>1, <1>2 DEF RoomInv, RoomLaunches, Trying
  <1>6. RoomEvidence'
    <2>1. \A i \in RunStep : ~ (i < 1)
      BY DEF RunStep
    <2> QED BY <1>0, <1>1, <1>2, <2>1 DEF RoomInv, RoomEvidence, SucceededIsEvidenced, Recorded, Trying
  <1> QED BY <1>1, <1>3, <1>4, <1>5, <1>6 DEF RoomInv

LEMMA LaunchInv ==
    ASSUME RoomInv, NEW r \in Runs, Launch(r), UNCHANGED <<up, authority, requests, toggles, failures>>
    PROVE  RoomInv'
  <1>1. /\ task[r].at = "launch" /\ launched' = launched \cup {<<r, task[r].step>>}
        /\ "executing" \in Place /\ Go(r, "executing") /\ UNCHANGED <<stored, active, aborted>>
    BY DEF Launch, At, Place, Trying
  <1>2. /\ task' \in [Runs -> [at : Place, step : RunStep]]
        /\ task'[r].at = "executing" /\ task'[r].step = task[r].step
        /\ \A q \in Runs \ {r} : task'[q] = task[q]
    BY <1>1, Moved DEF RoomInv
  <1>3. RoomTypeOK' /\ RoomSlots' /\ RoomCopies'
    BY <1>1, <1>2 DEF RoomInv, RoomTypeOK, RoomSlots, RoomCopies
  <1>4. RoomStages'
    BY <1>1, <1>2 DEF RoomInv, RoomStages, RunningHasTask, Trying
  <1>5. RoomLaunches'
    BY <1>1, <1>2 DEF RoomInv, RoomStages, RoomLaunches, Trying, RunStep, RoomTypeOK
  <1>6. RoomEvidence'
    BY <1>1, <1>2 DEF RoomInv, RoomEvidence, SucceededIsEvidenced, Recorded, Trying
  <1> QED BY <1>1, <1>3, <1>4, <1>5, <1>6 DEF RoomInv

LEMMA SaveInv ==
    ASSUME RoomInv, NEW r \in Runs, Save(r), UNCHANGED <<up, authority, requests, toggles, failures>>
    PROVE  RoomInv'
  <1>1. /\ task[r].at = "save" /\ outputs' = [outputs EXCEPT ![r] = task[r].step]
        /\ "record" \in Place /\ Go(r, "record")
        /\ UNCHANGED <<status, published, copies, evidence, active, aborted, launched>>
    BY DEF Save, At, Place, Trying
  <1>2. /\ task' \in [Runs -> [at : Place, step : RunStep]]
        /\ task'[r].at = "record" /\ task'[r].step = task[r].step
        /\ \A q \in Runs \ {r} : task'[q] = task[q]
    BY <1>1, Moved DEF RoomInv
  <1>3. /\ outputs' \in [Runs -> 0..Steps] /\ outputs'[r] = task[r].step
        /\ \A q \in Runs \ {r} : outputs'[q] = outputs[q]
    BY <1>1, RoomAssumption DEF RoomInv, RoomTypeOK, RunStep
  <1>4. RoomTypeOK' /\ RoomSlots' /\ RoomCopies'
    BY <1>1, <1>2, <1>3 DEF RoomInv, RoomTypeOK, RoomSlots, RoomCopies
  <1>5. RoomStages' /\ RoomLaunches'
    BY <1>1, <1>2 DEF RoomInv, RoomStages, RunningHasTask, RoomLaunches, Trying
  <1>6. RoomEvidence'
    BY <1>1, <1>2, <1>3 DEF RoomInv, RoomStages, RoomEvidence, SucceededIsEvidenced, Recorded, Trying
  <1> QED BY <1>1, <1>4, <1>5, <1>6 DEF RoomInv

LEMMA RoomRecordInv ==
    ASSUME RoomInv, NEW r \in Runs, RecordStep(r), UNCHANGED <<up, authority, requests, toggles, failures>>
    PROVE  RoomInv'
  <1> DEFINE step == task[r].step
  <1>1. /\ task[r].at = "record" /\ evidence' = evidence \cup {<<"ACTION_EXECUTED", r, step>>}
        /\ UNCHANGED <<status, outputs, published, copies, active, aborted, launched>>
        /\ step \in RunStep /\ step \in 0..Steps /\ step \in Nat /\ Steps \in Nat
    BY RoomAssumption DEF RecordStep, At, RoomInv, RoomTypeOK, RunStep
  <1>2. /\ task' \in [Runs -> [at : Place, step : RunStep]]
        /\ \/ step < Steps /\ task'[r].at = "begin" /\ task'[r].step = step + 1
           \/ step = Steps /\ task'[r].at = "finish" /\ task'[r].step = step
        /\ \A q \in Runs \ {r} : task'[q] = task[q]
    <2>1. task' = [task EXCEPT ![r] = IF step < Steps THEN [at |-> "begin", step |-> step + 1]
                                      ELSE [at |-> "finish", step |-> step]]
      BY DEF RecordStep
    <2>2. step < Steps => step + 1 \in RunStep
      BY <1>1 DEF RunStep
    <2>3. task \in [Runs -> [at : Place, step : RunStep]] /\ {"begin", "finish"} \subseteq Place
      BY DEF RoomInv, RoomTypeOK, Place, Trying
    <2>4. step < Steps \/ step = Steps
      BY <1>1 DEF RunStep
    <2> QED BY <1>1, <2>1, <2>2, <2>3, <2>4
  <1>3. evidence' \subseteq EventType \X Runs \X (0..Steps)
    BY <1>1 DEF RoomInv, RoomTypeOK, EventType
  <1>4. RoomTypeOK' /\ RoomSlots' /\ RoomCopies'
    BY <1>1, <1>2, <1>3 DEF RoomInv, RoomTypeOK, RoomSlots, RoomCopies
  <1>5. RoomStages'
    BY <1>1, <1>2 DEF RoomInv, RoomStages, RunningHasTask, Trying
  <1>6. RoomLaunches'
    BY <1>1, <1>2 DEF RoomInv, RoomLaunches, Trying, RunStep
  <1>7. RoomEvidence'
    <2>1. \A i \in RunStep : i < step + 1 <=> i < step \/ i = step
      BY <1>1 DEF RunStep
    <2>2. \A i \in RunStep : i < Steps \/ i = Steps
      BY <1>1 DEF RunStep
    <2> QED BY <1>1, <1>2, <2>1, <2>2 DEF RoomInv, RoomEvidence, SucceededIsEvidenced, Recorded, Trying
  <1> QED BY <1>1, <1>4, <1>5, <1>6, <1>7 DEF RoomInv

LEMMA FinishInv ==
    ASSUME RoomInv, NEW r \in Runs, Finish(r), UNCHANGED <<up, authority, requests, toggles, failures>>
    PROVE  RoomInv'
  <1>1. /\ task[r].at = "finish" /\ changing = None
        /\ status' = [status EXCEPT ![r] = IF status[r] = "running" THEN "succeeded" ELSE status[r]]
        /\ "trace" \in Place /\ Go(r, "trace")
        /\ UNCHANGED <<outputs, published, copies, evidence, active, aborted, launched>>
    BY DEF Finish, At, Place
  <1>2. /\ task' \in [Runs -> [at : Place, step : RunStep]]
        /\ task'[r].at = "trace" /\ task'[r].step = task[r].step
        /\ \A q \in Runs \ {r} : task'[q] = task[q]
    BY <1>1, Moved DEF RoomInv
  <1>3. /\ status' \in [Runs -> Status] /\ status'[r] \in {"succeeded", "cancelled"}
        /\ \A q \in Runs \ {r} : status'[q] = status[q]
    BY <1>1 DEF RoomInv, RoomTypeOK, RoomStages, Status, Trying
  <1>4. RoomTypeOK' /\ RoomSlots' /\ RoomCopies'
    BY <1>1, <1>2, <1>3 DEF RoomInv, RoomTypeOK, RoomSlots, RoomCopies
  <1>5. RoomStages'
    BY <1>1, <1>2, <1>3 DEF RoomInv, RoomStages, RunningHasTask, Trying, None, Settled, Status
  <1>6. RoomLaunches'
    BY <1>1, <1>2, <1>3 DEF RoomInv, RoomLaunches, Trying
  <1>7. RoomEvidence'
    BY <1>1, <1>2, <1>3 DEF RoomInv, RoomEvidence, SucceededIsEvidenced, Recorded, Trying
  <1> QED BY <1>1, <1>4, <1>5, <1>6, <1>7 DEF RoomInv

LEMMA FailRunInv ==
    ASSUME RoomInv, NEW r \in Runs, FailRun(r), UNCHANGED <<up, authority, requests, toggles, failures>>
    PROVE  RoomInv'
  <1> DEFINE s == IF status[r] = "cancelled" \/ r \in aborted THEN "cancelled" ELSE "failed"
  <1>1. /\ task[r].at = "fail" /\ changing = None /\ status' = [status EXCEPT ![r] = s]
        /\ "record-failure" \in Place /\ Go(r, "record-failure")
        /\ UNCHANGED <<outputs, published, copies, evidence, active, aborted, launched>>
    BY DEF FailRun, At, Place
  <1>2. /\ task' \in [Runs -> [at : Place, step : RunStep]]
        /\ task'[r].at = "record-failure" /\ task'[r].step = task[r].step
        /\ \A q \in Runs \ {r} : task'[q] = task[q]
    BY <1>1, Moved DEF RoomInv
  <1>3. /\ status' \in [Runs -> Status] /\ status'[r] \in {"failed", "cancelled"}
        /\ \A q \in Runs \ {r} : status'[q] = status[q]
    BY <1>1 DEF RoomInv, RoomTypeOK, Status
  <1>4. RoomTypeOK' /\ RoomSlots' /\ RoomCopies'
    BY <1>1, <1>2, <1>3 DEF RoomInv, RoomTypeOK, RoomSlots, RoomCopies
  <1>5. RoomStages'
    BY <1>1, <1>2, <1>3 DEF RoomInv, RoomStages, RunningHasTask, Trying, None, Settled, Status
  <1>6. RoomLaunches'
    BY <1>1, <1>2, <1>3 DEF RoomInv, RoomLaunches, Trying
  <1>7. RoomEvidence'
    BY <1>1, <1>2, <1>3 DEF RoomInv, RoomEvidence, SucceededIsEvidenced, Recorded, Trying
  <1> QED BY <1>1, <1>4, <1>5, <1>6, <1>7 DEF RoomInv

LEMMA RecordFailureInv ==
    ASSUME RoomInv, NEW r \in Runs, RecordFailure(r), UNCHANGED <<up, authority, requests, toggles, failures>>
    PROVE  RoomInv'
  <1>1. /\ task[r].at = "record-failure"
        /\ evidence' = evidence \cup {<<"RUNTIME_EXECUTION_FAILED", r, 0>>}
        /\ "trace" \in Place /\ Go(r, "trace")
        /\ UNCHANGED <<status, outputs, published, copies, active, aborted, launched>>
    BY DEF RecordFailure, At, Place
  <1>2. /\ task' \in [Runs -> [at : Place, step : RunStep]]
        /\ task'[r].at = "trace" /\ task'[r].step = task[r].step
        /\ \A q \in Runs \ {r} : task'[q] = task[q]
    BY <1>1, Moved DEF RoomInv
  <1>3. evidence' \subseteq EventType \X Runs \X (0..Steps)
    BY <1>1, RoomAssumption DEF RoomInv, RoomTypeOK, EventType
  <1>4. RoomTypeOK' /\ RoomSlots' /\ RoomCopies'
    BY <1>1, <1>2, <1>3 DEF RoomInv, RoomTypeOK, RoomSlots, RoomCopies
  <1>5. RoomStages' /\ RoomLaunches'
    BY <1>1, <1>2 DEF RoomInv, RoomStages, RunningHasTask, RoomLaunches, Trying
  <1>6. RoomEvidence'
    BY <1>1, <1>2 DEF RoomInv, RoomEvidence, SucceededIsEvidenced, Recorded, Trying
  <1> QED BY <1>1, <1>4, <1>5, <1>6 DEF RoomInv

\* A task that ends gives its slot back; its run is settled, or this is a second failure.
LEMMA EndTaskInv ==
    ASSUME RoomInv, NEW r \in Runs, EndTask(r),
           status' = status \/ (status' = [status EXCEPT ![r] = "failed"] /\ task[r].at = "last-resort"),
           failures' \in Nat, failures <= failures', status'[r] \in Settled \/ failures' >= 2,
           task[r].at # "none",
           UNCHANGED <<up, authority, outputs, published, copies, evidence, requests, aborted, toggles>>
    PROVE  RoomInv'
  <1>1. "none" \in Place /\ Go(r, "none") /\ active' = active \ {r} /\ launched' = launched
    BY DEF EndTask, Place
  <1>2. /\ task' \in [Runs -> [at : Place, step : RunStep]]
        /\ task'[r].at = "none" /\ task'[r].step = task[r].step
        /\ \A q \in Runs \ {r} : task'[q] = task[q]
    BY <1>1, Moved DEF RoomInv
  <1>3. /\ status' \in [Runs -> Status] /\ \A q \in Runs \ {r} : status'[q] = status[q]
        /\ status'[r] = status[r] \/ status'[r] = "failed"
    BY DEF RoomInv, RoomTypeOK, Status
  <1>a. changing.kind \in {"approve", "reject"} => changing.run \in Runs \ {r}
    BY DEF RoomInv, RoomTypeOK, RoomStages, RoomChange, None
  <1>4. RoomTypeOK'
    BY <1>1, <1>2, <1>3 DEF RoomInv, RoomTypeOK
  <1>5. RoomSlots'
    <2>1. IsFiniteSet(active') /\ Cardinality(active') <= MaxActive
      BY <1>1, OneLess, RoomAssumption DEF RoomInv, RoomSlots
    <2> QED BY <1>1, <1>2, <1>a, <2>1 DEF RoomInv, RoomSlots, None
  <1>6. RoomStages'
    <2>1. RunningHasTask'
      BY <1>2, <1>3 DEF RoomInv, RoomStages, RunningHasTask, Settled
    <2> QED BY <1>2, <1>3, <1>a, <2>1 DEF RoomInv, RoomStages, Trying
  <1>7. RoomLaunches' /\ RoomCopies'
    BY <1>1, <1>2, <1>3 DEF RoomInv, RoomLaunches, RoomCopies, RoomStages, Trying, RoomTypeOK
  <1>8. RoomEvidence'
    BY <1>1, <1>2, <1>3 DEF RoomInv, RoomEvidence, SucceededIsEvidenced, Recorded, Trying
  <1> QED BY <1>1, <1>4, <1>5, <1>6, <1>7, <1>8 DEF RoomInv

LEMMA TraceInv ==
    ASSUME RoomInv, NEW r \in Runs, Trace(r), UNCHANGED <<up, authority, requests, toggles, failures>>
    PROVE  RoomInv'
  <1>1. /\ task[r].at \in {"trace", "trace-again"} /\ EndTask(r)
        /\ UNCHANGED <<status, outputs, published, copies, evidence, aborted>>
    BY DEF Trace, At
  <1>2. status'[r] \in Settled /\ failures' \in Nat /\ failures <= failures' /\ task[r].at # "none"
    BY <1>1 DEF RoomInv, RoomStages
  <1> QED BY <1>1, <1>2, EndTaskInv

LEMMA LastResortInv ==
    ASSUME RoomInv, NEW r \in Runs, LastResort(r), UNCHANGED <<up, authority, requests, toggles, failures>>
    PROVE  RoomInv'
  <1>1. /\ task[r].at = "last-resort" /\ EndTask(r) /\ status' = [status EXCEPT ![r] = "failed"]
        /\ UNCHANGED <<outputs, published, copies, evidence, aborted>>
    BY DEF LastResort, At
  <1>2. status'[r] \in Settled /\ failures' \in Nat /\ failures <= failures' /\ task[r].at # "none"
    BY <1>1 DEF RoomInv, RoomTypeOK, Settled, Status
  <1> QED BY <1>1, <1>2, EndTaskInv

LEMMA AdvanceInv == ASSUME RoomInv, NEW r \in Runs, AdvanceRun(r) PROVE RoomInv'
  BY WithinInv, LaunchInv, SaveInv, RoomRecordInv, FinishInv, FailRunInv, RecordFailureInv,
     TraceInv, LastResortInv
  DEF AdvanceRun

LEMMA BeginPublicationInv == ASSUME RoomInv, NEW r \in Runs, BeginPublication(r) PROVE RoomInv'
  <1>1. CASE ~ MayPublish(r)
    <2>1. /\ releases' \subseteq releases
          /\ UNCHANGED <<up, authority, stored, asking, reviews, changing, tasks, toggles, failures>>
      BY <1>1 DEF BeginPublication
    <2> QED BY <2>1 DEF RoomInv, RoomTypeOK, RoomSlots, RoomStages, RunningHasTask, RoomEvidence,
               SucceededIsEvidenced, Recorded, RoomLaunches, RoomCopies
  <1>2. CASE MayPublish(r)
    <2>1. /\ up /\ up' = up /\ changing = None /\ releases' \subseteq releases
          /\ changing' = [kind |-> "publish", run |-> r] /\ copies' = [copies EXCEPT ![r] = @ + 1]
          /\ evidence' = evidence \cup {<<"PUBLISHED", r, 0>>} /\ ~ published[r]
          /\ UNCHANGED <<authority, status, outputs, published, asking, reviews, tasks, toggles, failures>>
      BY <1>2 DEF BeginPublication, Free, MayPublish
    <2>2. /\ copies' \in [Runs -> Nat]
          /\ copies'[r] = copies[r] + 1 /\ \A q \in Runs \ {r} : copies'[q] = copies[q]
      BY <2>1 DEF RoomInv, RoomTypeOK
    <2>3. changing' \in RoomChange /\ changing'.kind = "publish" /\ changing'.run = r
      BY <2>1 DEF RoomChange
    <2>4. evidence' \subseteq EventType \X Runs \X (0..Steps)
      BY <2>1, RoomAssumption DEF RoomInv, RoomTypeOK, EventType
    <2>5. RoomTypeOK' /\ RoomSlots'
      BY <2>1, <2>2, <2>3, <2>4 DEF RoomInv, RoomTypeOK, RoomSlots
    <2>6. RoomStages' /\ RoomLaunches'
      BY <2>1, <2>3 DEF RoomInv, RoomStages, RunningHasTask, RoomLaunches
    <2>7. RoomEvidence'
      BY <2>1, <2>3 DEF RoomInv, RoomEvidence, SucceededIsEvidenced, Recorded
    <2>8. RoomCopies'
      <3>1. ASSUME NEW q \in Runs PROVE changing # [kind |-> "publish", run |-> q]
        BY <2>1 DEF None
      <3>2. copies[r] <= failures /\ copies[r] \in Nat /\ failures \in Nat
        BY <2>1, <3>1 DEF RoomInv, RoomCopies, RoomTypeOK
      <3> QED BY <2>1, <2>2, <3>1, <3>2 DEF RoomInv, RoomCopies
    <2> QED BY <2>1, <2>5, <2>6, <2>7, <2>8 DEF RoomInv
  <1> QED BY <1>1, <1>2

LEMMA EndPublicationInv == ASSUME RoomInv, EndPublication PROVE RoomInv'
  <1> DEFINE r == changing.run
  <1>1. /\ up /\ up' = up /\ changing' = None /\ published' = [published EXCEPT ![r] = TRUE]
        /\ changing.kind = "publish"
        /\ UNCHANGED <<authority, status, outputs, copies, evidence, asking, reviews, releases,
                       tasks, toggles, failures>>
    BY DEF EndPublication
  <1>2. r \in Runs /\ changing = [kind |-> "publish", run |-> r] /\ changing' \in RoomChange
    BY <1>1 DEF RoomInv, RoomTypeOK, RoomChange, None
  <1>3. /\ published' \in [Runs -> BOOLEAN] /\ published'[r]
        /\ \A q \in Runs \ {r} : published'[q] = published[q]
    BY <1>1, <1>2 DEF RoomInv, RoomTypeOK
  <1>4. RoomTypeOK' /\ RoomSlots'
    BY <1>1, <1>2, <1>3 DEF RoomInv, RoomTypeOK, RoomSlots, None
  <1>5. RoomStages' /\ RoomLaunches'
    BY <1>1 DEF RoomInv, RoomStages, RunningHasTask, RoomLaunches, None
  <1>6. RoomEvidence'
    BY <1>1, <1>2, <1>3 DEF RoomInv, RoomEvidence, SucceededIsEvidenced, Recorded, None
  <1>7. RoomCopies'
    <2>1. ASSUME NEW q \in Runs \ {r}
          PROVE  changing # [kind |-> "publish", run |-> q] /\ changing' # [kind |-> "publish", run |-> q]
      BY <1>1, <1>2 DEF None
    <2>2. copies[r] <= failures + 1 /\ copies[r] \in Nat
      BY <1>2 DEF RoomInv, RoomCopies, RoomTypeOK
    <2> QED BY <1>1, <1>2, <1>3, <2>1, <2>2 DEF RoomInv, RoomCopies
  <1> QED BY <1>1, <1>4, <1>5, <1>6, <1>7 DEF RoomInv

LEMMA FailTaskInv ==
    ASSUME RoomInv, NEW r \in Runs, FailTask(r), up, failures' = failures + 1,
           UNCHANGED <<up, authority, toggles>>
    PROVE  RoomInv'
  <1>1. /\ task[r].at \in Place \ {"none", "executing"}
        /\ UNCHANGED <<status, outputs, published, copies, evidence, requests, aborted>>
        /\ failures \in Nat /\ failures' \in Nat /\ failures <= failures'
    BY DEF FailTask, RoomInv, RoomTypeOK
  <1>2. CASE task[r].at = "last-resort"
    <2>1. EndTask(r) /\ failures' >= 2
      BY <1>1, <1>2 DEF FailTask, RoomInv, RoomStages
    <2> QED BY <1>1, <1>2, <2>1, EndTaskInv
  <1>3. CASE task[r].at # "last-resort"
    <2> DEFINE place == Handler(task[r].at)
    <2>1. place \in Place /\ Go(r, place) /\ UNCHANGED <<active, launched>>
      BY <1>3 DEF FailTask, Handler, Place
    <2>2. \/ place = "fail" /\ task[r].at \in Trying
          \/ place = "trace-again" /\ task[r].at = "trace"
          \/ place = "last-resort"
      BY DEF Handler
    <2>3. /\ task' \in [Runs -> [at : Place, step : RunStep]]
          /\ task'[r].at = place /\ task'[r].step = task[r].step
          /\ \A q \in Runs \ {r} : task'[q] = task[q]
      BY <2>1, Moved DEF RoomInv
    <2> HIDE DEF place
    <2>4. RoomTypeOK' /\ RoomSlots' /\ RoomCopies'
      BY <1>1, <2>1, <2>3 DEF RoomInv, RoomTypeOK, RoomSlots, RoomCopies
    <2>5. RoomStages'
      BY <1>1, <2>1, <2>2, <2>3 DEF RoomInv, RoomStages, RunningHasTask, Trying
    <2>6. RoomLaunches'
      BY <1>1, <2>1, <2>2, <2>3 DEF RoomInv, RoomLaunches, Trying
    <2>7. RoomEvidence'
      BY <1>1, <2>1, <2>2, <2>3 DEF RoomInv, RoomEvidence, SucceededIsEvidenced, Recorded, Trying
    <2> QED BY <1>1, <2>4, <2>5, <2>6, <2>7 DEF RoomInv
  <1> QED BY <1>2, <1>3

LEMMA FailRequestInv ==
    ASSUME RoomInv, FailRequest, up, failures' = failures + 1,
           UNCHANGED <<up, authority, toggles>>
    PROVE  RoomInv'
  <1>1. /\ UNCHANGED <<status, outputs, published, evidence, reviews, active, aborted, task, launched>>
        /\ failures \in Nat /\ failures' \in Nat
        /\ changing' = changing \/ changing' = None
        /\ asking' \subseteq asking /\ releases' \subseteq releases
    BY DEF FailRequest, RoomInv
  <1>2. copies' \in [Runs -> Nat] /\ \A r \in Runs : copies'[r] <= failures' + IF published[r] THEN 1 ELSE 0
    <2>1. CASE copies' = copies
      <3>1. \A r \in Runs : copies[r] <= failures + 1 /\ copies[r] \in Nat /\ (copies[r] <= failures' \/ published[r])
        BY <1>1 DEF RoomInv, RoomCopies, RoomTypeOK
      <3> QED BY <1>1, <2>1, <3>1 DEF RoomInv, RoomTypeOK
    <2>2. CASE copies' # copies
      <3>1. PICK r \in releases : changing = None /\ MayPublish(r) /\ copies' = [copies EXCEPT ![r] = @ + 1]
        BY <2>2 DEF FailRequest
      <3>2. \A q \in Runs : changing # [kind |-> "publish", run |-> q]
        BY <3>1 DEF None
      <3>3. \A q \in Runs : copies[q] \in Nat /\ copies[q] <= failures + IF published[q] THEN 1 ELSE 0
        BY <3>2 DEF RoomInv, RoomCopies, RoomTypeOK
      <3>4. r \in Runs /\ ~ published[r]
        BY <3>1 DEF RoomInv, RoomTypeOK, MayPublish
      <3> QED BY <1>1, <3>1, <3>3, <3>4 DEF RoomInv, RoomTypeOK
    <2> QED BY <2>1, <2>2
  <1>3. RoomTypeOK' /\ RoomSlots' /\ RoomStages'
    BY <1>1, <1>2 DEF RoomInv, RoomTypeOK, RoomSlots, RoomStages, RunningHasTask, RoomChange, None
  <1>4. RoomEvidence' /\ RoomLaunches'
    BY <1>1 DEF RoomInv, RoomEvidence, SucceededIsEvidenced, Recorded, RoomLaunches, None
  <1>5. RoomCopies'
    BY <1>1, <1>2 DEF RoomCopies, RoomInv, RoomTypeOK
  <1> QED BY <1>1, <1>3, <1>4, <1>5 DEF RoomInv

LEMMA CrashInv == ASSUME RoomInv, Crash PROVE RoomInv'
  <1>1. RoomTypeOK'
    <2>1. task' \in [Runs -> [at : Place, step : RunStep]] /\ \A r \in Runs : task'[r].at = "none"
      BY RoomAssumption DEF Crash, Place, RunStep
    <2>2. changing' \in RoomChange
      BY DEF Crash, RoomChange
    <2> QED BY <2>1, <2>2 DEF RoomInv, RoomTypeOK, Crash
  <1>2. RoomSlots' /\ RoomStages'
    BY FS_EmptySet, RoomAssumption DEF RoomInv, RoomSlots, RoomStages, RunningHasTask, Crash, None, Trying
  <1>3. RoomEvidence'
    BY DEF RoomInv, RoomEvidence, SucceededIsEvidenced, Recorded, Crash, None, Trying
  <1>4. RoomLaunches'
    BY DEF RoomInv, RoomLaunches, Crash, Trying
  <1>5. RoomCopies'
    BY DEF RoomInv, RoomCopies, RoomTypeOK, Crash, None
  <1> QED BY <1>1, <1>2, <1>3, <1>4, <1>5 DEF RoomInv, Crash

LEMMA InitializeInv == ASSUME RoomInv, InitializeRooms PROVE RoomInv'
  <1>1. /\ changing = None /\ \A r \in Runs : task[r].at = "none"
        /\ up' \in BOOLEAN
        /\ UNCHANGED <<authority, outputs, published, copies, evidence, requests, tasks, toggles, failures>>
    BY DEF RoomInv, RoomSlots, InitializeRooms
  <1>a. /\ status' \in [Runs -> Status]
        /\ \A r \in Runs : /\ status'[r] = status[r] \/ (status'[r] = "interrupted" /\ status[r] = "running")
                           /\ status'[r] # "running"
    BY DEF RoomInv, RoomTypeOK, InitializeRooms, Status
  <1>2. RoomTypeOK' /\ RoomSlots' /\ RoomStages'
    BY <1>1, <1>a DEF RoomInv, RoomTypeOK, RoomSlots, RoomStages, RunningHasTask, None, Trying
  <1>3. RoomEvidence' /\ RoomLaunches' /\ RoomCopies'
    BY <1>1, <1>a DEF RoomInv, RoomEvidence, SucceededIsEvidenced, Recorded, RoomLaunches, RoomCopies, Trying
  <1> QED BY <1>1, <1>2, <1>3 DEF RoomInv

LEMMA RoomStepInv == RoomInv /\ [RoomNext]_roomVars => RoomInv'
  <1> SUFFICES ASSUME RoomInv, [RoomNext]_roomVars PROVE RoomInv'
    OBVIOUS
  <1>1. ASSUME NEW r \in Runs, Monitor(r), UNCHANGED <<up, authority, requests, toggles, failures>>
        PROVE  RoomInv'
    BY <1>1 DEF Monitor, RoomInv, RoomTypeOK, RoomSlots, RoomStages, RunningHasTask, RoomEvidence,
       SucceededIsEvidenced, Recorded, RoomLaunches, RoomCopies
  <1>2. CASE FailRooms
    BY <1>2, FailTaskInv, FailRequestInv DEF FailRooms
  <1>3. CASE Shutdown
    BY <1>3 DEF Shutdown, RoomInv, RoomTypeOK, RoomSlots, RoomStages, RunningHasTask, RoomEvidence,
       SucceededIsEvidenced, Recorded, RoomLaunches, RoomCopies
  <1>4. CASE Toggle
    BY <1>4 DEF Toggle, RoomInv, RoomTypeOK, RoomSlots, RoomStages, RunningHasTask, RoomEvidence,
       SucceededIsEvidenced, Recorded, RoomLaunches, RoomCopies
  <1>5. CASE UNCHANGED roomVars
    BY <1>5 DEF roomVars, RoomInv, RoomTypeOK, RoomSlots, RoomStages, RunningHasTask, RoomEvidence,
       SucceededIsEvidenced, Recorded, RoomLaunches, RoomCopies
  <1> QED BY <1>1, <1>2, <1>3, <1>4, <1>5, RoomRequestInv, RecordRequestInv, CancelInv, ReviewInv, ReleaseInv,
             BeginPublicationInv, AdvanceInv, BeginDecisionInv, EndDecisionInv, EndPublicationInv,
             CrashInv, InitializeInv
          DEF RoomNext

-----------------------------------------------------------------------------
(* What a step does to an outcome and to the CLI of a step.                  *)

LEMMA OutcomeStep ==
    ASSUME RoomInv, [RoomNext]_roomVars, NEW r \in Runs, status[r] \in Settled, status'[r] # status[r]
    PROVE  task[r].at = "last-resort" /\ status'[r] = "failed"
  <1>0. status \in [Runs -> Status] /\ status[r] \notin {"none", "pending", "running"}
    BY DEF RoomInv, RoomTypeOK, Settled
  <1>1. ASSUME NEW q \in Runs, Request(q) \/ Cancel(q) PROVE FALSE
    BY <1>0, <1>1 DEF Request, Cancel
  <1>2. CASE EndDecision
    <2>1. changing.run # r
      BY <1>0, <1>2 DEF EndDecision, RoomInv, RoomStages
    <2> QED BY <1>0, <1>2, <2>1 DEF EndDecision, RoomInv, RoomTypeOK, RoomChange, None
  <1>3. ASSUME NEW q \in Runs, AdvanceRun(q) PROVE task[r].at = "last-resort" /\ status'[r] = "failed"
    <2>1. CASE Finish(q)
      BY <1>0, <2>1 DEF Finish
    <2>2. CASE FailRun(q)
      <3>1. task[q].at = "fail" => status[q] \in {"running", "cancelled"}
        BY DEF RoomInv, RoomStages, Trying
      <3> QED BY <1>0, <2>2, <3>1 DEF FailRun, At
    <2>3. CASE LastResort(q)
      BY <1>0, <2>3 DEF LastResort, At
    <2> QED BY <1>3, <2>1, <2>2, <2>3
            DEF AdvanceRun, Prepare, Verify, Begin, Launch, Return, Judge, Save, RecordStep,
                RecordFailure, Trace, Only
  <1>4. CASE InitializeRooms
    BY <1>0, <1>4 DEF InitializeRooms
  <1>5. ASSUME status' = status PROVE FALSE
    BY <1>5
  <1> QED BY <1>1, <1>2, <1>3, <1>4, <1>5
          DEF RoomNext, roomVars, RecordRequest, Review, Release, BeginPublication, Monitor, BeginDecision,
              EndPublication, FailRooms, FailRequest, FailTask, Shutdown, Crash, Toggle

LEMMA LaunchStep ==
    ASSUME RoomInv, [RoomNext]_roomVars, NEW r \in Runs, task[r].at # "executing", task'[r].at = "executing"
    PROVE  <<r, task[r].step>> \notin launched
  <1>0. task \in [Runs -> [at : Place, step : RunStep]] /\ task'[r] # task[r]
    BY DEF RoomInv, RoomTypeOK
  <1>1. CASE EndDecision
    BY <1>0, <1>1 DEF EndDecision
  <1>2. ASSUME NEW q \in Runs, AdvanceRun(q) PROVE <<r, task[r].step>> \notin launched
    <2>1. CASE Launch(q)
      <3>1. q = r /\ task[r].at = "launch"
        BY <1>0, <2>1 DEF Launch, At, Go
      <3> QED BY <1>0, <3>1 DEF RoomInv, RoomLaunches, RunStep
    <2>2. CASE RecordStep(q)
      BY <1>0, <2>2 DEF RecordStep
    <2>3. ASSUME NEW place \in Place \ {"executing"}, Go(q, place) PROVE FALSE
      BY <1>0, <2>3 DEF Go
    <2> QED BY <1>2, <2>1, <2>2, <2>3
            DEF AdvanceRun, Prepare, Verify, Begin, Return, Judge, Save, Finish, FailRun, RecordFailure,
                Trace, LastResort, EndTask, Only, Place, Trying
  <1>3. ASSUME NEW q \in Runs, FailTask(q) PROVE FALSE
    <2>1. PICK place \in Place \ {"executing"} : Go(q, place)
      BY <1>3 DEF FailTask, EndTask, Handler, Place
    <2> QED BY <1>0, <2>1 DEF Go
  <1>4. CASE Crash
    BY <1>4 DEF Crash
  <1> QED BY <1>0, <1>1, <1>2, <1>3, <1>4
          DEF RoomNext, roomVars, Request, RecordRequest, Cancel, Review, Release, BeginPublication, Monitor,
              BeginDecision, EndPublication, FailRooms, FailRequest, Shutdown, InitializeRooms, Toggle

-----------------------------------------------------------------------------
(* The theorems.                                                             *)

\* The places of the tasks, the outcomes, the ledger and the copies go together in
\* every state of RoomRuntime.
THEOREM RoomCorrect == RoomSpec => []RoomInv
  <1> QED BY RoomInitInv, RoomStepInv, PTL DEF RoomSpec

\* The slots bound the tasks for any MaxActive, and up to the second failure a run that
\* is stored as running has the task that will settle it.
THEOREM SlotsHold == RoomSpec => []SlotsInv
  <1>1. RoomInv => SlotsInv
    <2> SUFFICES ASSUME RoomInv PROVE BoundedRuns
      BY DEF RoomInv, RoomStages, SlotsInv
    <2> DEFINE busy == {r \in Runs : task[r].at # "none"}
    <2>1. busy \subseteq active
      BY DEF RoomInv, RoomTypeOK
    <2>2. Cardinality(busy) <= Cardinality(active) /\ IsFiniteSet(busy)
      BY <2>1, FS_Subset DEF RoomInv, RoomSlots
    <2>3. Cardinality(busy) \in Nat /\ Cardinality(active) \in Nat /\ Cardinality(active) <= MaxActive
      BY <2>2, FS_CardinalityType DEF RoomInv, RoomSlots
    <2> QED BY <2>2, <2>3, RoomAssumption DEF BoundedRuns
  <1> QED BY <1>1, RoomCorrect, PTL

\* What is stored as succeeded was requested, approved and executed step by step in the
\* ledger, and what is stored as published was released there, for any number of steps.
THEOREM SucceededHold == RoomSpec => []SucceededIsEvidenced
  <1>1. RoomInv => SucceededIsEvidenced
    BY DEF RoomInv, RoomEvidence
  <1> QED BY <1>1, RoomCorrect, PTL

\* However many reviewers publish a run, every copy of it but one is left by a failure.
THEOREM PublishedOnceHolds == RoomSpec => []PublishedOnce
  <1>1. RoomInv => PublishedOnce
    <2> SUFFICES ASSUME RoomInv, NEW r \in Runs PROVE copies[r] <= 1 + failures
      BY DEF PublishedOnce
    <2>1. copies[r] \in Nat /\ failures \in Nat
      BY DEF RoomInv, RoomTypeOK
    <2> QED BY <2>1 DEF RoomInv, RoomCopies
  <1> QED BY <1>1, RoomCorrect, PTL

\* A settled run keeps its outcome unless the last resort of its task turns it into a
\* failure, and the CLI of a step is launched once: a restart replays nothing.
THEOREM OutcomeStaysHolds == RoomSpec => OutcomeStays
  <1>1. RoomInv /\ [RoomNext]_roomVars =>
          \A r \in Runs :
             /\ status[r] \in Settled /\ status'[r] # status[r] =>
                   task[r].at = "last-resort" /\ status'[r] = "failed"
             /\ task[r].at # "executing" /\ task'[r].at = "executing" =>
                   <<r, task[r].step>> \notin launched
    BY OutcomeStep, LaunchStep
  <1> QED BY <1>1, RoomCorrect, PTL DEF RoomSpec, OutcomeStays
==============================================================================
