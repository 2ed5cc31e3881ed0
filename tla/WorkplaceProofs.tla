------------------------- MODULE WorkplaceProofs -------------------------
(***************************************************************************)
(* Proofs about Workplace, for any agents, newcomers and bounds: sessions  *)
(* follow their passports, the floor shows the passports, and no           *)
(* assignment or response is lost, however the operations of the three     *)
(* services interleave, fail and are cut short, but where one of them      *)
(* wrote over another.                                                     *)
(***************************************************************************)
EXTENDS Workplace, TLAPS, SequenceTheorems

-----------------------------------------------------------------------------
(* The inductive invariant.                                                 *)

Board == [Agents -> Row]
Works == {w \in Seq(Item) : Len(w) <= MaxItems}
FleetWrite == [kind : {"fleet"}, from : Board, to : Board]
WorkWrite == [kind : {"work"}, from : Works, to : Works]
Shows == {"show-new", "show-lifecycle", "show-runtime", "show-attested"}

IdentityStep ==
    [kind : {"v1", "v2"}, about : Agents, status : Lifecycle \ {"none"}]
    \cup [kind : {"runtime"}, about : Agents, status : BOOLEAN]
    \cup [kind : {"session"}, about : Agents, status : Session]
    \cup [kind : Shows, about : Agents]
    \cup FleetWrite
MandateStep ==
    [kind : {"issue", "show-mandate"}, about : Agents]
    \cup [kind : {"revoke", "contain"}, about : Nat \ {0}]
    \cup FleetWrite \cup WorkWrite
CollaborationStep ==
    [kind : {"queued"}] \cup [kind : {"response"}, about : 1..MaxItems]
    \cup FleetWrite \cup WorkWrite

FloorTypes ==
    /\ TypeOK /\ Len(work) <= MaxItems
    /\ op["identity"] \in Seq(IdentityStep)
    /\ op["mandates"] \in Seq(MandateStep)
    /\ op["collaboration"] \in Seq(CollaborationStep)

Elements(list) == {list[i] : i \in DOMAIN list}
Owes(s) == Elements(op[s])
Issued(a, m) == m \in DOMAIN mandates /\ mandates[m].agent = a
RevokedOf(a) == \E m \in DOMAIN mandates : mandates[m] = [agent |-> a, status |-> "revoked"]
Revocation == \E m \in DOMAIN mandates : mandates[m].status = "revoked"

\* What a record of an agent will be when the operation of the identities is done.
Now(kind, a) == CASE kind = "v1" -> passport[a].v1
                  [] kind = "v2" -> passport[a].v2
                  [] kind = "runtime" -> runtime[a]
                  [] OTHER -> session[a]
Owed(kind, a) == \E x \in Owes("identity") : x.kind = kind /\ x.about = a
Becomes(kind, a, v) ==
    /\ \A x \in Owes("identity") : x.kind = kind /\ x.about = a => x.status = v
    /\ Now(kind, a) = v \/ Owed(kind, a)
Showing(a) == Owed("show-new", a) \/ Owed("show-lifecycle", a)

\* A passport of the first version is written first, and is shown after that.
Front == \A i \in DOMAIN op["identity"] : op["identity"][i].kind \in {"v1", "fleet"} => i = 1
Told == \A x \in Owes("identity") : x.kind = "v1" => Showing(x.about)

\* The records that the operation will leave agree.
Agreed(a, p, q, r, s) ==
    /\ Becomes("v1", a, p) /\ Becomes("v2", a, q) /\ Becomes("runtime", a, r) /\ Becomes("session", a, s)
    /\ q # "none" => q = p
    /\ s = "ready" => q = "active" /\ r
    /\ Owed("show-attested", a) => p = "active"
    /\ Showing(a) => p # "none"
Follow ==
    faults = 0 => \A a \in Agents :
        \E p \in Lifecycle, q \in Lifecycle, r \in BOOLEAN, s \in Session : Agreed(a, p, q, r, s)

\* What the row of an agent on the floor shows is right; a write leaves it as it is.
Right(a, f) ==
    /\ f[a] = Absent <=> passport[a].v1 = "none"
    /\ passport[a].v1 = "revoked" => f[a].status = "offline" \/ RevokedOf(a)
Keeps(a, f, t) ==
    /\ t[a] = Absent <=> f[a] = Absent
    /\ f[a].status = "offline" => t[a].status = "offline" \/ RevokedOf(a)
KeepsRevoked(a, f, t) ==
    /\ t[a] = Absent <=> f[a] = Absent
    /\ passport[a].v1 = "revoked" /\ f[a].status = "offline" => t[a].status = "offline"
ShownRight ==
    faults = 0 => \A x \in Owes("identity") : x.kind = "fleet" =>
        \A a \in Agents : Right(a, x.to) \/ KeepsRevoked(a, x.from, x.to)

IdentitySound == Front /\ Told /\ Follow /\ ShownRight

\* What a step of the mandates relies on.
MandateSound(i, x) ==
    /\ x.kind \in {"issue", "revoke"} => i = 1
    /\ x.kind = "revoke" => x.about \in DOMAIN mandates
    /\ x.kind = "show-mandate" =>
          \/ i = 1 /\ Issued(x.about, Len(mandates))
          \/ i = 2 /\ op["mandates"][1].kind = "issue" /\ op["mandates"][1].about = x.about
    /\ x.kind = "contain" =>
          /\ x.about \in DOMAIN mandates /\ i = Len(op["mandates"])
          /\ \/ i = 1 /\ mandates[x.about].status = "revoked"
             \/ i = 2 /\ op["mandates"][1].kind = "revoke" /\ op["mandates"][1].about = x.about
    /\ x.kind = "work" =>
          /\ Revocation /\ Len(x.to) = Len(x.from)
          /\ \A j \in DOMAIN x.to : /\ x.to[j].responses = x.from[j].responses
                                    /\ x.to[j].responses <= responses[j]
MandatesSound == \A i \in DOMAIN op["mandates"] : MandateSound(i, op["mandates"][i])

\* What the floor shows, and what the services are about to make of it.
KeepsFloor ==
    \A s \in {"mandates", "collaboration"} : \A x \in Owes(s) :
        x.kind = "fleet" => \A a \in Agents : Keeps(a, x.from, x.to)
Owned(f) == \A a \in Agents : f[a].mandate = 0 \/ Issued(a, f[a].mandate)
Ownership == Owned(fleet) /\ \A s \in Services : \A x \in Owes(s) : x.kind = "fleet" => Owned(x.to)
RowSound(a) ==
    IF Showing(a) THEN Owed("show-lifecycle", a) => fleet[a] # Absent
    ELSE Right(a, fleet) \/ \E x \in Owes("identity") : x.kind = "fleet" /\ Right(a, x.to)
Rows == faults = 0 => \A a \in Agents \ overlapped.rows : RowSound(a)

FloorSound == KeepsFloor /\ Ownership /\ Rows

\* What a step of the collaboration relies on: how many responses the log has, and how
\* many assignments.
Logging(j) ==
    /\ op["collaboration"] # <<>>
    /\ op["collaboration"][1].kind = "response" /\ op["collaboration"][1].about = j
Next1(kind) == op["collaboration"] # <<>> /\ op["collaboration"][1].kind = kind
Queueing == \E x \in Owes("collaboration") : x.kind = "queued"
OneIf(b) == IF b THEN 1 ELSE 0
Shape ==
    /\ Len(op["collaboration"]) <= 2
    /\ \A i \in DOMAIN op["collaboration"] :
          LET x == op["collaboration"][i]
          IN /\ x.kind = "queued" => i = Len(op["collaboration"]) /\ (i = 2 => Next1("work"))
             /\ x.kind = "response" =>
                   i = 1 /\ Len(op["collaboration"]) = 2 /\ op["collaboration"][2].kind = "work"
             /\ \A j \in DOMAIN op["collaboration"] :
                   x.kind = "work" /\ op["collaboration"][j].kind = "work" => i = j
Logged ==
    /\ \A j \in DOMAIN work : work[j].responses <= responses[j]
    /\ \A x \in Owes("collaboration") : x.kind = "work" =>
          \A j \in DOMAIN x.to : x.to[j].responses <= responses[j] + OneIf(Logging(j))
Fresh ==
    /\ overlapped.work => Revocation
    /\ \A x \in Owes("collaboration") : x.kind = "work" => x.from = work \/ Revocation
Counted ==
    faults = 0 /\ ~ overlapped.work =>
        /\ Len(work) = queued + OneIf(Next1("queued"))
        /\ \A j \in 1..MaxItems : j > Len(work) => responses[j] = 0
        /\ \A j \in DOMAIN work : work[j].responses = responses[j] \/ Next1("work")
        /\ \A x \in Owes("collaboration") :
              /\ x.kind = "work" =>
                    /\ Len(x.to) = queued + OneIf(Queueing)
                    /\ \A j \in DOMAIN x.to : x.to[j].responses = responses[j] + OneIf(Logging(j))
              /\ x.kind = "response" => x.about <= Len(work)

CollaborationSound == Shape /\ Logged /\ Fresh /\ Counted

FloorInv == FloorTypes /\ IdentitySound /\ MandatesSound /\ FloorSound /\ CollaborationSound

-----------------------------------------------------------------------------
(* Lists of steps.                                                          *)

LEMMA Behead ==
    ASSUME NEW S, NEW list \in Seq(S), list # <<>>
    PROVE  /\ Tail(list) \in Seq(S) /\ Head(list) = list[1] /\ list[1] \in S /\ 1 \in DOMAIN list
           /\ Len(Tail(list)) = Len(list) - 1 /\ Len(list) \in Nat \ {0}
           /\ \A i \in DOMAIN Tail(list) : i \in Nat \ {0} /\ i + 1 \in DOMAIN list /\ Tail(list)[i] = list[i + 1]
           /\ Elements(Tail(list)) \subseteq Elements(list)
           /\ list[1] \in Elements(list)
           /\ \A x \in Elements(list) : x = list[1] \/ x \in Elements(Tail(list))
  <1>1. /\ Tail(list) \in Seq(S) /\ Head(list) = list[1] /\ list[1] \in S /\ 1 \in DOMAIN list
        /\ Len(Tail(list)) = Len(list) - 1 /\ Len(list) \in Nat \ {0}
        /\ DOMAIN list = 1..Len(list) /\ DOMAIN Tail(list) = 1..(Len(list) - 1)
        /\ \A i \in 1..(Len(list) - 1) : Tail(list)[i] = list[i + 1]
    OBVIOUS
  <1>2. \A i \in DOMAIN Tail(list) : i \in Nat \ {0} /\ i + 1 \in DOMAIN list /\ Tail(list)[i] = list[i + 1]
    BY <1>1
  <1>3. Elements(Tail(list)) \subseteq Elements(list) /\ list[1] \in Elements(list)
    BY <1>1, <1>2 DEF Elements
  <1>4. ASSUME NEW x \in Elements(list) PROVE x = list[1] \/ x \in Elements(Tail(list))
    <2>1. PICK i \in 1..Len(list) : x = list[i]
      BY <1>1 DEF Elements
    <2>2. CASE i # 1
      <3>1. i - 1 \in 1..(Len(list) - 1) /\ Tail(list)[i - 1] = list[(i - 1) + 1]
        BY <1>1, <2>1, <2>2
      <3>2. Tail(list)[i - 1] = x
        BY <2>1, <3>1
      <3> QED BY <1>1, <3>1, <3>2 DEF Elements
    <2> QED BY <2>1, <2>2
  <1> QED BY <1>1, <1>2, <1>3, <1>4

LEMMA InList ==
    ASSUME NEW S, NEW list \in Seq(S), NEW i \in DOMAIN list
    PROVE  list[i] \in S /\ i \in Nat \ {0} /\ i <= Len(list)
  OBVIOUS

LEMMA Joined ==
    ASSUME NEW S, NEW u \in Seq(S), NEW w \in Seq(S)
    PROVE  /\ u \o w \in Seq(S) /\ Len(u \o w) = Len(u) + Len(w)
           /\ \A i \in 1..Len(u) : (u \o w)[i] = u[i]
           /\ \A i \in 1..Len(w) : (u \o w)[Len(u) + i] = w[i]
           /\ Elements(u \o w) = Elements(u) \cup Elements(w)
  <1>1. /\ u \o w \in Seq(S) /\ Len(u \o w) = Len(u) + Len(w) /\ Len(u) \in Nat /\ Len(w) \in Nat
        /\ DOMAIN (u \o w) = 1..(Len(u) + Len(w)) /\ DOMAIN u = 1..Len(u) /\ DOMAIN w = 1..Len(w)
        /\ \A i \in 1..Len(u) : (u \o w)[i] = u[i]
    OBVIOUS
  <1>2. ASSUME NEW i \in 1..Len(w) PROVE (u \o w)[Len(u) + i] = w[i]
    <2>1. Len(u) + i \in 1..(Len(u) + Len(w)) /\ ~ (Len(u) + i <= Len(u)) /\ (Len(u) + i) - Len(u) = i
      BY <1>1
    <2> QED BY <1>1, <2>1
  <1>3. ASSUME NEW x \in Elements(u \o w) PROVE x \in Elements(u) \cup Elements(w)
    <2>1. PICK i \in 1..(Len(u) + Len(w)) : x = (u \o w)[i]
      BY <1>1 DEF Elements
    <2>2. CASE i <= Len(u)
      BY <1>1, <2>1, <2>2 DEF Elements
    <2>3. CASE ~ (i <= Len(u))
      <3>1. i - Len(u) \in 1..Len(w) /\ i = Len(u) + (i - Len(u))
        BY <1>1, <2>1, <2>3
      <3>2. PICK k \in 1..Len(w) : i = Len(u) + k
        BY <3>1
      <3>3. x = w[k]
        BY <1>2, <2>1, <3>2
      <3> QED BY <1>1, <3>3 DEF Elements
    <2> QED BY <2>2, <2>3
  <1>4. ASSUME NEW i \in DOMAIN u PROVE u[i] \in Elements(u \o w)
    <2>1. i \in 1..(Len(u) + Len(w))
      BY <1>1
    <2> QED BY <1>1, <2>1 DEF Elements
  <1>5. ASSUME NEW i \in DOMAIN w PROVE w[i] \in Elements(u \o w)
    <2>1. Len(u) + i \in 1..(Len(u) + Len(w))
      BY <1>1
    <2> QED BY <1>1, <1>2, <2>1 DEF Elements
  <1> QED BY <1>1, <1>2, <1>3, <1>4, <1>5 DEF Elements

LEMMA JoinedList ==
    ASSUME NEW S, NEW u \in Seq(S), NEW w \in Seq(S)
    PROVE  u \o w \in Seq(S) /\ Elements(u \o w) = Elements(u) \cup Elements(w)
  <1>1. /\ u \o w \in Seq(S)
        /\ Elements(u \o w) = Elements(u) \cup Elements(w)
    BY Joined
  <1> QED BY <1>1

LEMMA Single ==
    ASSUME NEW S, NEW x \in S
    PROVE  <<x>> \in Seq(S) /\ Len(<<x>>) = 1 /\ <<x>>[1] = x /\ Elements(<<x>>) = {x}
  BY DEF Elements

LEMMA Empty ==
    ASSUME NEW S
    PROVE  <<>> \in Seq(S) /\ Len(<<>>) = 0 /\ Elements(<<>>) = {}
  BY DEF Elements

\* A step before others.
LEMMA Before ==
    ASSUME NEW S, NEW x \in S, NEW list \in Seq(S)
    PROVE  /\ <<x>> \o list \in Seq(S) /\ (<<x>> \o list)[1] = x
           /\ Len(<<x>> \o list) = Len(list) + 1
           /\ \A i \in DOMAIN (<<x>> \o list) :
                 i \in Nat /\ (i = 1 \/ (i - 1 \in DOMAIN list /\ (<<x>> \o list)[i] = list[i - 1]))
           /\ Elements(<<x>> \o list) = {x} \cup Elements(list)
  <1>1. PICK u \in Seq(S) : u = <<x>> /\ Len(u) = 1 /\ u[1] = x /\ Elements(u) = {x}
    BY Single
  <1>2. /\ u \o list \in Seq(S) /\ Len(u \o list) = Len(u) + Len(list)
        /\ \A i \in 1..Len(u) : (u \o list)[i] = u[i]
        /\ \A i \in 1..Len(list) : (u \o list)[Len(u) + i] = list[i]
        /\ Elements(u \o list) = Elements(u) \cup Elements(list)
    BY Joined
  <1>3. ASSUME NEW i \in DOMAIN (u \o list)
        PROVE  i \in Nat /\ (i = 1 \/ (i - 1 \in DOMAIN list /\ (u \o list)[i] = list[i - 1]))
    <2>1. i \in 1..(1 + Len(list)) /\ DOMAIN list = 1..Len(list) /\ Len(list) \in Nat
      BY <1>1, <1>2
    <2>2. CASE i # 1
      <3>1. i - 1 \in 1..Len(list) /\ i = Len(u) + (i - 1)
        BY <1>1, <2>1, <2>2
      <3> QED BY <1>2, <2>1, <3>1
    <2> QED BY <2>1, <2>2
  <1> QED BY <1>1, <1>2, <1>3

LEMMA IdentityKinds ==
    ASSUME NEW x \in IdentityStep
    PROVE  /\ x.kind \in {"v1", "v2", "runtime", "session", "fleet"} \cup Shows
           /\ x.kind # "fleet" => x.about \in Agents
           /\ x.kind \in {"v1", "v2"} => x.status \in Lifecycle \ {"none"}
           /\ x.kind = "runtime" => x.status \in BOOLEAN
           /\ x.kind = "session" => x.status \in Session
           /\ x.kind = "fleet" => x.from \in Board /\ x.to \in Board
  BY DEF IdentityStep, FleetWrite, Shows

LEMMA MandateKinds ==
    ASSUME NEW x \in MandateStep
    PROVE  /\ x.kind \in {"issue", "show-mandate", "revoke", "contain", "fleet", "work"}
           /\ x.kind \in {"issue", "show-mandate"} => x.about \in Agents
           /\ x.kind \in {"revoke", "contain"} => x.about \in Nat \ {0}
           /\ x.kind = "fleet" => x.from \in Board /\ x.to \in Board
           /\ x.kind = "work" => x.from \in Works /\ x.to \in Works
  BY DEF MandateStep, FleetWrite, WorkWrite

LEMMA CollaborationKinds ==
    ASSUME NEW x \in CollaborationStep
    PROVE  /\ x.kind \in {"queued", "response", "fleet", "work"}
           /\ x.kind = "response" => x.about \in 1..MaxItems
           /\ x.kind = "fleet" => x.from \in Board /\ x.to \in Board
           /\ x.kind = "work" => x.from \in Works /\ x.to \in Works
  BY DEF CollaborationStep, FleetWrite, WorkWrite

LEMMA RowFacts ==
    ASSUME NEW r \in Row
    PROVE  r.mandate \in Nat /\ (r = Absent <=> r.status = "absent") /\ (r = Absent => r.mandate = 0)
  BY DEF Row, Absent

LEMMA RowStatus ==
    ASSUME NEW r \in Row, r # Absent,
           NEW status \in {"ready", "working", "approval-required", "blocked", "offline"},
           NEW w, w = [r EXCEPT !.status = status]
    PROVE  w \in Row /\ w # Absent /\ w.status = status /\ w.mandate = r.mandate
  BY DEF Row, Absent

LEMMA RowMandate ==
    ASSUME NEW r \in Row, r # Absent, NEW m \in Nat, NEW w, w = [r EXCEPT !.mandate = m]
    PROVE  w \in Row /\ w # Absent /\ w.status = r.status /\ w.mandate = m
  BY DEF Row, Absent

\* The writes of a service, of the types of the floor.
LEMMA FleetWrites ==
    ASSUME NEW to \in Board, fleet \in Board
    PROVE  /\ WriteFleet(to) \in IdentityStep /\ WriteFleet(to) \in MandateStep
           /\ WriteFleet(to) \in CollaborationStep
           /\ WriteFleet(to).kind = "fleet" /\ WriteFleet(to).from = fleet /\ WriteFleet(to).to = to
  BY DEF WriteFleet, IdentityStep, MandateStep, CollaborationStep, FleetWrite

LEMMA WorkWrites ==
    ASSUME NEW to \in Works, work \in Works
    PROVE  /\ WriteWork(to) \in MandateStep /\ WriteWork(to) \in CollaborationStep
           /\ WriteWork(to).kind = "work" /\ WriteWork(to).from = work /\ WriteWork(to).to = to
  BY DEF WriteWork, MandateStep, CollaborationStep, WorkWrite

LEMMA FloorTyped ==
    ASSUME FloorTypes
    PROVE  /\ fleet \in Board /\ work \in Works /\ DOMAIN work = 1..Len(work) /\ Len(work) \in 0..MaxItems
           /\ \A i \in DOMAIN work : i \in 1..MaxItems /\ work[i] \in Item
           /\ \A a \in Agents : fleet[a] \in Row
           /\ \A m \in DOMAIN mandates : /\ m \in Nat \ {0}
                                         /\ mandates[m] \in [agent : Agents, status : {"active", "revoked"}]
  <1>1. /\ fleet \in [Agents -> Row] /\ work \in Seq(Item) /\ Len(work) <= MaxItems
        /\ mandates \in Seq([agent : Agents, status : {"active", "revoked"}])
    BY DEF FloorTypes, TypeOK
  <1>2. MaxItems \in Nat
    BY BoundsAssumption
  <1>3. fleet \in Board /\ work \in Works /\ \A a \in Agents : fleet[a] \in Row
    BY <1>1 DEF Board, Works
  <1>4. DOMAIN work = 1..Len(work) /\ Len(work) \in 0..MaxItems
    BY <1>1, <1>2
  <1>5. \A i \in DOMAIN work : i \in 1..MaxItems /\ work[i] \in Item
    BY <1>1, <1>2, <1>4
  <1>6. ASSUME NEW m \in DOMAIN mandates
        PROVE  m \in Nat \ {0} /\ mandates[m] \in [agent : Agents, status : {"active", "revoked"}]
    BY <1>1, InList
  <1> QED BY <1>3, <1>4, <1>5, <1>6

LEMMA Starts ==
    ASSUME FloorTypes, NEW s \in Services, NEW list, Start(s, list)
    PROVE  /\ op[s] = <<>> /\ op'[s] = list /\ DOMAIN op' = Services
           /\ \A t \in Services : t # s => op'[t] = op[t]
           /\ ops' \in Nat
           /\ UNCHANGED <<fleet, work, passport, runtime, session, mandates, queued, responses, faults, overlapped>>
  BY DEF FloorTypes, TypeOK, Start, records

\* An operation takes the head of its list away.
LEMMA Takes ==
    ASSUME FloorTypes, NEW s \in Services, op[s] # <<>>, op' = [op EXCEPT ![s] = Tail(@)]
    PROVE  /\ op'[s] = Tail(op[s]) /\ DOMAIN op' = Services
           /\ \A t \in Services : t # s => op'[t] = op[t]
  BY DEF FloorTypes, TypeOK

LEMMA ListsTyped ==
    ASSUME FloorTypes, NEW s \in Services
    PROVE  /\ s = "identity" => op[s] \in Seq(IdentityStep)
           /\ s = "mandates" => op[s] \in Seq(MandateStep)
           /\ s = "collaboration" => op[s] \in Seq(CollaborationStep)
  BY DEF FloorTypes

\* What keeps the types, for a step of one service.
LEMMA TypesStay ==
    ASSUME FloorTypes, DOMAIN op' = Services,
           op'["identity"] \in Seq(IdentityStep), op'["mandates"] \in Seq(MandateStep),
           op'["collaboration"] \in Seq(CollaborationStep),
           fleet' \in Board, work' \in Works, ops' \in Nat, faults' \in Nat,
           overlapped' \in [rows : SUBSET Agents, work : BOOLEAN],
           UNCHANGED <<passport, runtime, session, mandates, queued, responses>>
    PROVE  FloorTypes'
  BY DEF FloorTypes, TypeOK, Board, Works

-----------------------------------------------------------------------------
(* What a step of the others leaves as it is.                               *)

\* Mandates are issued and revoked, and nothing else becomes of them.
Grows == \A m \in DOMAIN mandates :
            /\ m \in DOMAIN mandates' /\ mandates'[m].agent = mandates[m].agent
            /\ mandates[m].status = "revoked" => mandates'[m] = mandates[m]

LEMMA GrownFacts ==
    ASSUME Grows
    PROVE  /\ \A a : RevokedOf(a) => RevokedOf(a)'
           /\ Revocation => Revocation'
           /\ \A a, m : Issued(a, m) => Issued(a, m)'
           /\ \A f : Owned(f) => \A a \in Agents : f[a].mandate = 0 \/ Issued(a, f[a].mandate)'
  BY DEF Grows, RevokedOf, Revocation, Issued, Owned

LEMMA IdentityStays ==
    ASSUME IdentitySound, Grows, op'["identity"] = op["identity"],
           UNCHANGED <<passport, runtime, session>>, faults' = 0 => faults = 0
    PROVE  IdentitySound'
  <1>1. Owes("identity")' = Owes("identity")
    BY DEF Owes, Elements
  <1>2. \A k, a : Owed(k, a)' = Owed(k, a) /\ Now(k, a)' = Now(k, a)
    BY <1>1 DEF Owed, Now
  <1>3. \A a : Showing(a)' = Showing(a)
    BY <1>2 DEF Showing
  <1>4. \A k, a, v : Becomes(k, a, v) => Becomes(k, a, v)'
    BY <1>1, <1>2 DEF Becomes
  <1>5. Front' /\ Told'
    BY <1>1, <1>3 DEF IdentitySound, Front, Told
  <1>6. Follow'
    <2>1. \A a, p, q, r, s : Agreed(a, p, q, r, s) => Agreed(a, p, q, r, s)'
      BY <1>2, <1>3, <1>4 DEF Agreed
    <2> QED BY <2>1 DEF IdentitySound, Follow
  <1>7. ShownRight'
    <2>1. ASSUME NEW x, NEW a \in Agents, Right(a, x.to) PROVE Right(a, x.to)'
      BY <2>1, GrownFacts DEF Right
    <2>2. ASSUME NEW x, NEW a \in Agents, KeepsRevoked(a, x.from, x.to) PROVE KeepsRevoked(a, x.from, x.to)'
      BY <2>2 DEF KeepsRevoked
    <2> QED BY <1>1, <2>1, <2>2 DEF IdentitySound, ShownRight
  <1> QED BY <1>5, <1>6, <1>7 DEF IdentitySound

LEMMA MandatesStay ==
    ASSUME FloorTypes, MandatesSound, UNCHANGED mandates, op'["mandates"] = op["mandates"],
           responses' = responses \/ \E i \in 1..MaxItems : responses' = [responses EXCEPT ![i] = @ + 1]
    PROVE  MandatesSound'
  <1>1. \A j \in 1..MaxItems : responses[j] \in Nat /\ responses'[j] \in Nat /\ responses[j] <= responses'[j]
    <2>1. responses \in [1..MaxItems -> Nat]
      BY DEF FloorTypes, TypeOK
    <2>2. CASE responses' = responses
      BY <2>1, <2>2
    <2>3. ASSUME NEW i \in 1..MaxItems, responses' = [responses EXCEPT ![i] = @ + 1], NEW j \in 1..MaxItems
          PROVE  responses[j] \in Nat /\ responses'[j] \in Nat /\ responses[j] <= responses'[j]
      <3>1. responses'[j] = IF j = i THEN responses[j] + 1 ELSE responses[j]
        BY <2>1, <2>3
      <3>2. responses[j] \in Nat
        BY <2>1
      <3> QED BY <3>1, <3>2
    <2> QED BY <2>2, <2>3
  <1>2. ASSUME NEW i \in DOMAIN op["mandates"], NEW x \in MandateStep, x = op["mandates"][i]
        PROVE  MandateSound(i, x)'
    <2>1. MandateSound(i, x)
      BY <1>2 DEF MandatesSound
    <2>2. ASSUME x.kind = "work", NEW j \in DOMAIN x.to PROVE x.to[j].responses <= responses'[j]
      <3>1. x.to \in Works
        BY <2>2, MandateKinds
      <3>2. j \in 1..MaxItems /\ x.to[j] \in Item
        BY <2>2, <3>1, BoundsAssumption DEF Works
      <3>3. x.to[j].responses \in Nat /\ x.to[j].responses <= responses[j]
        BY <2>1, <2>2, <3>2 DEF Item, MandateSound
      <3> QED BY <1>1, <3>2, <3>3
    <2> QED BY <2>1, <2>2 DEF MandateSound, Issued, Revocation
  <1> QED
    <2>1. \A i \in DOMAIN op["mandates"] : op["mandates"][i] \in MandateStep
      BY DEF FloorTypes
    <2> QED BY <1>2, <2>1 DEF MandatesSound

LEMMA CollaborationStays ==
    ASSUME CollaborationSound, Grows, op'["collaboration"] = op["collaboration"],
           UNCHANGED <<work, queued, responses>>, faults' = 0 => faults = 0,
           overlapped'.work = overlapped.work
    PROVE  CollaborationSound'
  <1>1. Owes("collaboration")' = Owes("collaboration")
    BY DEF Owes, Elements
  <1>2. \A j, k : Logging(j)' = Logging(j) /\ Next1(k)' = Next1(k) /\ Queueing' = Queueing
    BY <1>1 DEF Logging, Next1, Queueing
  <1>3. Shape'
    BY <1>2 DEF CollaborationSound, Shape
  <1>4. Logged'
    BY <1>1, <1>2 DEF CollaborationSound, Logged
  <1>5. Fresh'
    BY <1>1, GrownFacts DEF CollaborationSound, Fresh
  <1>6. Counted'
    BY <1>1, <1>2 DEF CollaborationSound, Counted
  <1> QED BY <1>3, <1>4, <1>5, <1>6 DEF CollaborationSound

-----------------------------------------------------------------------------
(* An operation of the identities begins.                                   *)

Has(list, kind) == \E x \in Elements(list) : x.kind = kind
Leaves(list, kind, now, v) ==
    /\ \A x \in Elements(list) : x.kind = kind => x.status = v
    /\ now = v \/ Has(list, kind)
LeavesAgreed(list, a, p, q, r, s) ==
    /\ Leaves(list, "v1", passport[a].v1, p) /\ Leaves(list, "v2", passport[a].v2, q)
    /\ Leaves(list, "runtime", runtime[a], r) /\ Leaves(list, "session", session[a], s)
    /\ q # "none" => q = p
    /\ s = "ready" => q = "active" /\ r
    /\ Has(list, "show-attested") => p = "active"
    /\ Has(list, "show-new") \/ Has(list, "show-lifecycle") => p # "none"

\* Between operations the records agree, and no passport is to be shown.
LEMMA AtRest ==
    ASSUME IdentitySound, op["identity"] = <<>>
    PROVE  /\ Owes("identity") = {} /\ \A k, a : ~ Owed(k, a) /\ ~ Showing(a)
           /\ faults = 0 => \A a \in Agents :
                 /\ passport[a].v2 # "none" => passport[a].v2 = passport[a].v1
                 /\ session[a] = "ready" => passport[a].v2 = "active" /\ runtime[a]
  <1>1. Owes("identity") = {} /\ \A k, a : ~ Owed(k, a) /\ ~ Showing(a)
    BY Empty DEF Owes, Owed, Showing
  <1>2. ASSUME faults = 0, NEW a \in Agents
        PROVE  /\ passport[a].v2 # "none" => passport[a].v2 = passport[a].v1
               /\ session[a] = "ready" => passport[a].v2 = "active" /\ runtime[a]
    <2>1. PICK p \in Lifecycle, q \in Lifecycle, r \in BOOLEAN, s \in Session : Agreed(a, p, q, r, s)
      BY <1>2 DEF IdentitySound, Follow
    <2>2. passport[a].v1 = p /\ passport[a].v2 = q
      BY <1>1, <2>1 DEF Agreed, Becomes, Now
    <2>3. runtime[a] = r /\ session[a] = s
      BY <1>1, <2>1 DEF Agreed, Becomes, Now
    <2> QED BY <2>1, <2>2, <2>3 DEF Agreed
  <1> QED BY <1>1, <1>2

LEMMA OthersStay ==
    ASSUME FloorInv, \A s \in {"mandates", "collaboration"} : op'[s] = op[s],
           UNCHANGED <<work, mandates, queued, responses, faults>>,
           overlapped'.work = overlapped.work
    PROVE  Grows /\ MandatesSound' /\ CollaborationSound' /\ KeepsFloor'
  <1>1. Grows
    BY DEF Grows
  <1>2. MandatesSound' /\ CollaborationSound'
    BY <1>1, MandatesStay, CollaborationStays DEF FloorInv
  <1>3. KeepsFloor'
    <2>1. \A s \in {"mandates", "collaboration"} : Owes(s)' = Owes(s)
      BY DEF Owes, Elements
    <2>2. \A a, f, t : Keeps(a, f, t) => Keeps(a, f, t)'
      BY <1>1, GrownFacts DEF Keeps
    <2> QED BY <2>1, <2>2 DEF FloorInv, FloorSound, KeepsFloor
  <1> QED BY <1>1, <1>2, <1>3

LEMMA IdentityStarts ==
    ASSUME FloorInv, NEW list \in Seq(IdentityStep), Start("identity", list), NEW a \in Agents,
           \A x \in Elements(list) : x.kind # "fleet" /\ x.about = a,
           \A i \in DOMAIN list : list[i].kind = "v1" => i = 1,
           Has(list, "v1") => Has(list, "show-new") \/ Has(list, "show-lifecycle"),
           Has(list, "show-lifecycle") => passport[a].v1 # "none",
           faults = 0 => \E p \in Lifecycle, q \in Lifecycle, r \in BOOLEAN, s \in Session :
                            LeavesAgreed(list, a, p, q, r, s)
    PROVE  FloorInv'
  <1>1. "identity" \in Services /\ "mandates" \in Services /\ "collaboration" \in Services
    BY DEF Services
  <1>2. /\ op["identity"] = <<>> /\ op'["identity"] = list /\ DOMAIN op' = Services
        /\ \A t \in Services : t # "identity" => op'[t] = op[t]
        /\ ops' \in Nat
        /\ UNCHANGED <<fleet, work, passport, runtime, session, mandates, queued, responses, faults, overlapped>>
    BY <1>1, Starts DEF FloorInv
  <1>3. Grows /\ MandatesSound' /\ CollaborationSound' /\ KeepsFloor'
    BY <1>1, <1>2, OthersStay
  <1>4. FloorTypes'
    <2>1. /\ faults' \in Nat /\ overlapped' \in [rows : SUBSET Agents, work : BOOLEAN]
          /\ fleet' \in Board /\ work' \in Works
      BY <1>2, FloorTyped DEF FloorInv, FloorTypes, TypeOK
    <2> QED BY <1>1, <1>2, <2>1, TypesStay DEF FloorInv, FloorTypes
  <1>5. Owes("identity")' = Elements(list)
    BY <1>2 DEF Owes, Elements
  <1>6. \A k, b : Owed(k, b)' <=> b = a /\ Has(list, k)
    BY <1>5 DEF Owed, Has
  <1>7. \A b : Showing(b)' <=> b = a /\ (Has(list, "show-new") \/ Has(list, "show-lifecycle"))
    BY <1>6 DEF Showing
  <1>8. \A k, b : Now(k, b)' = Now(k, b)
    BY <1>2 DEF Now
  <1>9. Front' /\ Told'
    <2>1. ASSUME NEW i \in DOMAIN list, list[i].kind \in {"v1", "fleet"} PROVE i = 1
      BY <2>1 DEF Elements
    <2>2. ASSUME NEW x \in Elements(list), x.kind = "v1" PROVE Showing(x.about)'
      BY <1>7, <2>2 DEF Has
    <2> QED BY <1>2, <1>5, <2>1, <2>2 DEF Front, Told
  <1>10. Follow'
    <2> SUFFICES ASSUME faults = 0, NEW b \in Agents
                 PROVE  \E p \in Lifecycle, q \in Lifecycle, r \in BOOLEAN, s \in Session : Agreed(b, p, q, r, s)'
      BY <1>2 DEF Follow
    <2>1. CASE b = a
      <3>1. PICK p \in Lifecycle, q \in Lifecycle, r \in BOOLEAN, s \in Session : LeavesAgreed(list, a, p, q, r, s)
        OBVIOUS
      <3>2. \A k, v : Leaves(list, k, Now(k, a), v) => Becomes(k, b, v)'
        BY <1>5, <1>6, <1>8, <2>1 DEF Leaves, Becomes
      <3>3. Becomes("v1", b, p)' /\ Becomes("v2", b, q)'
        BY <3>1, <3>2 DEF LeavesAgreed, Now
      <3>4. Becomes("runtime", b, r)' /\ Becomes("session", b, s)'
        BY <3>1, <3>2 DEF LeavesAgreed, Now
      <3>5. Agreed(b, p, q, r, s)'
        BY <1>6, <1>7, <3>1, <3>3, <3>4 DEF Agreed, LeavesAgreed
      <3> QED BY <3>5
    <2>2. CASE b # a
      <3>1. PICK p \in Lifecycle, q \in Lifecycle, r \in BOOLEAN, s \in Session : Agreed(b, p, q, r, s)
        BY DEF FloorInv, IdentitySound, Follow
      <3>2. \A k, v : Becomes(k, b, v) => Becomes(k, b, v)'
        <4>1. \A k : ~ Owed(k, b)
          BY <1>2, AtRest DEF FloorInv
        <4> QED BY <1>5, <1>6, <1>8, <2>2, <4>1 DEF Becomes
      <3>3. Agreed(b, p, q, r, s)'
        BY <1>6, <1>7, <2>2, <3>1, <3>2 DEF Agreed
      <3> QED BY <3>3
    <2> QED BY <2>1, <2>2
  <1>11. ShownRight'
    BY <1>5 DEF ShownRight
  <1>12. Ownership'
    <2>1. Owned(fleet)' /\ \A f : Owned(f) => Owned(f)'
      BY <1>2 DEF FloorInv, FloorSound, Ownership, Owned, Issued
    <2>2. ASSUME NEW s \in Services, NEW x \in Owes(s)', x.kind = "fleet" PROVE Owned(x.to)'
      <3>1. s # "identity"
        BY <1>5, <2>2
      <3>2. x \in Owes(s)
        BY <1>2, <2>2, <3>1 DEF Owes, Elements
      <3> QED BY <2>1, <2>2, <3>2 DEF FloorInv, FloorSound, Ownership
    <2> QED BY <2>1, <2>2 DEF Ownership
  <1>13. Rows'
    <2> SUFFICES ASSUME faults = 0, NEW b \in Agents, b \notin overlapped.rows
                 PROVE  RowSound(b)'
      BY <1>2 DEF Rows
    <2>1. Right(b, fleet)
      BY <1>2, AtRest DEF FloorInv, FloorSound, Rows, RowSound
    <2>2. Right(b, fleet)'
      BY <1>2, <2>1 DEF Right, RevokedOf
    <2>3. Owed("show-lifecycle", b)' => fleet'[b] # Absent
      BY <1>2, <1>6, <2>1 DEF Right
    <2> QED BY <2>2, <2>3 DEF RowSound
  <1> QED BY <1>3, <1>4, <1>9, <1>10, <1>11, <1>12, <1>13 DEF FloorInv, IdentitySound, FloorSound

Led(list) == \A i \in DOMAIN list : list[i].kind = "v1" => i = 1

LEMMA LedJoined ==
    ASSUME NEW S, NEW u \in Seq(S), NEW w \in Seq(S), Led(u), ~ Has(w, "v1")
    PROVE  Led(u \o w)
  <1>1. /\ DOMAIN (u \o w) = 1..(Len(u) + Len(w)) /\ DOMAIN u = 1..Len(u) /\ DOMAIN w = 1..Len(w)
        /\ Len(u) \in Nat /\ Len(w) \in Nat
        /\ \A i \in 1..Len(u) : (u \o w)[i] = u[i]
        /\ \A i \in 1..Len(w) : (u \o w)[Len(u) + i] = w[i]
    BY Joined
  <1>2. ASSUME NEW i \in DOMAIN (u \o w), (u \o w)[i].kind = "v1" PROVE i = 1
    <2>1. CASE i <= Len(u)
      BY <1>1, <1>2, <2>1 DEF Led
    <2>2. CASE ~ (i <= Len(u))
      <3>1. PICK k \in 1..Len(w) : i = Len(u) + k
        <4>1. i - Len(u) \in 1..Len(w) /\ i = Len(u) + (i - Len(u))
          BY <1>1, <2>2
        <4> QED BY <4>1
      <3>2. w[k].kind = "v1" /\ w[k] \in Elements(w)
        BY <1>1, <1>2, <3>1 DEF Elements
      <3> QED BY <3>2 DEF Has
    <2> QED BY <2>1, <2>2
  <1> QED BY <1>2 DEF Led

LEMMA Appended ==
    ASSUME NEW S, NEW u \in Seq(S), NEW w \in Seq(S), Led(u), ~ Has(w, "v1")
    PROVE  /\ u \o w \in Seq(S) /\ Led(u \o w)
           /\ Elements(u \o w) = Elements(u) \cup Elements(w)
  BY Joined, LedJoined

LEMMA Pairs ==
    ASSUME NEW S, NEW x \in S, NEW y \in S
    PROVE  /\ <<x, y>> \in Seq(S) /\ Len(<<x, y>>) = 2 /\ DOMAIN <<x, y>> = {1, 2}
           /\ <<x, y>>[1] = x /\ <<x, y>>[2] = y
           /\ Elements(<<x, y>>) = {x, y} /\ <<x, y>> # <<>>
  <1>1. DOMAIN <<x, y>> = {1, 2}
    OBVIOUS
  <1> QED BY <1>1 DEF Elements

LEMMA Triples ==
    ASSUME NEW S, NEW x \in S, NEW y \in S, NEW z \in S
    PROVE  <<x, y, z>> \in Seq(S) /\ Elements(<<x, y, z>>) = {x, y, z}
  <1>1. DOMAIN <<x, y, z>> = {1, 2, 3}
    OBVIOUS
  <1> QED BY <1>1 DEF Elements

\* The steps of the identities, with their fields.
LEMMA Records ==
    ASSUME NEW a \in Agents
    PROVE  /\ \A v \in {"v1", "v2"}, status \in Lifecycle \ {"none"} :
                 LET x == SetPassport(a, v, status)
                 IN x \in IdentityStep /\ x.kind = v /\ x.about = a /\ x.status = status
           /\ \A c \in BOOLEAN :
                 LET x == SetRuntime(a, c)
                 IN x \in IdentityStep /\ x.kind = "runtime" /\ x.about = a /\ x.status = c
           /\ \A status \in Session :
                 LET x == SetSession(a, status)
                 IN x \in IdentityStep /\ x.kind = "session" /\ x.about = a /\ x.status = status
           /\ \A k \in Shows :
                 LET x == Look(k, a)
                 IN x \in IdentityStep /\ x.kind = k /\ x.about = a
  BY DEF SetPassport, SetRuntime, SetSession, Look, IdentityStep

\* An attestation connects the agent, and its session is ready.
LEMMA Attested ==
    ASSUME NEW a \in Agents
    PROVE  /\ Attestation(a) \in Seq(IdentityStep) /\ ~ Has(Attestation(a), "v1") /\ Led(Attestation(a))
           /\ \E x, y, z \in IdentityStep :
                 /\ Elements(Attestation(a)) = {x, y, z}
                 /\ x.kind = "session" /\ x.about = a /\ x.status = "ready"
                 /\ y.kind = "runtime" /\ y.about = a /\ y.status = TRUE
                 /\ z.kind = "show-attested" /\ z.about = a
  <1>1. PICK x \in IdentityStep : /\ x = SetSession(a, "ready") /\ x.kind = "session"
                                  /\ x.about = a /\ x.status = "ready"
    BY Records DEF Session
  <1>2. PICK y \in IdentityStep : y = SetRuntime(a, TRUE) /\ y.kind = "runtime" /\ y.about = a /\ y.status = TRUE
    BY Records
  <1>3. PICK z \in IdentityStep : z = Look("show-attested", a) /\ z.kind = "show-attested" /\ z.about = a
    BY Records DEF Shows
  <1>4. Attestation(a) = <<x, y, z>>
    BY <1>1, <1>2, <1>3 DEF Attestation
  <1>5. Attestation(a) \in Seq(IdentityStep) /\ Elements(Attestation(a)) = {x, y, z}
    BY <1>4, Triples
  <1>6. ~ Has(Attestation(a), "v1")
    BY <1>1, <1>2, <1>3, <1>5 DEF Has
  <1>7. Led(Attestation(a))
    BY <1>6 DEF Led, Has, Elements
  <1> QED BY <1>1, <1>2, <1>3, <1>5, <1>6, <1>7

LEMMA CreateAgentStep ==
    ASSUME FloorInv, NEW a \in Agents, CreateAgent(a)
    PROVE  FloorInv'
  <1>1. PICK u \in IdentityStep : /\ u = SetPassport(a, "v1", "active") /\ u.kind = "v1"
                                  /\ u.about = a /\ u.status = "active"
    BY Records DEF Lifecycle
  <1>2. PICK v \in IdentityStep : /\ v = SetPassport(a, "v2", "active") /\ v.kind = "v2"
                                  /\ v.about = a /\ v.status = "active"
    BY Records DEF Lifecycle
  <1>3. PICK c \in IdentityStep : c = SetRuntime(a, TRUE) /\ c.kind = "runtime" /\ c.about = a /\ c.status = TRUE
    BY Records
  <1>4. PICK n \in IdentityStep : n = Look("show-new", a) /\ n.kind = "show-new" /\ n.about = a
    BY Records DEF Shows
  <1>a. PICK modern \in BOOLEAN :
           Start("identity", ((<<u>> \o (IF modern THEN <<v>> ELSE <<>>)) \o <<c, n>>)
                             \o (IF modern THEN Attestation(a) ELSE <<>>))
    BY <1>1, <1>2, <1>3, <1>4 DEF CreateAgent
  <1>5. PICK B, D, list :
           /\ B = IF modern THEN <<v>> ELSE <<>>
           /\ D = IF modern THEN Attestation(a) ELSE <<>>
           /\ list = ((<<u>> \o B) \o <<c, n>>) \o D
           /\ Start("identity", list)
    BY <1>a
  <1>6. PICK A \in Seq(IdentityStep) : A = <<u>> /\ Elements(A) = {u} /\ Led(A)
    <2>1. <<u>> \in Seq(IdentityStep) /\ Elements(<<u>>) = {u}
      BY Single
    <2>2. Led(<<u>>)
      BY DEF Led
    <2> QED BY <2>1, <2>2
  <1>7. B \in Seq(IdentityStep) /\ Elements(B) = IF modern THEN {v} ELSE {}
    BY <1>5, Single, Empty
  <1>8. PICK E \in Seq(IdentityStep) : E = <<c, n>> /\ Elements(E) = {c, n}
    <2>1. <<c, n>> \in Seq(IdentityStep) /\ Elements(<<c, n>>) = {c, n}
      BY Pairs
    <2> QED BY <2>1
  <1>9. PICK x, y, z \in IdentityStep :
           /\ D \in Seq(IdentityStep) /\ Elements(D) = IF modern THEN {x, y, z} ELSE {}
           /\ x.kind = "session" /\ x.about = a /\ x.status = "ready"
           /\ y.kind = "runtime" /\ y.about = a /\ y.status = TRUE
           /\ z.kind = "show-attested" /\ z.about = a
    <2>1. PICK x, y, z \in IdentityStep :
             /\ Elements(Attestation(a)) = {x, y, z}
             /\ x.kind = "session" /\ x.about = a /\ x.status = "ready"
             /\ y.kind = "runtime" /\ y.about = a /\ y.status = TRUE
             /\ z.kind = "show-attested" /\ z.about = a
      BY Attested
    <2>2. Attestation(a) \in Seq(IdentityStep) /\ <<>> \in Seq(IdentityStep) /\ Elements(<<>>) = {}
      BY Attested, Empty
    <2>3. D \in Seq(IdentityStep) /\ Elements(D) = IF modern THEN {x, y, z} ELSE {}
      BY <1>5, <2>1, <2>2
    <2> QED BY <2>1, <2>3
  <1>10. PICK F \in Seq(IdentityStep) : F = A \o B /\ Elements(F) = Elements(A) \cup Elements(B) /\ Led(F)
    <2>1. ~ Has(B, "v1")
      BY <1>2, <1>7 DEF Has
    <2>2. A \in Seq(IdentityStep) /\ B \in Seq(IdentityStep) /\ Led(A)
      BY <1>6, <1>7
    <2>3. /\ A \o B \in Seq(IdentityStep) /\ Led(A \o B)
          /\ Elements(A \o B) = Elements(A) \cup Elements(B)
      BY <2>1, <2>2, Appended
    <2> QED BY <2>3
  <1>11. PICK G \in Seq(IdentityStep) : G = F \o E /\ Elements(G) = Elements(F) \cup Elements(E) /\ Led(G)
    <2>1. ~ Has(E, "v1")
      BY <1>3, <1>4, <1>8 DEF Has
    <2>2. F \in Seq(IdentityStep) /\ E \in Seq(IdentityStep) /\ Led(F)
      BY <1>8, <1>10
    <2>3. /\ F \o E \in Seq(IdentityStep) /\ Led(F \o E)
          /\ Elements(F \o E) = Elements(F) \cup Elements(E)
      BY <2>1, <2>2, Appended
    <2> QED BY <2>3
  <1>12. PICK L \in Seq(IdentityStep) : L = G \o D /\ Elements(L) = Elements(G) \cup Elements(D) /\ Led(L)
    <2>1. ~ Has(D, "v1")
      BY <1>9 DEF Has
    <2>2. G \in Seq(IdentityStep) /\ D \in Seq(IdentityStep) /\ Led(G)
      BY <1>9, <1>11
    <2>3. /\ G \o D \in Seq(IdentityStep) /\ Led(G \o D)
          /\ Elements(G \o D) = Elements(G) \cup Elements(D)
      BY <2>1, <2>2, Appended
    <2> QED BY <2>3
  <1>13. Start("identity", L)
    BY <1>5, <1>6, <1>8, <1>10, <1>11, <1>12
  <1>14. Elements(L) = IF modern THEN {u, v, c, n, x, y, z} ELSE {u, c, n}
    BY <1>6, <1>7, <1>8, <1>9, <1>10, <1>11, <1>12
  <1>15. /\ \A w \in Elements(L) : w.kind # "fleet" /\ w.about = a
         /\ Has(L, "v1") /\ Has(L, "show-new") /\ ~ Has(L, "show-lifecycle")
         /\ Has(L, "runtime")
         /\ Has(L, "v2") <=> modern
         /\ Has(L, "session") <=> modern
    <2>1. \A w \in Elements(L) : w.kind # "fleet" /\ w.about = a
      BY <1>1, <1>2, <1>3, <1>4, <1>9, <1>14
    <2>2. Has(L, "v1") /\ Has(L, "show-new") /\ ~ Has(L, "show-lifecycle")
      <3>1. u \in Elements(L) /\ n \in Elements(L)
        BY <1>14
      <3>2. \A w \in Elements(L) : w.kind # "show-lifecycle"
        BY <1>1, <1>2, <1>3, <1>4, <1>9, <1>14
      <3> QED BY <1>1, <1>4, <3>1, <3>2 DEF Has
    <2>3. Has(L, "runtime")
      BY <1>3, <1>14 DEF Has
    <2>4. Has(L, "v2") <=> modern
      BY <1>1, <1>2, <1>3, <1>4, <1>9, <1>14 DEF Has
    <2>5. Has(L, "session") <=> modern
      BY <1>1, <1>2, <1>3, <1>4, <1>9, <1>14 DEF Has
    <2> QED BY <2>1, <2>2, <2>3, <2>4, <2>5
  <1>16. ASSUME faults = 0
         PROVE  \E p \in Lifecycle, q \in Lifecycle, r \in BOOLEAN, s \in Session : LeavesAgreed(L, a, p, q, r, s)
    <2>1. passport[a].v2 = "none" /\ session[a] # "ready" /\ session[a] \in Session
      <3>1. passport[a].v1 = "none" /\ op["identity"] = <<>>
        BY <1>13 DEF CreateAgent, Start
      <3>2. session[a] \in Session
        BY DEF FloorInv, FloorTypes, TypeOK
      <3> QED BY <1>16, <3>1, <3>2, AtRest DEF FloorInv
    <2>2. Leaves(L, "v1", passport[a].v1, "active") /\ Leaves(L, "runtime", runtime[a], TRUE)
      <3>1. \A w \in Elements(L) : w.kind = "v1" => w.status = "active"
        BY <1>1, <1>2, <1>3, <1>4, <1>9, <1>14
      <3>2. \A w \in Elements(L) : w.kind = "runtime" => w.status = TRUE
        BY <1>1, <1>2, <1>3, <1>4, <1>9, <1>14
      <3> QED BY <1>15, <3>1, <3>2 DEF Leaves
    <2>3. CASE modern
      <3>1. Leaves(L, "v2", passport[a].v2, "active") /\ Leaves(L, "session", session[a], "ready")
        BY <1>1, <1>2, <1>3, <1>4, <1>9, <1>14, <1>15, <2>3 DEF Leaves
      <3>2. LeavesAgreed(L, a, "active", "active", TRUE, "ready")
        BY <2>2, <3>1 DEF LeavesAgreed
      <3> QED BY <3>2 DEF Lifecycle, Session
    <2>4. CASE ~ modern
      <3>1. Leaves(L, "v2", passport[a].v2, "none") /\ Leaves(L, "session", session[a], session[a])
        BY <1>15, <2>1, <2>4 DEF Leaves, Has
      <3>2. LeavesAgreed(L, a, "active", "none", TRUE, session[a])
        BY <2>1, <2>2, <3>1 DEF LeavesAgreed
      <3> QED BY <2>1, <3>2 DEF Lifecycle
    <2> QED BY <2>3, <2>4
  <1> QED BY <1>12, <1>13, <1>15, <1>16, IdentityStarts DEF Led

LEMMA UpdatePassportStep ==
    ASSUME FloorInv, NEW a \in Agents, NEW status \in Lifecycle \ {"none"}, UpdatePassport(a, status)
    PROVE  FloorInv'
  <1>1. PICK u \in IdentityStep : /\ u = SetPassport(a, "v1", status) /\ u.kind = "v1"
                                  /\ u.about = a /\ u.status = status
    BY Records
  <1>2. PICK v \in IdentityStep : /\ v = SetPassport(a, "v2", status) /\ v.kind = "v2"
                                  /\ v.about = a /\ v.status = status
    BY Records
  <1>3. PICK n \in IdentityStep : n = Look("show-lifecycle", a) /\ n.kind = "show-lifecycle" /\ n.about = a
    BY Records DEF Shows
  <1>4. PICK c : /\ c = SetSession(a, status) /\ c.kind = "session" /\ c.about = a /\ c.status = status
                 /\ status # "active" => c \in IdentityStep
    <2>1. /\ SetSession(a, status).kind = "session" /\ SetSession(a, status).about = a
          /\ SetSession(a, status).status = status
      BY DEF SetSession
    <2>2. status # "active" => SetSession(a, status) \in IdentityStep
      <3>1. status # "active" => status \in Session
        BY DEF Lifecycle, Session
      <3> QED BY <3>1, Records
    <2> QED BY <2>1, <2>2
  <1>5. /\ op["identity"] = <<>> /\ passport[a].v1 \in {"active", "suspended"}
        /\ status = "active" => passport[a].v1 = "suspended"
        /\ Start("identity",
              ((<<u>> \o (IF passport[a].v2 = "none" THEN <<>> ELSE <<v>>))
               \o (IF passport[a].v2 # "none" /\ status # "active" /\ Live(a) THEN <<c>> ELSE <<>>)) \o <<n>>)
    BY <1>1, <1>2, <1>3, <1>4 DEF UpdatePassport, Start
  <1>a. PICK known \in BOOLEAN, ends \in BOOLEAN :
           /\ known <=> passport[a].v2 # "none"
           /\ ends <=> passport[a].v2 # "none" /\ status # "active" /\ Live(a)
    OBVIOUS
  <1>6. PICK B, D, list :
           /\ known <=> passport[a].v2 # "none"
           /\ ends <=> passport[a].v2 # "none" /\ status # "active" /\ Live(a)
           /\ B = IF known THEN <<v>> ELSE <<>>
           /\ D = IF ends THEN <<c>> ELSE <<>>
           /\ list = ((<<u>> \o B) \o D) \o <<n>>
           /\ Start("identity", list)
    BY <1>a, <1>5
  <1>7. PICK A \in Seq(IdentityStep) : A = <<u>> /\ Elements(A) = {u} /\ Led(A)
    <2>1. <<u>> \in Seq(IdentityStep) /\ Elements(<<u>>) = {u}
      BY Single
    <2>2. Led(<<u>>)
      BY DEF Led
    <2> QED BY <2>1, <2>2
  <1>8. B \in Seq(IdentityStep) /\ Elements(B) = IF known THEN {v} ELSE {}
    BY <1>6, Single, Empty
  <1>9. D \in Seq(IdentityStep) /\ Elements(D) = IF ends THEN {c} ELSE {}
    <2>1. CASE ends
      <3>1. c \in IdentityStep
        BY <1>4, <1>6, <2>1
      <3>2. <<c>> \in Seq(IdentityStep) /\ Elements(<<c>>) = {c}
        BY <3>1, Single
      <3> QED BY <1>6, <2>1, <3>2
    <2>2. CASE ~ ends
      BY <1>6, <2>2, Empty
    <2> QED BY <2>1, <2>2
  <1>10. PICK E \in Seq(IdentityStep) : E = <<n>> /\ Elements(E) = {n}
    <2>1. <<n>> \in Seq(IdentityStep) /\ Elements(<<n>>) = {n}
      BY Single
    <2> QED BY <2>1
  <1>11. PICK F \in Seq(IdentityStep) : F = A \o B /\ Elements(F) = Elements(A) \cup Elements(B) /\ Led(F)
    <2>1. ~ Has(B, "v1")
      BY <1>2, <1>8 DEF Has
    <2>2. A \in Seq(IdentityStep) /\ B \in Seq(IdentityStep) /\ Led(A)
      BY <1>7, <1>8
    <2>3. A \o B \in Seq(IdentityStep) /\ Led(A \o B) /\ Elements(A \o B) = Elements(A) \cup Elements(B)
      BY <2>1, <2>2, Appended
    <2> QED BY <2>3
  <1>12. PICK G \in Seq(IdentityStep) : G = F \o D /\ Elements(G) = Elements(F) \cup Elements(D) /\ Led(G)
    <2>1. ~ Has(D, "v1")
      BY <1>4, <1>9 DEF Has
    <2>2. F \in Seq(IdentityStep) /\ D \in Seq(IdentityStep) /\ Led(F)
      BY <1>9, <1>11
    <2>3. F \o D \in Seq(IdentityStep) /\ Led(F \o D) /\ Elements(F \o D) = Elements(F) \cup Elements(D)
      BY <2>1, <2>2, Appended
    <2> QED BY <2>3
  <1>13. PICK L \in Seq(IdentityStep) : L = G \o E /\ Elements(L) = Elements(G) \cup Elements(E) /\ Led(L)
    <2>1. ~ Has(E, "v1")
      BY <1>3, <1>10 DEF Has
    <2>2. G \in Seq(IdentityStep) /\ E \in Seq(IdentityStep) /\ Led(G)
      BY <1>10, <1>12
    <2>3. G \o E \in Seq(IdentityStep) /\ Led(G \o E) /\ Elements(G \o E) = Elements(G) \cup Elements(E)
      BY <2>1, <2>2, Appended
    <2> QED BY <2>3
  <1>14. Start("identity", L)
    BY <1>6, <1>7, <1>10, <1>11, <1>12, <1>13
  <1>15. Elements(L) = {u, n} \cup (IF known THEN {v} ELSE {}) \cup (IF ends THEN {c} ELSE {})
    BY <1>7, <1>8, <1>9, <1>10, <1>11, <1>12, <1>13
  <1>16. /\ \A w \in Elements(L) : w.kind # "fleet" /\ w.about = a
         /\ Has(L, "v1") /\ Has(L, "show-lifecycle")
         /\ ~ Has(L, "show-attested") /\ ~ Has(L, "runtime")
         /\ Has(L, "v2") <=> known
         /\ Has(L, "session") <=> ends
    BY <1>1, <1>2, <1>3, <1>4, <1>15 DEF Has
  <1>17. ASSUME faults = 0
         PROVE  \E p \in Lifecycle, q \in Lifecycle, r \in BOOLEAN, s \in Session : LeavesAgreed(L, a, p, q, r, s)
    <2>1. /\ passport[a].v2 # "none" => passport[a].v2 = passport[a].v1
          /\ session[a] = "ready" => passport[a].v2 = "active" /\ runtime[a]
      BY <1>5, <1>17, AtRest DEF FloorInv
    <2>2. runtime[a] \in BOOLEAN /\ session[a] \in Session
      BY DEF FloorInv, FloorTypes, TypeOK
    <2>3. PICK q, s : q = (IF known THEN status ELSE "none") /\ s = (IF ends THEN status ELSE session[a])
      OBVIOUS
    <2>4. s \in Session /\ q \in Lifecycle
      BY <1>6, <2>2, <2>3 DEF Lifecycle, Session
    <2>5. s # "ready"
      BY <1>5, <1>6, <2>1, <2>3 DEF Live, Lifecycle
    <2>6. Leaves(L, "v1", passport[a].v1, status) /\ Leaves(L, "runtime", runtime[a], runtime[a])
      BY <1>1, <1>2, <1>3, <1>4, <1>15, <1>16 DEF Leaves
    <2>7. Leaves(L, "v2", passport[a].v2, q)
      BY <1>1, <1>2, <1>3, <1>4, <1>6, <1>15, <1>16, <2>3 DEF Leaves
    <2>8. Leaves(L, "session", session[a], s)
      BY <1>1, <1>2, <1>3, <1>4, <1>15, <1>16, <2>3 DEF Leaves
    <2>9. LeavesAgreed(L, a, status, q, runtime[a], s)
      BY <1>16, <2>3, <2>5, <2>6, <2>7, <2>8 DEF LeavesAgreed
    <2> QED BY <2>2, <2>4, <2>9
  <1> QED BY <1>5, <1>13, <1>14, <1>16, <1>17, IdentityStarts DEF Led

LEMMA UpdateRuntimeStep ==
    ASSUME FloorInv, NEW a \in Agents, NEW connect \in BOOLEAN, UpdateRuntime(a, connect)
    PROVE  FloorInv'
  <1>1. PICK u \in IdentityStep : /\ u = SetRuntime(a, connect) /\ u.kind = "runtime"
                                  /\ u.about = a /\ u.status = connect
    BY Records
  <1>2. PICK n \in IdentityStep : n = Look("show-runtime", a) /\ n.kind = "show-runtime" /\ n.about = a
    BY Records DEF Shows
  <1>3. PICK c \in IdentityStep : /\ c = SetSession(a, "stopped") /\ c.kind = "session"
                                  /\ c.about = a /\ c.status = "stopped"
    BY Records DEF Session
  <1>a. PICK ends \in BOOLEAN : ends <=> ~ connect /\ Live(a)
    OBVIOUS
  <1>4. PICK D, list :
           /\ op["identity"] = <<>>
           /\ ends <=> ~ connect /\ Live(a)
           /\ D = IF ends THEN <<c>> ELSE <<>>
           /\ list = <<u, n>> \o D
           /\ Start("identity", list)
    <2>1. /\ op["identity"] = <<>>
          /\ Start("identity", <<u, n>> \o (IF ~ connect /\ Live(a) THEN <<c>> ELSE <<>>))
      BY <1>1, <1>2, <1>3 DEF UpdateRuntime, Start
    <2> QED BY <1>a, <2>1
  <1>5. PICK A \in Seq(IdentityStep) : A = <<u, n>> /\ Elements(A) = {u, n} /\ Led(A)
    <2>1. <<u, n>> \in Seq(IdentityStep) /\ Elements(<<u, n>>) = {u, n}
      BY Pairs
    <2>2. Led(<<u, n>>)
      BY <1>1, <1>2, Pairs DEF Led
    <2> QED BY <2>1, <2>2
  <1>6. D \in Seq(IdentityStep) /\ Elements(D) = IF ends THEN {c} ELSE {}
    BY <1>4, Single, Empty
  <1>7. PICK L \in Seq(IdentityStep) : L = A \o D /\ Elements(L) = Elements(A) \cup Elements(D) /\ Led(L)
    <2>1. ~ Has(D, "v1")
      BY <1>3, <1>6 DEF Has
    <2>2. A \in Seq(IdentityStep) /\ D \in Seq(IdentityStep) /\ Led(A)
      BY <1>5, <1>6
    <2>3. A \o D \in Seq(IdentityStep) /\ Led(A \o D) /\ Elements(A \o D) = Elements(A) \cup Elements(D)
      BY <2>1, <2>2, Appended
    <2> QED BY <2>3
  <1>8. Start("identity", L)
    BY <1>4, <1>5, <1>7
  <1>9. Elements(L) = {u, n} \cup (IF ends THEN {c} ELSE {})
    BY <1>5, <1>6, <1>7
  <1>10. /\ \A w \in Elements(L) : w.kind # "fleet" /\ w.about = a
         /\ \A k \in {"v1", "v2", "show-new", "show-lifecycle", "show-attested"} : ~ Has(L, k)
         /\ Has(L, "runtime") /\ (Has(L, "session") <=> ends)
    BY <1>1, <1>2, <1>3, <1>9 DEF Has
  <1>11. ASSUME faults = 0
         PROVE  \E p \in Lifecycle, q \in Lifecycle, r \in BOOLEAN, s \in Session : LeavesAgreed(L, a, p, q, r, s)
    <2>1. /\ passport[a].v2 # "none" => passport[a].v2 = passport[a].v1
          /\ session[a] = "ready" => passport[a].v2 = "active" /\ runtime[a]
      BY <1>4, <1>11, AtRest DEF FloorInv
    <2>2. session[a] \in Session /\ passport[a].v1 \in Lifecycle /\ passport[a].v2 \in Lifecycle
      BY DEF FloorInv, FloorTypes, TypeOK
    <2>3. PICK s : s = (IF ends THEN "stopped" ELSE session[a])
      OBVIOUS
    <2>4. s \in Session /\ (s = "ready" => connect /\ passport[a].v2 = "active")
      BY <1>4, <2>1, <2>2, <2>3 DEF Live, Session
    <2>5. Leaves(L, "v1", passport[a].v1, passport[a].v1) /\ Leaves(L, "v2", passport[a].v2, passport[a].v2)
      BY <1>10 DEF Leaves, Has
    <2>6. Leaves(L, "runtime", runtime[a], connect) /\ Leaves(L, "session", session[a], s)
      BY <1>1, <1>2, <1>3, <1>9, <1>10, <2>3 DEF Leaves
    <2>7. LeavesAgreed(L, a, passport[a].v1, passport[a].v2, connect, s)
      BY <1>10, <2>1, <2>4, <2>5, <2>6 DEF LeavesAgreed
    <2> QED BY <2>2, <2>4, <2>7
  <1> QED BY <1>7, <1>8, <1>10, <1>11, IdentityStarts DEF Led

LEMMA AttestRuntimeStep ==
    ASSUME FloorInv, NEW a \in Agents, AttestRuntime(a)
    PROVE  FloorInv'
  <1>1. PICK L \in Seq(IdentityStep) : L = Attestation(a) /\ Led(L) /\ ~ Has(L, "v1")
    BY Attested
  <1>2. PICK x, y, z \in IdentityStep :
           /\ Elements(L) = {x, y, z}
           /\ x.kind = "session" /\ x.about = a /\ x.status = "ready"
           /\ y.kind = "runtime" /\ y.about = a /\ y.status = TRUE
           /\ z.kind = "show-attested" /\ z.about = a
    <2>1. PICK x, y, z \in IdentityStep :
             /\ Elements(Attestation(a)) = {x, y, z}
             /\ x.kind = "session" /\ x.about = a /\ x.status = "ready"
             /\ y.kind = "runtime" /\ y.about = a /\ y.status = TRUE
             /\ z.kind = "show-attested" /\ z.about = a
      BY Attested
    <2>2. Elements(L) = {x, y, z}
      BY <1>1, <2>1
    <2> QED BY <2>1, <2>2
  <1>3. op["identity"] = <<>> /\ passport[a].v2 = "active" /\ Start("identity", L)
    BY <1>1 DEF AttestRuntime, Start
  <1>4. /\ \A w \in Elements(L) : w.kind # "fleet" /\ w.about = a
        /\ \A k \in {"v1", "v2", "show-new", "show-lifecycle"} : ~ Has(L, k)
        /\ Has(L, "runtime") /\ Has(L, "session")
    BY <1>2 DEF Has
  <1>5. ASSUME faults = 0
        PROVE  \E p \in Lifecycle, q \in Lifecycle, r \in BOOLEAN, s \in Session : LeavesAgreed(L, a, p, q, r, s)
    <2>1. passport[a].v1 = "active"
      BY <1>3, <1>5, AtRest DEF FloorInv
    <2>2. Leaves(L, "v1", passport[a].v1, "active") /\ Leaves(L, "v2", passport[a].v2, "active")
      BY <1>3, <1>4, <2>1 DEF Leaves, Has
    <2>3. Leaves(L, "runtime", runtime[a], TRUE) /\ Leaves(L, "session", session[a], "ready")
      BY <1>2, <1>4 DEF Leaves
    <2>4. LeavesAgreed(L, a, "active", "active", TRUE, "ready")
      BY <2>2, <2>3 DEF LeavesAgreed
    <2> QED BY <2>4 DEF Lifecycle, Session
  <1> QED BY <1>1, <1>3, <1>4, <1>5, IdentityStarts DEF Led

LEMMA MigrateStep ==
    ASSUME FloorInv, NEW a \in Agents, MigrateV1Passports(a)
    PROVE  FloorInv'
  <1>1. /\ passport[a].v1 \in Lifecycle /\ passport[a].v1 # "none"
        /\ passport[a].v2 = "none" /\ op["identity"] = <<>>
    BY DEF FloorInv, FloorTypes, TypeOK, MigrateV1Passports, Start
  <1>2. PICK u \in IdentityStep :
           u = SetPassport(a, "v2", passport[a].v1) /\ u.kind = "v2" /\ u.about = a /\ u.status = passport[a].v1
    BY <1>1, Records
  <1>3. PICK L \in Seq(IdentityStep) : L = <<u>> /\ Elements(L) = {u} /\ Start("identity", L)
    <2>1. <<u>> \in Seq(IdentityStep) /\ Elements(<<u>>) = {u}
      BY Single
    <2> QED BY <1>2, <2>1 DEF MigrateV1Passports
  <1>4. /\ \A w \in Elements(L) : w.kind # "fleet" /\ w.about = a
        /\ \A k \in {"v1", "runtime", "session", "show-new", "show-lifecycle", "show-attested"} : ~ Has(L, k)
        /\ Has(L, "v2")
    BY <1>2, <1>3 DEF Has
  <1>5. \A i \in DOMAIN L : L[i].kind # "v1"
    BY <1>4 DEF Elements, Has
  <1>6. ASSUME faults = 0
        PROVE  \E p \in Lifecycle, q \in Lifecycle, r \in BOOLEAN, s \in Session : LeavesAgreed(L, a, p, q, r, s)
    <2>1. session[a] # "ready" /\ session[a] \in Session /\ runtime[a] \in BOOLEAN
      <3>1. session[a] \in Session /\ runtime[a] \in BOOLEAN
        BY DEF FloorInv, FloorTypes, TypeOK
      <3> QED BY <1>1, <1>6, <3>1, AtRest DEF FloorInv
    <2>2. Leaves(L, "v1", passport[a].v1, passport[a].v1) /\ Leaves(L, "v2", passport[a].v2, passport[a].v1)
      BY <1>2, <1>3, <1>4 DEF Leaves, Has
    <2>3. Leaves(L, "runtime", runtime[a], runtime[a]) /\ Leaves(L, "session", session[a], session[a])
      BY <1>4 DEF Leaves, Has
    <2>4. LeavesAgreed(L, a, passport[a].v1, passport[a].v1, runtime[a], session[a])
      BY <1>1, <1>4, <2>1, <2>2, <2>3 DEF LeavesAgreed
    <2> QED BY <1>1, <2>1, <2>4
  <1> QED BY <1>3, <1>4, <1>5, <1>6, IdentityStarts

-----------------------------------------------------------------------------
(* A step of the identities.                                                *)

LEMMA IdentityHead ==
    ASSUME FloorInv, op["identity"] # <<>>
    PROVE  /\ op["identity"][1] \in IdentityStep /\ Head(op["identity"]) = op["identity"][1]
           /\ Tail(op["identity"]) \in Seq(IdentityStep)
           /\ Owes("identity") = {op["identity"][1]} \cup Elements(Tail(op["identity"]))
           /\ \A x \in Elements(Tail(op["identity"])) : x.kind \notin {"v1", "fleet"}
           /\ \A i \in DOMAIN Tail(op["identity"]) : Tail(op["identity"])[i].kind \notin {"v1", "fleet"}
  <1>1. PICK list \in Seq(IdentityStep) : list = op["identity"] /\ list # <<>>
    BY DEF FloorInv, FloorTypes
  <1>2. /\ Tail(list) \in Seq(IdentityStep) /\ Head(list) = list[1] /\ list[1] \in IdentityStep
        /\ \A i \in DOMAIN Tail(list) : i \in Nat \ {0} /\ i + 1 \in DOMAIN list /\ Tail(list)[i] = list[i + 1]
        /\ Elements(Tail(list)) \subseteq Elements(list)
        /\ list[1] \in Elements(list)
        /\ \A x \in Elements(list) : x = list[1] \/ x \in Elements(Tail(list))
    BY <1>1, Behead
  <1>3. ASSUME NEW i \in DOMAIN Tail(list) PROVE Tail(list)[i].kind \notin {"v1", "fleet"}
    <2>1. i + 1 \in DOMAIN list /\ i + 1 # 1 /\ Tail(list)[i] = list[i + 1]
      BY <1>2
    <2> QED BY <1>1, <2>1 DEF FloorInv, IdentitySound, Front
  <1>4. \A x \in Elements(Tail(list)) : x.kind \notin {"v1", "fleet"}
    BY <1>3 DEF Elements
  <1> QED BY <1>1, <1>2, <1>3, <1>4 DEF Owes

\* A list that keeps what is owed of the records leaves what they agree on.
LEMMA RecordsAgree ==
    ASSUME FloorInv, UNCHANGED faults, UNCHANGED <<passport, runtime, session>>,
           \A k, a : Owed(k, a)' => Owed(k, a) \/ k = "fleet",
           \A k \in {"v1", "v2", "runtime", "session"} :
              /\ \A a : Owed(k, a)' = Owed(k, a)
              /\ \A x \in Owes("identity")' : x.kind = k => x \in Owes("identity")
    PROVE  Follow'
  <1>1. \A k \in {"v1", "v2", "runtime", "session"} : \A a, v : Becomes(k, a, v) => Becomes(k, a, v)'
    BY DEF Becomes, Now
  <1>2. \A a : Showing(a)' => Showing(a)
    BY DEF Showing
  <1>3. \A a, p, q, r, s : Agreed(a, p, q, r, s) => Agreed(a, p, q, r, s)'
    BY <1>1, <1>2 DEF Agreed
  <1> QED BY <1>3 DEF FloorInv, IdentitySound, Follow

LEMMA ShownRows ==
    ASSUME FloorTypes, NEW k \in Shows, NEW x \in Agents, NEW N, N = NewFleet(k, x)
    PROVE  /\ N \in Board /\ \A b \in Agents \ {x} : N[b] = fleet[b]
           /\ N[x].mandate \in {0, fleet[x].mandate}
           /\ k = "show-new" => N[x] # Absent /\ (passport[x].v1 = "revoked" => N[x].status = "offline")
           /\ k # "show-new" => (N[x] = Absent <=> fleet[x] = Absent)
           /\ k = "show-lifecycle" /\ fleet[x] # Absent /\ passport[x].v1 = "revoked" => N[x].status = "offline"
           /\ k = "show-runtime" /\ fleet[x].status = "offline" /\ passport[x].v1 = "revoked"
                 => N[x].status = "offline"
  <1>1. fleet \in Board /\ fleet[x] \in Row
    <2>1. fleet \in Board
      BY FloorTyped
    <2> QED BY <2>1 DEF Board
  <1>2. Shown(x) \in {"ready", "offline", "blocked"} /\ (passport[x].v1 = "revoked" => Shown(x) = "offline")
    BY DEF Shown
  <1>3. PICK st : /\ st \in {"ready", "offline", "blocked"} /\ (passport[x].v1 = "revoked" => st = "offline")
                  /\ st = CASE passport[x].v1 = "active" -> "ready"
                            [] passport[x].v1 = "suspended" -> "blocked"
                            [] OTHER -> "offline"
    <2>1. (CASE passport[x].v1 = "active" -> "ready"
             [] passport[x].v1 = "suspended" -> "blocked"
             [] OTHER -> "offline") \in {"ready", "offline", "blocked"}
      OBVIOUS
    <2> QED BY <2>1
  <1>4. PICK r : N = [fleet EXCEPT ![x] = r]
                 /\ \/ k = "show-new" /\ r = [status |-> Shown(x), mandate |-> 0]
                    \/ k = "show-lifecycle" /\ r = (IF fleet[x] = Absent THEN fleet[x] ELSE [fleet[x] EXCEPT !.status = st])
                    \/ k = "show-runtime" /\ r \in {fleet[x], [fleet[x] EXCEPT !.status = Shown(x)]}
                       /\ (fleet[x] = Absent => r = fleet[x])
                    \/ k = "show-attested" /\ r \in {fleet[x], [fleet[x] EXCEPT !.status = "ready"]}
                       /\ (fleet[x] = Absent => r = fleet[x])
    <2>1. CASE k = "show-new"
      <3>1. N = [fleet EXCEPT ![x] = [status |-> Shown(x), mandate |-> 0]]
        BY <2>1 DEF NewFleet
      <3> QED BY <2>1, <3>1
    <2>2. CASE k = "show-lifecycle"
      <3>1. N = [fleet EXCEPT ![x] = IF fleet[x] = Absent THEN fleet[x] ELSE [fleet[x] EXCEPT !.status = st]]
        BY <1>1, <1>3, <2>2 DEF NewFleet, Board
      <3> QED BY <2>2, <3>1
    <2>3. CASE k = "show-runtime"
      <3>1. N = [fleet EXCEPT ![x] = IF fleet[x] = Absent \/ fleet[x].mandate # 0 THEN fleet[x]
                                     ELSE [fleet[x] EXCEPT !.status = Shown(x)]]
        BY <1>1, <2>3 DEF NewFleet, Board
      <3> QED BY <2>3, <3>1
    <2>4. CASE k = "show-attested"
      <3>1. N = [fleet EXCEPT ![x] = IF fleet[x] = Absent \/ fleet[x].mandate # 0 THEN fleet[x]
                                     ELSE [fleet[x] EXCEPT !.status = "ready"]]
        BY <1>1, <2>4 DEF NewFleet, Board
      <3> QED BY <2>4, <3>1
    <2> QED BY <2>1, <2>2, <2>3, <2>4 DEF Shows
  <1>5. N[x] = r /\ \A b \in Agents \ {x} : N[b] = fleet[b]
    BY <1>1, <1>4 DEF Board
  <1>6. /\ r \in Row /\ r.mandate \in {0, fleet[x].mandate}
        /\ k = "show-new" => r # Absent /\ (passport[x].v1 = "revoked" => r.status = "offline")
        /\ k # "show-new" => (r = Absent <=> fleet[x] = Absent)
        /\ k = "show-lifecycle" /\ fleet[x] # Absent /\ passport[x].v1 = "revoked" => r.status = "offline"
        /\ k = "show-runtime" /\ fleet[x].status = "offline" /\ passport[x].v1 = "revoked" => r.status = "offline"
    <2>1. CASE k = "show-new"
      <3>1. r = [status |-> Shown(x), mandate |-> 0]
        BY <1>4, <2>1
      <3>2. r \in Row /\ r # Absent /\ r.status = Shown(x) /\ r.mandate = 0
        BY <1>2, <3>1 DEF Row, Absent
      <3> QED BY <1>2, <2>1, <3>2
    <2>2. PICK w \in Row : w = fleet[x]
      BY <1>1
    <2>3. CASE k # "show-new" /\ r = w
      <3>1. r.mandate = w.mandate /\ (r = Absent <=> w = Absent)
        BY <2>3
      <3>2. ASSUME k = "show-lifecycle", w # Absent, passport[x].v1 = "revoked" PROVE r.status = "offline"
        <4>1. r = [w EXCEPT !.status = st] /\ st = "offline"
          BY <1>3, <1>4, <2>2, <3>2
        <4> QED BY <3>2, <4>1, RowStatus
      <3> QED BY <2>2, <2>3, <3>1, <3>2
    <2>4. CASE k # "show-new" /\ r # w
      <3>1. w # Absent /\ \E t \in {"ready", "offline", "blocked"} :
               /\ r = [w EXCEPT !.status = t]
               /\ k \in {"show-lifecycle", "show-runtime"} /\ passport[x].v1 = "revoked" => t = "offline"
        BY <1>2, <1>3, <1>4, <2>2, <2>4
      <3>2. PICK t \in {"ready", "offline", "blocked"} :
               /\ r = [w EXCEPT !.status = t]
               /\ k \in {"show-lifecycle", "show-runtime"} /\ passport[x].v1 = "revoked" => t = "offline"
        BY <3>1
      <3>3. r \in Row /\ r # Absent /\ r.status = t /\ r.mandate = w.mandate
        <4>1. t \in {"ready", "working", "approval-required", "blocked", "offline"}
          OBVIOUS
        <4> QED BY <3>1, <3>2, <4>1, RowStatus
      <3> QED BY <2>2, <2>4, <3>1, <3>2, <3>3
    <2> QED BY <2>1, <2>2, <2>3, <2>4
  <1>7. N \in Board
    BY <1>1, <1>4, <1>6 DEF Board
  <1> QED BY <1>5, <1>6, <1>7

LEMMA IdentityReads ==
    ASSUME FloorInv, Read("identity")
    PROVE  FloorInv'
  <1>1. PICK h, T : h = op["identity"][1] /\ T = Tail(op["identity"])
    OBVIOUS
  <1>2. /\ op["identity"] # <<>> /\ h \in IdentityStep /\ T \in Seq(IdentityStep)
        /\ Owes("identity") = {h} \cup Elements(T) /\ Head(op["identity"]) = h
        /\ \A x \in Elements(T) : x.kind \notin {"v1", "fleet"}
        /\ \A i \in DOMAIN T : T[i].kind \notin {"v1", "fleet"}
    <2>1. op["identity"] # <<>>
      BY DEF Read
    <2> QED BY <1>1, <2>1, IdentityHead
  <1>3. h.kind \in Shows /\ h.about \in Agents
    BY <1>2, IdentityKinds DEF Read, Reads, Shows
  <1>4. PICK k \in Shows, x \in Agents : k = h.kind /\ x = h.about
    BY <1>3
  <1>5. PICK N : N = NewFleet(k, x)
    OBVIOUS
  <1>6. /\ N \in Board /\ \A b \in Agents \ {x} : N[b] = fleet[b]
        /\ N[x].mandate \in {0, fleet[x].mandate}
        /\ k = "show-new" => N[x] # Absent /\ (passport[x].v1 = "revoked" => N[x].status = "offline")
        /\ k # "show-new" => (N[x] = Absent <=> fleet[x] = Absent)
        /\ k = "show-lifecycle" /\ fleet[x] # Absent /\ passport[x].v1 = "revoked" => N[x].status = "offline"
        /\ k = "show-runtime" /\ fleet[x].status = "offline" /\ passport[x].v1 = "revoked"
              => N[x].status = "offline"
    BY <1>5, ShownRows DEF FloorInv
  <1>7. fleet \in Board
    BY FloorTyped DEF FloorInv
  <1>8. PICK w \in IdentityStep : w = WriteFleet(N) /\ w.kind = "fleet" /\ w.from = fleet /\ w.to = N
    BY <1>6, <1>7, FleetWrites
  <1>9. /\ op' = [op EXCEPT !["identity"] = <<w>> \o T]
        /\ UNCHANGED <<fleet, work, records, ops, faults, overlapped>>
    <2>1. k # "contain"
      BY DEF Shows
    <2> QED BY <1>1, <1>2, <1>4, <1>5, <1>8, <2>1 DEF Read
  <1>10. /\ op'["identity"] = <<w>> \o T /\ DOMAIN op' = Services
         /\ \A t \in Services : t # "identity" => op'[t] = op[t]
    BY <1>9 DEF FloorInv, FloorTypes, TypeOK, Services
  <1>11. UNCHANGED <<fleet, work, passport, runtime, session, mandates, queued, responses, ops, faults, overlapped>>
    BY <1>9 DEF records
  <1>12. PICK L \in Seq(IdentityStep) :
            /\ L = op'["identity"] /\ L[1] = w
            /\ \A i \in DOMAIN L : i \in Nat /\ (i = 1 \/ (i - 1 \in DOMAIN T /\ L[i] = T[i - 1]))
            /\ Elements(L) = {w} \cup Elements(T)
    <2>1. /\ <<w>> \o T \in Seq(IdentityStep) /\ (<<w>> \o T)[1] = w
          /\ \A i \in DOMAIN (<<w>> \o T) : i \in Nat /\ (i = 1 \/ (i - 1 \in DOMAIN T /\ (<<w>> \o T)[i] = T[i - 1]))
          /\ Elements(<<w>> \o T) = {w} \cup Elements(T)
      BY <1>2, Before
    <2> QED BY <1>10, <2>1
  <1>13. Owes("identity")' = {w} \cup Elements(T)
    BY <1>12 DEF Owes
  <1>14. \A j, b : Owed(j, b)' => Owed(j, b) \/ j = "fleet"
    BY <1>2, <1>8, <1>13 DEF Owed
  <1>15. \A j \in {"v1", "v2", "runtime", "session"} :
           /\ \A b : Owed(j, b)' = Owed(j, b)
           /\ \A y \in Owes("identity")' : y.kind = j => y \in Owes("identity")
    BY <1>2, <1>3, <1>8, <1>13 DEF Owed, Shows
  <1>16. Follow'
    BY <1>11, <1>14, <1>15, RecordsAgree
  <1>17. Grows /\ MandatesSound' /\ CollaborationSound' /\ KeepsFloor'
    BY <1>10, <1>11, OthersStay DEF Services
  <1>18. FloorTypes'
    <2>1. /\ faults' \in Nat /\ overlapped' \in [rows : SUBSET Agents, work : BOOLEAN]
          /\ fleet' \in Board /\ work' \in Works /\ ops' \in Nat
      BY <1>11, FloorTyped DEF FloorInv, FloorTypes, TypeOK
    <2> QED BY <1>10, <1>11, <1>12, <2>1, TypesStay DEF FloorInv, FloorTypes, Services
  <1>19. Front' /\ Told'
    BY <1>2, <1>8, <1>12, <1>13 DEF Front, Told
  <1>20. ASSUME faults = 0
         PROVE  /\ passport[x].v1 \in Lifecycle
                /\ k = "show-attested" => passport[x].v1 = "active"
                /\ k \in {"show-new", "show-lifecycle"} => passport[x].v1 # "none"
    <2>1. PICK p \in Lifecycle, q \in Lifecycle, r \in BOOLEAN, s \in Session : Agreed(x, p, q, r, s)
      BY <1>20 DEF FloorInv, IdentitySound, Follow
    <2>2. ~ Owed("v1", x) /\ Owed(k, x)
      BY <1>2, <1>3, <1>4 DEF Owed, Shows
    <2>3. passport[x].v1 = p
      BY <2>1, <2>2 DEF Agreed, Becomes, Now
    <2> QED BY <2>1, <2>2, <2>3 DEF Agreed, Showing
  <1>21. ShownRight'
    <2> SUFFICES ASSUME faults = 0, NEW b \in Agents PROVE Right(b, N)' \/ KeepsRevoked(b, fleet, N)'
      BY <1>2, <1>8, <1>11, <1>13 DEF ShownRight
    <2>1. CASE b # x
      BY <1>6, <1>11, <2>1 DEF KeepsRevoked
    <2>2. CASE b = x /\ k \in {"show-new", "show-lifecycle"} /\ (k = "show-lifecycle" => fleet[x] # Absent)
      BY <1>6, <1>11, <1>20, <2>2 DEF Right
    <2>3. CASE b = x /\ k = "show-lifecycle" /\ fleet[x] = Absent
      BY <1>6, <1>11, <2>3 DEF KeepsRevoked, Absent
    <2>4. CASE b = x /\ k \in {"show-runtime", "show-attested"}
      BY <1>6, <1>11, <1>20, <2>4 DEF KeepsRevoked
    <2> QED BY <2>1, <2>2, <2>3, <2>4 DEF Shows
  <1>22. Ownership'
    <2>1. \A f : Owned(f) => Owned(f)'
      BY <1>11 DEF Owned, Issued
    <2>2. Owned(N)
      <3>1. Owned(fleet)
        BY DEF FloorInv, FloorSound, Ownership
      <3> QED BY <1>6, <3>1 DEF Owned
    <2>3. ASSUME NEW s \in Services, NEW y \in Owes(s)', y.kind = "fleet" PROVE Owned(y.to)'
      <3>1. CASE s = "identity"
        BY <1>2, <1>8, <1>13, <2>1, <2>2, <2>3, <3>1
      <3>2. CASE s # "identity"
        <4>1. y \in Owes(s)
          BY <1>10, <2>3, <3>2 DEF Owes, Elements
        <4> QED BY <2>1, <2>3, <4>1 DEF FloorInv, FloorSound, Ownership
      <3> QED BY <3>1, <3>2
    <2> QED BY <1>11, <2>1, <2>3 DEF FloorInv, FloorSound, Ownership
  <1>23. Rows'
    <2> SUFFICES ASSUME faults = 0, NEW b \in Agents, b \notin overlapped.rows PROVE RowSound(b)'
      BY <1>11 DEF Rows
    <2>1. RowSound(b)
      BY DEF FloorInv, FloorSound, Rows
    <2>2. CASE Showing(b)'
      <3>1. Showing(b) /\ (Owed("show-lifecycle", b)' => Owed("show-lifecycle", b))
        BY <1>14, <2>2 DEF Showing
      <3> QED BY <1>11, <2>1, <2>2, <3>1 DEF RowSound
    <2>3. CASE ~ Showing(b) /\ ~ Showing(b)'
      <3>1. Right(b, fleet)
        BY <1>2, <1>3, <2>1, <2>3 DEF RowSound, Shows
      <3>2. Right(b, fleet)'
        BY <1>11, <3>1 DEF Right, RevokedOf
      <3> QED BY <2>3, <3>2 DEF RowSound
    <2>4. CASE Showing(b) /\ ~ Showing(b)'
      <3>1. b = x /\ k \in {"show-new", "show-lifecycle"} /\ (k = "show-lifecycle" => Owed("show-lifecycle", b))
        BY <1>2, <1>4, <1>13, <2>4 DEF Showing, Owed
      <3>2. k = "show-lifecycle" => fleet[x] # Absent
        BY <2>1, <2>4, <3>1 DEF RowSound
      <3>3. Right(b, N)'
        BY <1>6, <1>11, <1>20, <3>1, <3>2 DEF Right
      <3> QED BY <1>8, <1>13, <2>4, <3>3 DEF RowSound
    <2> QED BY <2>2, <2>3, <2>4
  <1> QED BY <1>16, <1>17, <1>18, <1>19, <1>21, <1>22, <1>23 DEF FloorInv, IdentitySound, FloorSound

LEMMA IdentityWritesFloor ==
    ASSUME FloorInv, WriteFloor("identity")
    PROVE  FloorInv'
  <1>1. PICK h, T : h = op["identity"][1] /\ T = Tail(op["identity"])
    OBVIOUS
  <1>2. /\ op["identity"] # <<>> /\ h \in IdentityStep /\ T \in Seq(IdentityStep)
        /\ Owes("identity") = {h} \cup Elements(T) /\ Head(op["identity"]) = h
        /\ \A x \in Elements(T) : x.kind \notin {"v1", "fleet"}
        /\ \A i \in DOMAIN T : T[i].kind \notin {"v1", "fleet"}
    <2>1. op["identity"] # <<>>
      BY DEF WriteFloor
    <2> QED BY <1>1, <2>1, IdentityHead
  <1>3. h.kind = "fleet" /\ h.from \in Board /\ h.to \in Board
    BY <1>2, IdentityKinds DEF WriteFloor, Shows
  <1>4. /\ fleet' = h.to /\ overlapped' = [overlapped EXCEPT !.rows = @ \cup {a \in Agents : fleet[a] # h.from[a]}]
        /\ op' = [op EXCEPT !["identity"] = T]
        /\ UNCHANGED <<work, records, ops, faults>>
    BY <1>1, <1>2, <1>3 DEF WriteFloor
  <1>5. /\ op'["identity"] = T /\ DOMAIN op' = Services
        /\ \A t \in Services : t # "identity" => op'[t] = op[t]
    BY <1>4 DEF FloorInv, FloorTypes, TypeOK, Services
  <1>6. UNCHANGED <<work, passport, runtime, session, mandates, queued, responses, ops, faults>>
    BY <1>4 DEF records
  <1>7. Owes("identity")' = Elements(T)
    BY <1>5 DEF Owes
  <1>8. \A j, b : j # "fleet" => (Owed(j, b)' <=> Owed(j, b))
    BY <1>2, <1>3, <1>7 DEF Owed
  <1>9. Follow'
    <2>1. \A k, a : Owed(k, a)' => Owed(k, a) \/ k = "fleet"
      BY <1>2, <1>7 DEF Owed
    <2>2. \A k \in {"v1", "v2", "runtime", "session"} :
              /\ \A a : Owed(k, a)' = Owed(k, a)
              /\ \A x \in Owes("identity")' : x.kind = k => x \in Owes("identity")
      <3>1. \A k \in {"v1", "v2", "runtime", "session"} : k # "fleet"
        OBVIOUS
      <3>2. \A x \in Owes("identity")' : x \in Owes("identity")
        BY <1>2, <1>7
      <3>3. \A k \in {"v1", "v2", "runtime", "session"} : \A a : Owed(k, a)' = Owed(k, a)
        BY <1>2, <1>3, <1>7 DEF Owed
      <3> QED BY <3>2, <3>3
    <2> QED BY <1>6, <2>1, <2>2, RecordsAgree
  <1>10. Grows /\ MandatesSound' /\ CollaborationSound' /\ KeepsFloor'
    BY <1>4, <1>5, <1>6, OthersStay DEF Services
  <1>11. FloorTypes'
    <2>1. /\ faults' \in Nat /\ overlapped' \in [rows : SUBSET Agents, work : BOOLEAN]
          /\ fleet' \in Board /\ work' \in Works /\ ops' \in Nat
      BY <1>3, <1>4, <1>6, FloorTyped DEF FloorInv, FloorTypes, TypeOK
    <2> QED BY <1>2, <1>5, <1>6, <2>1, TypesStay DEF FloorInv, FloorTypes, Services
  <1>12. Front' /\ Told' /\ ShownRight'
    BY <1>2, <1>5, <1>7 DEF Front, Told, ShownRight
  <1>13. Ownership'
    <2>1. \A f : Owned(f) => Owned(f)'
      BY <1>6 DEF Owned, Issued
    <2>2. Owned(h.to)
      BY <1>2, <1>3 DEF FloorInv, FloorSound, Ownership, Services
    <2>3. ASSUME NEW s \in Services, NEW y \in Owes(s)', y.kind = "fleet" PROVE Owned(y.to)'
      <3>1. y \in Owes(s)
        BY <1>2, <1>5, <1>7, <2>3 DEF Owes, Elements
      <3> QED BY <2>1, <2>3, <3>1 DEF FloorInv, FloorSound, Ownership
    <2> QED BY <1>4, <2>1, <2>2, <2>3 DEF Ownership
  <1>14. Rows'
    <2> SUFFICES ASSUME faults = 0, NEW b \in Agents, b \notin overlapped.rows, fleet[b] = h.from[b]
                 PROVE  RowSound(b)'
      BY <1>4, <1>6 DEF Rows
    <2>1. RowSound(b) /\ (Right(b, h.to) \/ KeepsRevoked(b, fleet, h.to))
      BY <1>2, <1>3 DEF FloorInv, FloorSound, Rows, IdentitySound, ShownRight, KeepsRevoked
    <2>2. Showing(b)' <=> Showing(b)
      BY <1>8 DEF Showing
    <2>3. CASE Showing(b)
      <3>1. PICK p \in Lifecycle, q \in Lifecycle, r \in BOOLEAN, s \in Session : Agreed(b, p, q, r, s)
        BY DEF FloorInv, IdentitySound, Follow
      <3>2. ~ Owed("v1", b)
        BY <1>2, <1>3 DEF Owed
      <3>3. passport[b].v1 # "none"
        BY <2>3, <3>1, <3>2 DEF Agreed, Becomes, Now
      <3>4. Owed("show-lifecycle", b) => h.to[b] # Absent
        BY <2>1, <2>3, <3>3 DEF RowSound, Right, KeepsRevoked
      <3> QED BY <1>4, <1>8, <2>2, <2>3, <3>4 DEF RowSound
    <2>4. CASE ~ Showing(b)
      <3>1. Right(b, fleet) \/ Right(b, h.to)
        BY <1>2, <2>1, <2>4 DEF RowSound
      <3>2. Right(b, h.to)
        BY <2>1, <3>1 DEF Right, KeepsRevoked
      <3>3. Right(b, fleet)'
        BY <1>4, <1>6, <3>2 DEF Right, RevokedOf
      <3> QED BY <2>2, <2>4, <3>3 DEF RowSound
    <2> QED BY <2>3, <2>4
  <1> QED BY <1>9, <1>10, <1>11, <1>12, <1>13, <1>14 DEF FloorInv, IdentitySound, FloorSound

LEMMA IdentityWritesRecord ==
    ASSUME FloorInv, WriteRecord("identity")
    PROVE  FloorInv'
  <1>1. PICK h, T : h = op["identity"][1] /\ T = Tail(op["identity"])
    OBVIOUS
  <1>2. /\ op["identity"] # <<>> /\ h \in IdentityStep /\ T \in Seq(IdentityStep)
        /\ Owes("identity") = {h} \cup Elements(T) /\ Head(op["identity"]) = h
        /\ \A x \in Elements(T) : x.kind \notin {"v1", "fleet"}
        /\ \A i \in DOMAIN T : T[i].kind \notin {"v1", "fleet"}
    <2>1. op["identity"] # <<>>
      BY DEF WriteRecord
    <2> QED BY <1>1, <2>1, IdentityHead
  <1>3. /\ h.kind \in {"v1", "v2", "runtime", "session"} /\ h.about \in Agents
        /\ \/ /\ h.kind \in {"v1", "v2"} /\ passport' = [passport EXCEPT ![h.about][h.kind] = h.status]
              /\ h.status \in Lifecycle \ {"none"}
              /\ UNCHANGED <<runtime, session>>
           \/ /\ h.kind = "runtime" /\ runtime' = [runtime EXCEPT ![h.about] = h.status]
              /\ h.status \in BOOLEAN
              /\ UNCHANGED <<passport, session>>
           \/ /\ h.kind = "session" /\ session' = [session EXCEPT ![h.about] = h.status]
              /\ h.status \in Session
              /\ UNCHANGED <<passport, runtime>>
        /\ op' = [op EXCEPT !["identity"] = T]
        /\ UNCHANGED <<fleet, work, mandates, queued, responses, ops, faults, overlapped>>
    <2>1. h.kind \notin {"issue", "revoke", "queued", "response"}
      BY <1>2, IdentityKinds DEF Shows
    <2> QED BY <1>1, <1>2, <2>1, IdentityKinds DEF WriteRecord, Shows
  <1>4. PICK k \in {"v1", "v2", "runtime", "session"}, a \in Agents, v \in {h.status} :
           k = h.kind /\ a = h.about
    BY <1>3
  <1>5. /\ passport \in [Agents -> [v1 : Lifecycle, v2 : Lifecycle]]
        /\ runtime \in [Agents -> BOOLEAN] /\ session \in [Agents -> Session]
    BY DEF FloorInv, FloorTypes, TypeOK
  <1>6. /\ passport' \in [Agents -> [v1 : Lifecycle, v2 : Lifecycle]]
        /\ runtime' \in [Agents -> BOOLEAN] /\ session' \in [Agents -> Session]
        /\ Now(k, a)' = v
        /\ \A j \in {"v1", "v2", "runtime", "session"}, b \in Agents : j # k \/ b # a => Now(j, b)' = Now(j, b)
        /\ \A b \in Agents : k # "v1" \/ b # a => passport'[b].v1 = passport[b].v1
    <2>1. CASE k = "v1"
      <3>1. /\ passport' = [passport EXCEPT ![a]["v1"] = v] /\ v \in Lifecycle /\ UNCHANGED <<runtime, session>>
        BY <1>3, <1>4, <2>1
      <3>2. /\ passport' \in [Agents -> [v1 : Lifecycle, v2 : Lifecycle]]
            /\ passport'[a].v1 = v /\ passport'[a].v2 = passport[a].v2
            /\ \A b \in Agents \ {a} : passport'[b] = passport[b]
        BY <1>5, <3>1
      <3> QED BY <1>5, <2>1, <3>1, <3>2 DEF Now
    <2>2. CASE k = "v2"
      <3>1. /\ passport' = [passport EXCEPT ![a]["v2"] = v] /\ v \in Lifecycle /\ UNCHANGED <<runtime, session>>
        BY <1>3, <1>4, <2>2
      <3>2. /\ passport' \in [Agents -> [v1 : Lifecycle, v2 : Lifecycle]]
            /\ passport'[a].v2 = v /\ passport'[a].v1 = passport[a].v1
            /\ \A b \in Agents \ {a} : passport'[b] = passport[b]
        BY <1>5, <3>1
      <3> QED BY <1>5, <2>2, <3>1, <3>2 DEF Now
    <2>3. CASE k = "runtime"
      BY <1>3, <1>4, <1>5, <2>3 DEF Now
    <2>4. CASE k = "session"
      BY <1>3, <1>4, <1>5, <2>4 DEF Now
    <2> QED BY <2>1, <2>2, <2>3, <2>4
  <1>7. /\ op'["identity"] = T /\ DOMAIN op' = Services
        /\ \A t \in Services : t # "identity" => op'[t] = op[t]
    BY <1>3 DEF FloorInv, FloorTypes, TypeOK, Services
  <1>8. Owes("identity")' = Elements(T)
    BY <1>7 DEF Owes
  <1>9. \A j, b : /\ Owed(j, b)' => Owed(j, b)
                  /\ j # k \/ b # a => Owed(j, b)' = Owed(j, b)
    BY <1>2, <1>4, <1>8 DEF Owed
  <1>10. \A b : Showing(b)' = Showing(b)
    BY <1>9 DEF Showing
  <1>11. Follow'
    <2> SUFFICES ASSUME faults = 0, NEW b \in Agents
                 PROVE  \E p \in Lifecycle, q \in Lifecycle, r \in BOOLEAN, s \in Session : Agreed(b, p, q, r, s)'
      BY <1>3 DEF Follow
    <2>1. PICK p \in Lifecycle, q \in Lifecycle, r \in BOOLEAN, s \in Session : Agreed(b, p, q, r, s)
      BY DEF FloorInv, IdentitySound, Follow
    <2>2. ASSUME NEW j \in {"v1", "v2", "runtime", "session"}, NEW u, Becomes(j, b, u) PROVE Becomes(j, b, u)'
      <3>1. \A x \in Owes("identity")' : x.kind = j /\ x.about = b => x.status = u
        BY <1>2, <1>8, <2>2 DEF Becomes
      <3>2. CASE j = k /\ b = a
        <4>1. u = v
          BY <1>2, <1>4, <2>2, <3>2 DEF Becomes
        <4> QED BY <1>6, <3>1, <3>2, <4>1 DEF Becomes
      <3>3. CASE ~ (j = k /\ b = a)
        BY <1>6, <1>9, <2>2, <3>1, <3>3 DEF Becomes
      <3> QED BY <3>2, <3>3
    <2>3. Agreed(b, p, q, r, s)'
      BY <1>9, <1>10, <2>1, <2>2 DEF Agreed
    <2> QED BY <2>3
  <1>12. Grows /\ MandatesSound' /\ CollaborationSound' /\ KeepsFloor'
    BY <1>3, <1>7, OthersStay DEF Services
  <1>13. FloorTypes'
    BY <1>2, <1>3, <1>6, <1>7 DEF FloorInv, FloorTypes, TypeOK, Services
  <1>14. Front' /\ Told' /\ ShownRight'
    BY <1>2, <1>7, <1>8 DEF Front, Told, ShownRight
  <1>15. Ownership'
    <2>1. \A f : Owned(f) => Owned(f)'
      BY <1>3 DEF Owned, Issued
    <2>2. ASSUME NEW s \in Services, NEW y \in Owes(s)', y.kind = "fleet" PROVE Owned(y.to)'
      <3>1. y \in Owes(s)
        BY <1>2, <1>7, <1>8, <2>2 DEF Owes, Elements
      <3> QED BY <2>1, <2>2, <3>1 DEF FloorInv, FloorSound, Ownership
    <2> QED BY <1>3, <2>1, <2>2 DEF FloorInv, FloorSound, Ownership
  <1>16. Rows'
    <2> SUFFICES ASSUME faults = 0, NEW b \in Agents, b \notin overlapped.rows PROVE RowSound(b)'
      BY <1>3 DEF Rows
    <2>1. RowSound(b)
      BY DEF FloorInv, FloorSound, Rows
    <2>2. CASE Showing(b)
      BY <1>3, <1>9, <1>10, <2>1, <2>2 DEF RowSound
    <2>3. CASE ~ Showing(b)
      <3>1. Right(b, fleet)
        BY <1>2, <1>3, <2>1, <2>3 DEF RowSound
      <3>2. k # "v1" \/ b # a
        BY <1>2, <1>4, <2>3 DEF FloorInv, IdentitySound, Told
      <3>3. Right(b, fleet)'
        BY <1>3, <1>6, <3>1, <3>2 DEF Right, RevokedOf
      <3> QED BY <1>10, <2>3, <3>3 DEF RowSound
    <2> QED BY <2>2, <2>3
  <1> QED BY <1>11, <1>12, <1>13, <1>14, <1>15, <1>16 DEF FloorInv, IdentitySound, FloorSound

-----------------------------------------------------------------------------
(* The mandates.                                                            *)

\* The rows of the floor, when neither it nor the identities move.
LEMMA RowsStay ==
    ASSUME FloorInv, Grows, op'["identity"] = op["identity"], UNCHANGED <<fleet, passport>>,
           faults' = 0 => faults = 0, overlapped.rows \subseteq overlapped'.rows
    PROVE  Rows'
  <1>1. Owes("identity")' = Owes("identity")
    BY DEF Owes
  <1>2. \A k, b : Owed(k, b)' = Owed(k, b)
    BY <1>1 DEF Owed
  <1>3. \A b : Showing(b)' = Showing(b)
    BY <1>2 DEF Showing
  <1>4. \A b, f : Right(b, f) => Right(b, f)'
    BY GrownFacts DEF Right
  <1>5. \A b : RowSound(b) => RowSound(b)'
    BY <1>1, <1>2, <1>3, <1>4 DEF RowSound
  <1> QED BY <1>5 DEF FloorInv, FloorSound, Rows

\* The writes of the floor that are owed, when none is added, or those that are are sound.
LEMMA WritesStay ==
    ASSUME FloorInv, Grows, UNCHANGED fleet,
           \A s \in Services : \A x \in Owes(s)' : x.kind = "fleet" =>
              \/ x \in Owes(s)
              \/ /\ s # "identity" /\ Owned(x.to)
                 /\ \A a \in Agents : Keeps(a, x.from, x.to)
    PROVE  KeepsFloor' /\ Ownership'
  <1>1. \A a, f, t : Keeps(a, f, t) => Keeps(a, f, t)'
    BY GrownFacts DEF Keeps
  <1>2. \A f : Owned(f) => Owned(f)'
    BY GrownFacts DEF Owned
  <1>3. KeepsFloor'
    <2>1. ASSUME NEW s \in {"mandates", "collaboration"}, NEW x \in Owes(s)', x.kind = "fleet", NEW a \in Agents
          PROVE  Keeps(a, x.from, x.to)'
      <3>1. Keeps(a, x.from, x.to)
        BY <2>1 DEF FloorInv, FloorSound, KeepsFloor, Services
      <3> QED BY <1>1, <3>1
    <2> QED BY <2>1 DEF KeepsFloor
  <1>4. Ownership'
    <2>1. ASSUME NEW s \in Services, NEW x \in Owes(s)', x.kind = "fleet" PROVE Owned(x.to)'
      <3>1. Owned(x.to)
        BY <2>1 DEF FloorInv, FloorSound, Ownership
      <3> QED BY <1>2, <3>1
    <2>2. Owned(fleet)'
      BY <1>2 DEF FloorInv, FloorSound, Ownership, Owned
    <2> QED BY <2>1, <2>2 DEF Ownership
  <1> QED BY <1>3, <1>4

LEMMA MandatesHead ==
    ASSUME FloorInv, op["mandates"] # <<>>
    PROVE  /\ op["mandates"][1] \in MandateStep /\ Head(op["mandates"]) = op["mandates"][1]
           /\ 1 \in DOMAIN op["mandates"]
           /\ Tail(op["mandates"]) \in Seq(MandateStep)
           /\ Owes("mandates") = {op["mandates"][1]} \cup Elements(Tail(op["mandates"]))
           /\ \A i \in DOMAIN Tail(op["mandates"]) :
                 /\ i \in Nat \ {0} /\ i + 1 \in DOMAIN op["mandates"]
                 /\ Tail(op["mandates"])[i] = op["mandates"][i + 1]
           /\ Len(Tail(op["mandates"])) = Len(op["mandates"]) - 1 /\ Len(op["mandates"]) \in Nat \ {0}
           /\ op["mandates"][1].kind \notin {"issue", "revoke"} =>
                 \A i \in DOMAIN Tail(op["mandates"]) : Tail(op["mandates"])[i].kind \in {"fleet", "work"}
  <1>1. PICK list \in Seq(MandateStep) : list = op["mandates"] /\ list # <<>>
    BY DEF FloorInv, FloorTypes
  <1>2. /\ Tail(list) \in Seq(MandateStep) /\ Head(list) = list[1] /\ list[1] \in MandateStep /\ 1 \in DOMAIN list
        /\ Len(Tail(list)) = Len(list) - 1 /\ Len(list) \in Nat \ {0}
        /\ \A i \in DOMAIN Tail(list) : i \in Nat \ {0} /\ i + 1 \in DOMAIN list /\ Tail(list)[i] = list[i + 1]
        /\ Elements(Tail(list)) \subseteq Elements(list)
        /\ list[1] \in Elements(list)
        /\ \A x \in Elements(list) : x = list[1] \/ x \in Elements(Tail(list))
    BY <1>1, Behead
  <1>3. ASSUME list[1].kind \notin {"issue", "revoke"}, NEW i \in DOMAIN Tail(list)
        PROVE  Tail(list)[i].kind \in {"fleet", "work"}
    <2>1. i \in Nat \ {0} /\ i + 1 \in DOMAIN list /\ Tail(list)[i] = list[i + 1]
      BY <1>2
    <2>2. PICK x \in MandateStep : x = list[i + 1]
      BY <2>1, InList
    <2>3. MandateSound(i + 1, x)
      BY <1>1, <2>1, <2>2 DEF FloorInv, MandatesSound
    <2>4. x.kind \in {"issue", "show-mandate", "revoke", "contain", "fleet", "work"}
      BY MandateKinds
    <2>5. x.kind \notin {"issue", "revoke", "show-mandate", "contain"}
      BY <1>1, <1>3, <2>1, <2>3 DEF MandateSound
    <2> QED BY <2>1, <2>2, <2>4, <2>5
  <1>4. Elements(list) = {list[1]} \cup Elements(Tail(list))
    BY <1>2
  <1> QED BY <1>1, <1>2, <1>3, <1>4 DEF Owes

LEMMA MandatesStart ==
    ASSUME FloorInv, NEW x \in MandateStep, NEW y \in MandateStep, Start("mandates", <<x, y>>),
           \/ x.kind = "issue" /\ y.kind = "show-mandate" /\ x.about = y.about
           \/ x.kind = "revoke" /\ y.kind = "contain" /\ x.about = y.about /\ x.about \in DOMAIN mandates
    PROVE  FloorInv'
  <1>1. PICK L \in Seq(MandateStep) :
           L = <<x, y>> /\ DOMAIN L = {1, 2} /\ L[1] = x /\ L[2] = y /\ Len(L) = 2 /\ Elements(L) = {x, y}
    <2>1. /\ <<x, y>> \in Seq(MandateStep) /\ Len(<<x, y>>) = 2 /\ DOMAIN <<x, y>> = {1, 2}
          /\ <<x, y>>[1] = x /\ <<x, y>>[2] = y /\ Elements(<<x, y>>) = {x, y}
      BY Pairs
    <2> QED BY <2>1
  <1>2. /\ op'["mandates"] = L /\ DOMAIN op' = Services
        /\ \A t \in Services : t # "mandates" => op'[t] = op[t]
        /\ ops' \in Nat
        /\ UNCHANGED <<fleet, work, passport, runtime, session, mandates, queued, responses, faults, overlapped>>
    BY <1>1, Starts DEF FloorInv, Services
  <1>3. Grows
    BY <1>2 DEF Grows
  <1>4. FloorTypes'
    <2>1. /\ faults' \in Nat /\ overlapped' \in [rows : SUBSET Agents, work : BOOLEAN]
          /\ fleet' \in Board /\ work' \in Works
      BY <1>2, FloorTyped DEF FloorInv, FloorTypes, TypeOK
    <2> QED BY <1>2, <2>1, TypesStay DEF FloorInv, FloorTypes, Services
  <1>5. IdentitySound' /\ CollaborationSound' /\ Rows'
    BY <1>2, <1>3, IdentityStays, CollaborationStays, RowsStay DEF FloorInv, Services
  <1>6. MandatesSound'
    <2>1. MandateSound(1, x)' /\ MandateSound(2, y)'
      BY <1>1, <1>2 DEF MandateSound
    <2> QED BY <1>1, <1>2, <2>1 DEF MandatesSound
  <1>7. KeepsFloor' /\ Ownership'
    <2>1. ASSUME NEW s \in Services, NEW z \in Owes(s)', z.kind = "fleet" PROVE z \in Owes(s)
      <3>1. Owes("mandates")' = {x, y}
        BY <1>1, <1>2 DEF Owes
      <3> QED BY <1>2, <2>1, <3>1 DEF Owes
    <2> QED BY <1>2, <1>3, <2>1, WritesStay
  <1> QED BY <1>4, <1>5, <1>6, <1>7 DEF FloorInv, FloorSound

LEMMA CreateStep ==
    ASSUME FloorInv, NEW a \in Agents, Create(a)
    PROVE  FloorInv'
  <1>1. PICK x, y : x = [kind |-> "issue", about |-> a] /\ y = Look("show-mandate", a)
    OBVIOUS
  <1>2. /\ x \in MandateStep /\ y \in MandateStep /\ x.kind = "issue" /\ y.kind = "show-mandate"
        /\ x.about = a /\ y.about = a
    BY <1>1 DEF Look, MandateStep
  <1>3. Start("mandates", <<x, y>>)
    BY <1>1 DEF Create
  <1> QED BY <1>2, <1>3, MandatesStart

LEMMA RevokeStep ==
    ASSUME FloorInv, NEW m \in DOMAIN mandates, Revoke(m)
    PROVE  FloorInv'
  <1>1. PICK x, y : x = [kind |-> "revoke", about |-> m] /\ y = Look("contain", m)
    OBVIOUS
  <1>2. m \in Nat \ {0}
    BY FloorTyped DEF FloorInv
  <1>3. /\ x \in MandateStep /\ y \in MandateStep /\ x.kind = "revoke" /\ y.kind = "contain"
        /\ x.about = m /\ y.about = m
    BY <1>1, <1>2 DEF Look, MandateStep
  <1>4. Start("mandates", <<x, y>>)
    BY <1>1 DEF Revoke
  <1> QED BY <1>3, <1>4, MandatesStart

LEMMA MandatesWriteRecord ==
    ASSUME FloorInv, WriteRecord("mandates")
    PROVE  FloorInv'
  <1>1. PICK L, h, T : L = op["mandates"] /\ h = L[1] /\ T = Tail(L)
    OBVIOUS
  <1>2. /\ L # <<>> /\ h \in MandateStep /\ T \in Seq(MandateStep) /\ Head(L) = h /\ 1 \in DOMAIN L
        /\ Owes("mandates") = {h} \cup Elements(T)
        /\ \A i \in DOMAIN T : i \in Nat \ {0} /\ i + 1 \in DOMAIN L /\ T[i] = L[i + 1]
        /\ Len(T) = Len(L) - 1 /\ Len(L) \in Nat \ {0}
    <2>1. L # <<>>
      BY <1>1 DEF WriteRecord
    <2> QED BY <1>1, <2>1, MandatesHead
  <1>3. /\ \/ h.kind = "issue" /\ mandates' = Append(mandates, [agent |-> h.about, status |-> "active"])
           \/ h.kind = "revoke" /\ mandates' = [mandates EXCEPT ![h.about].status = "revoked"]
        /\ op' = [op EXCEPT !["mandates"] = T]
        /\ UNCHANGED <<passport, runtime, session, queued, responses, fleet, work, ops, faults, overlapped>>
    <2>1. h.kind \notin {"v1", "v2", "runtime", "session", "queued", "response"}
      BY <1>2, MandateKinds
    <2> QED BY <1>1, <1>2, <2>1 DEF WriteRecord
  <1>4. /\ op'["mandates"] = T /\ DOMAIN op' = Services
        /\ \A t \in Services : t # "mandates" => op'[t] = op[t]
    BY <1>3 DEF FloorInv, FloorTypes, TypeOK, Services
  <1>5. PICK M : M = [agent : Agents, status : {"active", "revoked"}] /\ mandates \in Seq(M)
    BY DEF FloorInv, FloorTypes, TypeOK
  <1>6. MandateSound(1, h)
    BY <1>1, <1>2 DEF FloorInv, MandatesSound
  <1>7. CASE h.kind = "issue"
    <2>1. PICK new \in M : new = [agent |-> h.about, status |-> "active"]
      BY <1>2, <1>5, <1>7, MandateKinds
    <2>2. mandates' = Append(mandates, new)
      BY <1>3, <1>7, <2>1
    <2>3. /\ mandates' \in Seq(M) /\ Len(mandates') = Len(mandates) + 1 /\ Len(mandates) \in Nat
          /\ DOMAIN mandates' = 1..(Len(mandates) + 1) /\ DOMAIN mandates = 1..Len(mandates)
          /\ \A m \in 1..Len(mandates) : mandates'[m] = mandates[m]
          /\ mandates'[Len(mandates) + 1] = new
      BY <1>5, <2>2
    <2>4. Grows
      BY <2>3 DEF Grows
    <2>5. Issued(h.about, Len(mandates))'
      BY <2>1, <2>3 DEF Issued
    <2> QED
      <3>1. MandatesSound'
        <4>1. ASSUME NEW i \in DOMAIN T, NEW x \in MandateStep, x = T[i] PROVE MandateSound(i, x)'
          <5>1. MandateSound(i + 1, x) /\ i \in Nat \ {0}
            BY <1>1, <1>2, <4>1 DEF FloorInv, MandatesSound
          <5>2. x.kind \notin {"issue", "revoke", "contain"}
            BY <1>1, <1>7, <5>1 DEF MandateSound
          <5>3. x.kind = "show-mandate" => i = 1 /\ x.about = h.about
            BY <1>1, <5>1 DEF MandateSound
          <5>4. Revocation => Revocation'
            BY <2>4, GrownFacts
          <5>5. x.kind = "work" =>
                  /\ Revocation' /\ Len(x.to) = Len(x.from)
                  /\ \A j \in DOMAIN x.to : /\ x.to[j].responses = x.from[j].responses
                                            /\ x.to[j].responses <= responses'[j]
            BY <1>3, <5>1, <5>4 DEF MandateSound
          <5> QED BY <2>5, <5>2, <5>3, <5>5 DEF MandateSound
        <4>2. \A i \in DOMAIN T : T[i] \in MandateStep
          BY <1>2
        <4> QED BY <1>4, <4>1, <4>2 DEF MandatesSound
      <3>2. IdentitySound' /\ CollaborationSound' /\ Rows'
        BY <1>3, <1>4, <2>4, IdentityStays, CollaborationStays, RowsStay DEF FloorInv, Services
      <3>3. KeepsFloor' /\ Ownership'
        <4>1. \A s \in Services : \A z \in Owes(s)' : z \in Owes(s)
          BY <1>2, <1>4 DEF Owes
        <4> QED BY <1>3, <2>4, <4>1, WritesStay
      <3>4. FloorTypes'
        BY <1>2, <1>3, <1>4, <1>5, <2>3 DEF FloorInv, FloorTypes, TypeOK, Services
      <3> QED BY <3>1, <3>2, <3>3, <3>4 DEF FloorInv, FloorSound
  <1>8. CASE h.kind = "revoke"
    <2>1. PICK m \in DOMAIN mandates : m = h.about
      BY <1>6, <1>8 DEF MandateSound
    <2>2. mandates' = [mandates EXCEPT ![m].status = "revoked"]
      BY <1>3, <1>8, <2>1
    <2>3. /\ mandates' \in Seq(M) /\ DOMAIN mandates' = DOMAIN mandates
          /\ mandates'[m] = [agent |-> mandates[m].agent, status |-> "revoked"]
          /\ \A n \in DOMAIN mandates : n # m => mandates'[n] = mandates[n]
      <3>1. mandates[m] \in M
        BY <1>5, InList
      <3>2. PICK r \in M : /\ r = [mandates[m] EXCEPT !.status = "revoked"]
                           /\ r = [agent |-> mandates[m].agent, status |-> "revoked"]
        <4>1. [mandates[m] EXCEPT !.status = "revoked"] = [agent |-> mandates[m].agent, status |-> "revoked"]
          BY <1>5, <3>1
        <4>2. [agent |-> mandates[m].agent, status |-> "revoked"] \in M
          BY <1>5, <3>1
        <4> QED BY <4>1, <4>2
      <3>3. mandates' = [mandates EXCEPT ![m] = r]
        BY <2>2, <3>2
      <3> QED BY <1>5, <3>2, <3>3
    <2>4. Grows
      <3>1. mandates[m] \in M
        BY <1>5, InList
      <3>2. mandates[m].status = "revoked" => mandates'[m] = mandates[m]
        BY <1>5, <2>3, <3>1
      <3> QED BY <2>3, <3>2 DEF Grows
    <2>5. m \in DOMAIN mandates' /\ mandates'[m].status = "revoked"
      BY <2>3
    <2> QED
      <3>1. MandatesSound'
        <4>1. ASSUME NEW i \in DOMAIN T, NEW x \in MandateStep, x = T[i] PROVE MandateSound(i, x)'
          <5>1. MandateSound(i + 1, x) /\ i \in Nat \ {0}
            BY <1>1, <1>2, <4>1 DEF FloorInv, MandatesSound
          <5>2. x.kind \notin {"issue", "revoke", "show-mandate"}
            BY <1>1, <1>8, <5>1 DEF MandateSound
          <5>3. x.kind = "contain" => i = 1 /\ x.about = m /\ i = Len(T)
            <6>1. x.kind = "contain" => i + 1 = 2 /\ x.about = h.about /\ i + 1 = Len(L)
              BY <1>1, <5>1 DEF MandateSound
            <6> QED BY <1>2, <2>1, <5>1, <6>1
          <5>4. Revocation => Revocation'
            BY <2>4, GrownFacts
          <5>5. x.kind = "work" =>
                  /\ Revocation' /\ Len(x.to) = Len(x.from)
                  /\ \A j \in DOMAIN x.to : /\ x.to[j].responses = x.from[j].responses
                                            /\ x.to[j].responses <= responses'[j]
            BY <1>3, <5>1, <5>4 DEF MandateSound
          <5> QED BY <1>4, <2>5, <5>2, <5>3, <5>5 DEF MandateSound
        <4>2. \A i \in DOMAIN T : T[i] \in MandateStep
          BY <1>2
        <4> QED BY <1>4, <4>1, <4>2 DEF MandatesSound
      <3>2. IdentitySound' /\ CollaborationSound' /\ Rows'
        BY <1>3, <1>4, <2>4, IdentityStays, CollaborationStays, RowsStay DEF FloorInv, Services
      <3>3. KeepsFloor' /\ Ownership'
        <4>1. \A s \in Services : \A z \in Owes(s)' : z \in Owes(s)
          BY <1>2, <1>4 DEF Owes
        <4> QED BY <1>3, <2>4, <4>1, WritesStay
      <3>4. FloorTypes'
        BY <1>2, <1>3, <1>4, <1>5, <2>3 DEF FloorInv, FloorTypes, TypeOK, Services
      <3> QED BY <3>1, <3>2, <3>3, <3>4 DEF FloorInv, FloorSound
  <1> QED BY <1>3, <1>7, <1>8

\* A list of writes of the floor, each of them sound, may take the place of the operation's.
LEMMA MandatesRead ==
    ASSUME FloorInv, NEW L \in Seq(MandateStep), op' = [op EXCEPT !["mandates"] = L],
           UNCHANGED <<fleet, work, records, ops, faults, overlapped>>,
           \A x \in Elements(L) :
              /\ x.kind \in {"fleet", "work"}
              /\ x.kind = "fleet" => x \in Owes("mandates") \/ (Owned(x.to) /\ \A a \in Agents : Keeps(a, x.from, x.to))
              /\ MandateSound(1, x)
    PROVE  FloorInv'
  <1>1. /\ op'["mandates"] = L /\ DOMAIN op' = Services
        /\ \A t \in Services : t # "mandates" => op'[t] = op[t]
    BY DEF FloorInv, FloorTypes, TypeOK, Services
  <1>2. UNCHANGED <<passport, runtime, session, mandates, queued, responses>>
    BY DEF records
  <1>3. Grows
    BY <1>2 DEF Grows
  <1>4. FloorTypes'
    <2>1. /\ faults' \in Nat /\ overlapped' \in [rows : SUBSET Agents, work : BOOLEAN] /\ fleet' \in Board /\ work' \in Works
          /\ ops' \in Nat
      BY <1>2, FloorTyped DEF FloorInv, FloorTypes, TypeOK
    <2> QED BY <1>1, <1>2, <2>1, TypesStay DEF FloorInv, FloorTypes, Services
  <1>5. IdentitySound' /\ CollaborationSound' /\ Rows'
    BY <1>1, <1>2, <1>3, IdentityStays, CollaborationStays, RowsStay DEF FloorInv, Services
  <1>6. MandatesSound'
    <2>1. ASSUME NEW i \in DOMAIN L, NEW x, x = L[i] PROVE MandateSound(i, x)'
      <3>1. x.kind \in {"fleet", "work"} /\ MandateSound(1, x)
        BY <2>1 DEF Elements
      <3> QED BY <1>2, <3>1 DEF MandateSound, Revocation
    <2> QED BY <1>1, <2>1 DEF MandatesSound
  <1>7. KeepsFloor' /\ Ownership'
    <2>1. ASSUME NEW s \in Services, NEW x \in Owes(s)', x.kind = "fleet"
          PROVE  x \in Owes(s) \/ (s # "identity" /\ Owned(x.to) /\ \A a \in Agents : Keeps(a, x.from, x.to))
      <3>1. CASE s = "mandates"
        BY <1>1, <2>1, <3>1 DEF Owes
      <3>2. CASE s # "mandates"
        BY <1>1, <2>1, <3>2 DEF Owes
      <3> QED BY <3>1, <3>2
    <2> QED BY <1>3, <2>1, WritesStay
  <1> QED BY <1>4, <1>5, <1>6, <1>7 DEF FloorInv, FloorSound

LEMMA ShowsMandate ==
    ASSUME FloorTypes, Owned(fleet), NEW x \in Agents, Issued(x, Len(mandates)),
           NEW N, N = NewFleet("show-mandate", x)
    PROVE  N \in Board /\ Owned(N) /\ \A a \in Agents : Keeps(a, fleet, N)
  <1>1. fleet \in [Agents -> Row] /\ Len(mandates) \in Nat
    BY DEF FloorTypes, TypeOK
  <1>2. PICK w \in Row : w = fleet[x]
    BY <1>1
  <1>3. PICK n \in Nat : n = Len(mandates)
    BY <1>1
  <1>4. N = [fleet EXCEPT ![x] = IF w = Absent THEN w ELSE [w EXCEPT !.mandate = n]]
    BY <1>1, <1>2, <1>3 DEF NewFleet
  <1>5. PICK r : r = IF w = Absent THEN w ELSE [w EXCEPT !.mandate = n]
    OBVIOUS
  <1>6. r \in Row /\ (r = Absent <=> w = Absent) /\ r.status = w.status /\ (r.mandate = 0 \/ r.mandate = n)
    <2>1. CASE w = Absent
      BY <1>5, <2>1, RowFacts
    <2>2. CASE w # Absent
      BY <1>5, <2>2, RowMandate
    <2> QED BY <2>1, <2>2
  <1>7. N \in Board /\ N[x] = r /\ \A a \in Agents \ {x} : N[a] = fleet[a]
    BY <1>1, <1>4, <1>5, <1>6 DEF Board
  <1> QED BY <1>2, <1>3, <1>6, <1>7 DEF Owned, Keeps

LEMMA Contains ==
    ASSUME FloorTypes, Owned(fleet), Logged, NEW m \in DOMAIN mandates, mandates[m].status = "revoked",
           NEW N, N = NewFleet("contain", m), NEW W, W = Contained(m)
    PROVE  /\ N \in Board /\ Owned(N) /\ \A a \in Agents : Keeps(a, fleet, N)
           /\ W \in Works /\ Len(W) = Len(work) /\ Revocation
           /\ \A j \in DOMAIN W : W[j].responses = work[j].responses /\ W[j].responses <= responses[j]
  <1>1. /\ fleet \in [Agents -> Row] /\ m \in Nat \ {0} /\ work \in Seq(Item) /\ Len(work) <= MaxItems
        /\ mandates[m] \in [agent : Agents, status : {"active", "revoked"}]
    <2>1. fleet \in [Agents -> Row] /\ work \in Seq(Item) /\ Len(work) <= MaxItems
      BY DEF FloorTypes, TypeOK
    <2>2. \A n \in DOMAIN mandates : /\ n \in Nat \ {0}
                                      /\ mandates[n] \in [agent : Agents, status : {"active", "revoked"}]
      BY FloorTyped
    <2> QED BY <2>1, <2>2
  <1>2. /\ DOMAIN N = Agents
        /\ N = [a \in Agents |-> IF fleet[a].mandate = m THEN [fleet[a] EXCEPT !.status = "blocked"] ELSE fleet[a]]
    BY DEF NewFleet
  <1>3. ASSUME NEW a \in Agents
        PROVE  /\ N[a] \in Row /\ N[a].mandate = fleet[a].mandate
               /\ Keeps(a, fleet, N)
    <2>1. PICK w \in Row : w = fleet[a]
      BY <1>1
    <2>2. CASE w.mandate = m
      <3>1. N[a] = [w EXCEPT !.status = "blocked"]
        BY <1>2, <2>1, <2>2
      <3>2. w # Absent
        BY <1>1, <2>2, RowFacts
      <3>3. PICK r : r = [w EXCEPT !.status = "blocked"]
        OBVIOUS
      <3>4. r \in Row /\ r # Absent /\ r.mandate = w.mandate
        BY <3>2, <3>3, RowStatus
      <3>5. mandates[m].agent = a
        BY <1>1, <2>1, <2>2 DEF Owned, Issued
      <3>6. mandates[m] = [agent |-> a, status |-> "revoked"]
        BY <1>1, <3>5
      <3>7. RevokedOf(a)
        BY <3>6 DEF RevokedOf
      <3> QED BY <2>1, <3>1, <3>2, <3>3, <3>4, <3>7 DEF Keeps
    <2>3. CASE w.mandate # m
      <3>1. N[a] = w
        BY <1>2, <2>1, <2>3
      <3> QED BY <2>1, <3>1 DEF Keeps
    <2> QED BY <2>2, <2>3
  <1>4. N \in Board
    <2>1. \A a \in Agents : N[a] \in Row
      BY <1>3
    <2> QED BY <1>2, <2>1 DEF Board
  <1>5. Owned(N) /\ Revocation
    BY <1>3 DEF Owned, Revocation
  <1>6. ASSUME NEW j \in DOMAIN work PROVE W[j] \in Item /\ W[j].responses = work[j].responses
    <2>1. PICK w \in Item : w = work[j]
      BY <1>1, InList
    <2>2. W[j] \in {w, [w EXCEPT !.status = "blocked"]}
      BY <2>1 DEF Contained
    <2>3. [w EXCEPT !.status = "blocked"] \in Item /\ [w EXCEPT !.status = "blocked"].responses = w.responses
      BY DEF Item, ItemStatus
    <2> QED BY <2>1, <2>2, <2>3
  <1>7. W \in Seq(Item) /\ DOMAIN W = DOMAIN work /\ Len(W) = Len(work)
    <2>1. DOMAIN W = 1..Len(work) /\ Len(work) \in Nat /\ DOMAIN work = 1..Len(work)
      BY <1>1 DEF Contained
    <2>2. W = [j \in 1..Len(work) |-> W[j]]
      BY <2>1 DEF Contained
    <2>3. \A j \in 1..Len(work) : W[j] \in Item
      BY <1>6, <2>1
    <2>4. W \in Seq(Item)
      BY <2>1, <2>2, <2>3
    <2> QED BY <2>1, <2>4
  <1>8. W \in Works
    BY <1>1, <1>7 DEF Works
  <1>9. \A j \in DOMAIN W : W[j].responses = work[j].responses /\ W[j].responses <= responses[j]
    BY <1>6, <1>7 DEF Logged
  <1> QED BY <1>3, <1>4, <1>5, <1>7, <1>8, <1>9

LEMMA MandatesReads ==
    ASSUME FloorInv, Read("mandates")
    PROVE  FloorInv'
  <1>1. PICK h, T : h = op["mandates"][1] /\ T = Tail(op["mandates"])
    OBVIOUS
  <1>2. /\ op["mandates"] # <<>> /\ h \in MandateStep /\ T \in Seq(MandateStep) /\ Head(op["mandates"]) = h
        /\ 1 \in DOMAIN op["mandates"]
        /\ Owes("mandates") = {h} \cup Elements(T)
        /\ \A i \in DOMAIN T : i \in Nat \ {0} /\ i + 1 \in DOMAIN op["mandates"] /\ T[i] = op["mandates"][i + 1]
        /\ Len(T) = Len(op["mandates"]) - 1
        /\ h.kind \notin {"issue", "revoke"} => \A i \in DOMAIN T : T[i].kind \in {"fleet", "work"}
    <2>1. op["mandates"] # <<>>
      BY DEF Read
    <2> QED BY <1>1, <2>1, MandatesHead
  <1>3. h.kind \in {"show-mandate", "contain"}
    <2>1. h.kind \in {"issue", "show-mandate", "revoke", "contain", "fleet", "work"}
      BY <1>2, MandateKinds
    <2> QED BY <1>1, <1>2, <2>1 DEF Read, Reads
  <1>4. MandateSound(1, h)
    BY <1>1, <1>2 DEF FloorInv, MandatesSound
  <1>5. fleet \in Board /\ work \in Works /\ FloorTypes /\ Owned(fleet) /\ Logged
    BY FloorTyped DEF FloorInv, FloorSound, Ownership, CollaborationSound
  <1>6. ASSUME NEW x \in Elements(T)
        PROVE  x.kind \in {"fleet", "work"} /\ x \in Owes("mandates") /\ MandateSound(1, x)
    <2>1. PICK i \in DOMAIN T : x = T[i]
      BY DEF Elements
    <2>2. x.kind \in {"fleet", "work"} /\ MandateSound(i + 1, x)
      BY <1>2, <1>3, <2>1 DEF FloorInv, MandatesSound
    <2> QED BY <1>2, <2>2 DEF MandateSound
  <1>7. CASE h.kind = "show-mandate"
    <2>1. PICK x \in Agents : x = h.about /\ Issued(x, Len(mandates))
      BY <1>2, <1>4, <1>7, MandateKinds DEF MandateSound
    <2>2. PICK N : N = NewFleet("show-mandate", x)
      OBVIOUS
    <2>3. N \in Board /\ Owned(N) /\ \A a \in Agents : Keeps(a, fleet, N)
      BY <1>5, <2>1, <2>2, ShowsMandate
    <2>4. PICK w \in MandateStep : w = WriteFleet(N) /\ w.kind = "fleet" /\ w.from = fleet /\ w.to = N
      BY <1>5, <2>3, FleetWrites
    <2>5. op' = [op EXCEPT !["mandates"] = <<w>> \o T] /\ UNCHANGED <<fleet, work, records, ops, faults, overlapped>>
      BY <1>1, <1>2, <1>7, <2>1, <2>2, <2>4 DEF Read
    <2>6. <<w>> \o T \in Seq(MandateStep) /\ Elements(<<w>> \o T) = {w} \cup Elements(T)
      BY <1>2, Before
    <2>7. MandateSound(1, w)
      BY <2>4 DEF MandateSound
    <2>8. PICK L \in Seq(MandateStep) : L = <<w>> \o T /\ Elements(L) = {w} \cup Elements(T)
      BY <2>6
    <2>9. op' = [op EXCEPT !["mandates"] = L]
      BY <2>5, <2>8
    <2>10. \A z \in Elements(L) :
              /\ z.kind \in {"fleet", "work"}
              /\ z.kind = "fleet" => z \in Owes("mandates") \/ (Owned(z.to) /\ \A a \in Agents : Keeps(a, z.from, z.to))
              /\ MandateSound(1, z)
      BY <1>6, <2>3, <2>4, <2>7, <2>8
    <2> QED BY <2>5, <2>9, <2>10, MandatesRead
  <1>8. CASE h.kind = "contain"
    <2>1. PICK m \in DOMAIN mandates : m = h.about /\ mandates[m].status = "revoked"
      BY <1>1, <1>4, <1>8 DEF MandateSound
    <2>2. T = <<>>
      <3>1. Len(op["mandates"]) = 1
        BY <1>4, <1>8 DEF MandateSound
      <3> QED BY <1>2, <3>1
    <2>3. PICK N, W : N = NewFleet("contain", m) /\ W = Contained(m)
      OBVIOUS
    <2>4. /\ N \in Board /\ Owned(N) /\ \A a \in Agents : Keeps(a, fleet, N)
          /\ W \in Works /\ Len(W) = Len(work) /\ Revocation
          /\ \A j \in DOMAIN W : W[j].responses = work[j].responses /\ W[j].responses <= responses[j]
      BY <1>5, <2>1, <2>3, Contains
    <2>5. PICK w \in MandateStep : w = WriteFleet(N) /\ w.kind = "fleet" /\ w.from = fleet /\ w.to = N
      BY <1>5, <2>4, FleetWrites
    <2>6. PICK v \in MandateStep : v = WriteWork(W) /\ v.kind = "work" /\ v.from = work /\ v.to = W
      BY <1>5, <2>4, WorkWrites
    <2>7. /\ \/ op' = [op EXCEPT !["mandates"] = <<w>> \o <<v>> \o T]
             \/ op' = [op EXCEPT !["mandates"] = <<v>> \o <<w>> \o T]
          /\ UNCHANGED <<fleet, work, records, ops, faults, overlapped>>
      <3>1. /\ \/ op' = [op EXCEPT !["mandates"] = <<WriteFleet(NewFleet(h.kind, h.about))>>
                                                   \o <<WriteWork(Contained(h.about))>> \o T]
               \/ op' = [op EXCEPT !["mandates"] = <<WriteWork(Contained(h.about))>>
                                                   \o <<WriteFleet(NewFleet(h.kind, h.about))>> \o T]
            /\ UNCHANGED <<fleet, work, records, ops, faults, overlapped>>
        BY <1>1, <1>2, <1>8 DEF Read
      <3>2. w = WriteFleet(NewFleet(h.kind, h.about)) /\ v = WriteWork(Contained(h.about))
        BY <1>8, <2>1, <2>3, <2>5, <2>6
      <3> QED BY <3>1, <3>2
    <2>8. PICK L1, L2 \in Seq(MandateStep) :
             /\ L1 = <<w>> \o <<v>> \o T /\ Elements(L1) = {w, v}
             /\ L2 = <<v>> \o <<w>> \o T /\ Elements(L2) = {w, v}
      <3>1. PICK one \in Seq(MandateStep) : one = <<w>> /\ Elements(one) = {w}
        BY Single
      <3>2. PICK two \in Seq(MandateStep) : two = <<v>> /\ Elements(two) = {v}
        BY Single
      <3>3. PICK none \in Seq(MandateStep) : none = T /\ Elements(none) = {}
        BY <1>2, <2>2, Empty
      <3>4. PICK both \in Seq(MandateStep) : /\ both = one \o two
                                             /\ Elements(both) = Elements(one) \cup Elements(two)
        <4>1. one \in Seq(MandateStep) /\ two \in Seq(MandateStep)
          OBVIOUS
        <4>2. one \o two \in Seq(MandateStep) /\ Elements(one \o two) = Elements(one) \cup Elements(two)
          BY <4>1, JoinedList
        <4> QED BY <4>2
      <3>5. PICK swapped \in Seq(MandateStep) : /\ swapped = two \o one
                                                /\ Elements(swapped) = Elements(two) \cup Elements(one)
        <4>1. two \in Seq(MandateStep) /\ one \in Seq(MandateStep)
          OBVIOUS
        <4>2. two \o one \in Seq(MandateStep) /\ Elements(two \o one) = Elements(two) \cup Elements(one)
          BY <4>1, JoinedList
        <4> QED BY <4>2
      <3>6. PICK L1 \in Seq(MandateStep) : L1 = both \o none /\ Elements(L1) = Elements(both) \cup Elements(none)
        <4>1. both \in Seq(MandateStep) /\ none \in Seq(MandateStep)
          OBVIOUS
        <4>2. both \o none \in Seq(MandateStep) /\ Elements(both \o none) = Elements(both) \cup Elements(none)
          BY <4>1, JoinedList
        <4> QED BY <4>2
      <3>7. PICK L2 \in Seq(MandateStep) : /\ L2 = swapped \o none
                                           /\ Elements(L2) = Elements(swapped) \cup Elements(none)
        <4>1. swapped \in Seq(MandateStep) /\ none \in Seq(MandateStep)
          OBVIOUS
        <4>2. swapped \o none \in Seq(MandateStep) /\ Elements(swapped \o none) = Elements(swapped) \cup Elements(none)
          BY <4>1, JoinedList
        <4> QED BY <4>2
      <3>8. Elements(both) = {w, v} /\ Elements(swapped) = {w, v}
        BY <3>1, <3>2, <3>4, <3>5
      <3>9. L1 = <<w>> \o <<v>> \o T /\ L2 = <<v>> \o <<w>> \o T
        BY <3>1, <3>2, <3>3, <3>4, <3>5, <3>6, <3>7
      <3>10. Elements(L1) = {w, v} /\ Elements(L2) = {w, v}
        BY <3>3, <3>6, <3>7, <3>8
      <3> QED BY <3>7, <3>9, <3>10
    <2>9. PICK L \in Seq(MandateStep) : op' = [op EXCEPT !["mandates"] = L] /\ Elements(L) = {w, v}
      BY <2>7, <2>8
    <2>10. MandateSound(1, w) /\ MandateSound(1, v)
      BY <2>4, <2>5, <2>6 DEF MandateSound
    <2>11. \A z \in Elements(L) :
              /\ z.kind \in {"fleet", "work"}
              /\ z.kind = "fleet" => z \in Owes("mandates") \/ (Owned(z.to) /\ \A a \in Agents : Keeps(a, z.from, z.to))
              /\ MandateSound(1, z)
      BY <2>4, <2>5, <2>6, <2>9, <2>10
    <2> QED BY <2>7, <2>9, <2>11, MandatesRead
  <1> QED BY <1>3, <1>7, <1>8

-----------------------------------------------------------------------------
(* Writes of the floor by the others.                                       *)

LEMMA OthersWriteFleet ==
    ASSUME FloorInv, NEW s \in {"mandates", "collaboration"}, NEW h \in Owes(s), h.kind = "fleet",
           h.to \in Board, fleet' = h.to,
           overlapped' = [overlapped EXCEPT !.rows = @ \cup {a \in Agents : fleet[a] # h.from[a]}],
           DOMAIN op' = Services, op'["identity"] = op["identity"],
           op'["mandates"] \in Seq(MandateStep), op'["collaboration"] \in Seq(CollaborationStep),
           \A t \in Services : Owes(t)' \subseteq Owes(t),
           UNCHANGED <<work, passport, runtime, session, mandates, queued, responses, ops, faults>>
    PROVE  /\ FloorTypes' /\ IdentitySound' /\ FloorSound' /\ Grows
           /\ overlapped'.work = overlapped.work
  <1>1. Grows
    BY DEF Grows
  <1>2. overlapped'.work = overlapped.work
    OBVIOUS
  <1>3. FloorTypes'
    <2>1. /\ faults' \in Nat /\ overlapped' \in [rows : SUBSET Agents, work : BOOLEAN] /\ fleet' \in Board /\ work' \in Works
          /\ ops' \in Nat /\ op'["identity"] \in Seq(IdentityStep)
      BY FloorTyped DEF FloorInv, FloorTypes, TypeOK
    <2> QED BY <2>1, TypesStay DEF FloorInv
  <1>4. IdentitySound'
    BY <1>1, IdentityStays DEF FloorInv
  <1>5. KeepsFloor' /\ Ownership'
    <2>1. \A a, f, t : Keeps(a, f, t) => Keeps(a, f, t)'
      BY <1>1, GrownFacts DEF Keeps
    <2>2. \A f : Owned(f) => Owned(f)'
      BY <1>1, GrownFacts DEF Owned
    <2>3. KeepsFloor'
      <3>1. \A t \in {"mandates", "collaboration"} : Owes(t)' \subseteq Owes(t)
        BY DEF Services
      <3> QED BY <2>1, <3>1 DEF FloorInv, FloorSound, KeepsFloor
    <2>4. Owned(h.to)
      BY DEF FloorInv, FloorSound, Ownership, Services
    <2>5. Owned(fleet)'
      BY <2>2, <2>4 DEF Owned
    <2> QED BY <2>2, <2>3, <2>5 DEF FloorInv, FloorSound, Ownership
  <1>6. Rows'
    <2> SUFFICES ASSUME faults = 0, NEW b \in Agents, b \notin overlapped.rows, fleet[b] = h.from[b]
                 PROVE  RowSound(b)'
      BY DEF Rows
    <2>1. RowSound(b) /\ Keeps(b, fleet, h.to)
      BY DEF FloorInv, FloorSound, Rows, KeepsFloor, Keeps
    <2>2. Owes("identity")' = Owes("identity")
      BY DEF Owes
    <2>3. \A k, a : Owed(k, a)' = Owed(k, a)
      BY <2>2 DEF Owed
    <2>4. Showing(b)' = Showing(b)
      BY <2>3 DEF Showing
    <2>5. \A f : Right(b, f) => Right(b, f)'
      BY <1>1, GrownFacts DEF Right
    <2>6. Right(b, fleet) => Right(b, h.to)
      BY <2>1 DEF Right, Keeps
    <2>7. CASE Showing(b)
      BY <2>1, <2>3, <2>4, <2>7 DEF RowSound, Keeps
    <2>8. CASE ~ Showing(b)
      <3>1. Right(b, h.to) \/ \E x \in Owes("identity") : x.kind = "fleet" /\ Right(b, x.to)
        BY <2>1, <2>6, <2>8 DEF RowSound
      <3>2. Right(b, h.to)' \/ \E x \in Owes("identity") : x.kind = "fleet" /\ Right(b, x.to)'
        BY <2>5, <3>1
      <3>3. Right(b, h.to)' => Right(b, fleet)'
        BY DEF Right
      <3> QED BY <2>2, <2>4, <2>8, <3>2, <3>3 DEF RowSound
    <2> QED BY <2>7, <2>8
  <1> QED BY <1>1, <1>2, <1>3, <1>4, <1>5, <1>6 DEF FloorSound

\* A write of the mandates that is done, or given up.
LEMMA MandatesDrop ==
    ASSUME FloorInv, op["mandates"] # <<>>, op["mandates"][1].kind \in {"fleet", "work"},
           op'["mandates"] = Tail(op["mandates"]), UNCHANGED <<mandates, responses>>
    PROVE  MandatesSound'
  <1>1. PICK T \in Seq(MandateStep) :
           /\ T = Tail(op["mandates"])
           /\ \A i \in DOMAIN T : i \in Nat \ {0} /\ i + 1 \in DOMAIN op["mandates"] /\ T[i] = op["mandates"][i + 1]
           /\ \A i \in DOMAIN T : T[i].kind \in {"fleet", "work"}
    BY MandatesHead
  <1>2. ASSUME NEW i \in DOMAIN T, NEW x, x = T[i] PROVE MandateSound(i, x)'
    <2>1. MandateSound(i + 1, x) /\ x.kind \in {"fleet", "work"}
      BY <1>1, <1>2 DEF FloorInv, MandatesSound
    <2> QED BY <2>1 DEF MandateSound, Revocation
  <1> QED BY <1>1, <1>2 DEF MandatesSound

LEMMA MandatesWriteFloor ==
    ASSUME FloorInv, WriteFloor("mandates")
    PROVE  FloorInv'
  <1>1. PICK h, T : h = op["mandates"][1] /\ T = Tail(op["mandates"])
    OBVIOUS
  <1>2. /\ op["mandates"] # <<>> /\ h \in MandateStep /\ T \in Seq(MandateStep) /\ Head(op["mandates"]) = h
        /\ 1 \in DOMAIN op["mandates"]
        /\ Owes("mandates") = {h} \cup Elements(T)
    <2>1. op["mandates"] # <<>>
      BY DEF WriteFloor
    <2> QED BY <1>1, <2>1, MandatesHead
  <1>3. /\ \/ /\ h.kind = "fleet" /\ fleet' = h.to /\ UNCHANGED work
              /\ overlapped' = [overlapped EXCEPT !.rows = @ \cup {a \in Agents : fleet[a] # h.from[a]}]
           \/ /\ h.kind = "work" /\ work' = h.to /\ UNCHANGED fleet
              /\ overlapped' = [overlapped EXCEPT !.work = @ \/ work # h.from]
        /\ op' = [op EXCEPT !["mandates"] = T]
        /\ UNCHANGED <<records, ops, faults>>
    BY <1>1, <1>2 DEF WriteFloor
  <1>4. /\ op'["mandates"] = T /\ DOMAIN op' = Services
        /\ \A t \in Services : t # "mandates" => op'[t] = op[t]
        /\ op'["identity"] = op["identity"] /\ op'["collaboration"] = op["collaboration"]
    BY <1>3 DEF FloorInv, FloorTypes, TypeOK, Services
  <1>5. UNCHANGED <<passport, runtime, session, mandates, queued, responses, ops, faults>>
    BY <1>3 DEF records
  <1>6. \A t \in Services : Owes(t)' \subseteq Owes(t)
    <2>1. Owes("mandates")' = Elements(T)
      BY <1>4 DEF Owes
    <2> QED BY <1>2, <1>4, <2>1 DEF Owes, Elements
  <1>7. MandatesSound'
    BY <1>1, <1>2, <1>3, <1>4, <1>5, MandatesDrop
  <1>8. op'["collaboration"] \in Seq(CollaborationStep) /\ op'["identity"] \in Seq(IdentityStep)
    BY <1>4 DEF FloorInv, FloorTypes
  <1>9. CASE h.kind = "fleet"
    <2>1. h.to \in Board
      BY <1>2, <1>9, MandateKinds
    <2>2. /\ FloorTypes' /\ IdentitySound' /\ FloorSound' /\ Grows
          /\ overlapped'.work = overlapped.work
      <3>1. "mandates" \in {"mandates", "collaboration"} /\ h \in Owes("mandates")
        BY <1>2
      <3> QED BY <1>2, <1>3, <1>4, <1>5, <1>6, <1>8, <1>9, <2>1, <3>1, OthersWriteFleet
    <2>3. CollaborationSound'
      BY <1>3, <1>4, <1>5, <1>9, <2>2, CollaborationStays DEF FloorInv
    <2> QED BY <1>7, <2>2, <2>3 DEF FloorInv
  <1>10. CASE h.kind = "work"
    <2>1. h.to \in Works /\ MandateSound(1, h)
      BY <1>1, <1>2, <1>10, MandateKinds DEF FloorInv, MandatesSound
    <2>2. Grows
      BY <1>5 DEF Grows
    <2>3. /\ work' = h.to /\ UNCHANGED fleet
          /\ overlapped' \in [rows : SUBSET Agents, work : BOOLEAN]
          /\ overlapped'.rows = overlapped.rows
          /\ ~ overlapped'.work <=> ~ overlapped.work /\ work = h.from
      <3>1. overlapped' = [overlapped EXCEPT !.work = overlapped.work \/ work # h.from]
        BY <1>3, <1>10
      <3>2. PICK b \in BOOLEAN : b = (overlapped.work \/ work # h.from)
        OBVIOUS
      <3>3. overlapped' \in [rows : SUBSET Agents, work : BOOLEAN] /\ overlapped'.work = b
            /\ overlapped'.rows = overlapped.rows
        BY <3>1, <3>2 DEF FloorInv, FloorTypes, TypeOK
      <3> QED BY <1>3, <1>10, <3>2, <3>3
    <2>4. FloorTypes'
      <3>1. /\ faults' \in Nat /\ overlapped' \in [rows : SUBSET Agents, work : BOOLEAN] /\ fleet' \in Board /\ work' \in Works
            /\ ops' \in Nat
        BY <1>5, <2>1, <2>3, FloorTyped DEF FloorInv, FloorTypes, TypeOK
      <3> QED BY <1>2, <1>4, <1>5, <1>8, <3>1, TypesStay DEF FloorInv
    <2>5. IdentitySound' /\ Rows'
      BY <1>4, <1>5, <2>2, <2>3, IdentityStays, RowsStay DEF FloorInv
    <2>6. KeepsFloor' /\ Ownership'
      BY <1>6, <2>2, <2>3, WritesStay
    <2>7. CollaborationSound'
      <3>1. Owes("collaboration")' = Owes("collaboration")
        BY <1>4 DEF Owes, Elements
      <3>2. \A j, k : Logging(j)' = Logging(j) /\ Next1(k)' = Next1(k) /\ Queueing' = Queueing
        BY <1>4, <3>1 DEF Logging, Next1, Queueing
      <3>3. Shape'
        BY <1>4, <3>2 DEF FloorInv, CollaborationSound, Shape
      <3>4. Logged'
        BY <1>5, <1>10, <2>1, <2>3, <3>1, <3>2 DEF FloorInv, CollaborationSound, Logged, MandateSound
      <3>5. Fresh'
        <4>1. Revocation'
          BY <1>5, <1>10, <2>1 DEF MandateSound, Revocation
        <4> QED BY <4>1 DEF Fresh
      <3>6. Counted'
        <4> SUFFICES ASSUME faults = 0, ~ overlapped.work, work = h.from PROVE Counted'
          BY <1>5, <2>3 DEF Counted
        <4>1. /\ Len(work') = Len(work) /\ DOMAIN work' = DOMAIN work
              /\ \A j \in DOMAIN work' : work'[j].responses = work[j].responses
          <5>1. /\ Len(h.to) = Len(h.from)
                /\ \A j \in DOMAIN h.to : h.to[j].responses = h.from[j].responses
            BY <1>10, <2>1 DEF MandateSound
          <5>2. work \in Works
            BY FloorTyped DEF FloorInv
          <5>3. DOMAIN h.to = 1..Len(h.to) /\ DOMAIN work = 1..Len(work)
            BY <2>1, <5>2 DEF Works
          <5> QED BY <2>3, <5>1, <5>3
        <4> QED BY <1>5, <3>1, <3>2, <4>1 DEF FloorInv, CollaborationSound, Counted
      <3> QED BY <3>3, <3>4, <3>5, <3>6 DEF CollaborationSound
    <2> QED BY <1>7, <2>4, <2>5, <2>6, <2>7 DEF FloorInv, FloorSound
  <1> QED BY <1>3, <1>9, <1>10

-----------------------------------------------------------------------------
(* A step of the collaboration.                                             *)

LEMMA CollaborationHead ==
    ASSUME FloorInv, op["collaboration"] # <<>>, NEW h, h = op["collaboration"][1],
           NEW T, T = Tail(op["collaboration"])
    PROVE  /\ h \in CollaborationStep /\ Head(op["collaboration"]) = h /\ 1 \in DOMAIN op["collaboration"]
           /\ T \in Seq(CollaborationStep)
           /\ Owes("collaboration") = {h} \cup Elements(T)
           /\ T = <<>> \/ \E y \in CollaborationStep : Len(T) = 1 /\ T[1] = y /\ Elements(T) = {y} /\ DOMAIN T = {1}
           /\ h.kind = "queued" => T = <<>>
           /\ h.kind = "response" => T # <<>>
           /\ \A y \in Elements(T) :
                 /\ h.kind = "response" => y.kind = "work"
                 /\ h.kind = "work" => y.kind \in {"queued", "fleet"}
                 /\ h.kind = "fleet" => y.kind \in {"fleet", "work"}
  <1>1. PICK L \in Seq(CollaborationStep) : L = op["collaboration"] /\ L # <<>>
    BY DEF FloorInv, FloorTypes
  <1>2. /\ Tail(L) \in Seq(CollaborationStep) /\ Head(L) = L[1] /\ L[1] \in CollaborationStep /\ 1 \in DOMAIN L
        /\ Len(Tail(L)) = Len(L) - 1 /\ Len(L) \in Nat \ {0}
        /\ \A i \in DOMAIN Tail(L) : i \in Nat \ {0} /\ i + 1 \in DOMAIN L /\ Tail(L)[i] = L[i + 1]
        /\ Elements(Tail(L)) \subseteq Elements(L)
        /\ L[1] \in Elements(L)
        /\ \A x \in Elements(L) : x = L[1] \/ x \in Elements(Tail(L))
    BY <1>1, Behead
  <1>3. /\ Len(L) <= 2
        /\ \A i \in DOMAIN L :
              /\ L[i].kind = "queued" => i = Len(L) /\ (i = 2 => L[1].kind = "work")
              /\ L[i].kind = "response" => i = 1 /\ Len(L) = 2 /\ L[2].kind = "work"
              /\ \A j \in DOMAIN L : L[i].kind = "work" /\ L[j].kind = "work" => i = j
    BY <1>1 DEF FloorInv, CollaborationSound, Shape, Next1
  <1>4. CASE Len(L) = 1
    <2>1. Tail(L) = <<>>
      BY <1>2, <1>4
    <2>2. Elements(Tail(L)) = {}
      BY <2>1, Empty
    <2>3. L[1].kind # "response"
      BY <1>2, <1>3, <1>4
    <2> QED BY <1>1, <1>2, <2>1, <2>2, <2>3 DEF Owes
  <1>5. CASE Len(L) # 1
    <2>1. Len(L) = 2 /\ DOMAIN L = {1, 2} /\ L[2] \in CollaborationStep
      <3>1. Len(L) = 2
        BY <1>2, <1>3, <1>5
      <3>2. DOMAIN L = 1..2
        BY <1>1, <3>1
      <3>3. DOMAIN L = {1, 2} /\ 2 \in DOMAIN L
        BY <3>2
      <3> QED BY <1>1, <3>1, <3>3, InList
    <2>2. PICK y \in CollaborationStep : y = L[2]
      BY <2>1
    <2>3. DOMAIN Tail(L) = {1} /\ Tail(L)[1] = y /\ Len(Tail(L)) = 1 /\ Tail(L) # <<>>
      <3>1. Len(Tail(L)) = 1
        BY <1>2, <2>1
      <3>2. DOMAIN Tail(L) = {1}
        <4>1. PICK K \in Seq(CollaborationStep) : K = Tail(L) /\ Len(K) = 1
          BY <1>2, <3>1
        <4>2. DOMAIN K = 1..Len(K)
          OBVIOUS
        <4>3. 1..1 = {1}
          OBVIOUS
        <4> QED BY <4>1, <4>2, <4>3
      <3>3. Tail(L)[1] = y
        BY <1>2, <2>2, <3>2
      <3> QED BY <1>2, <3>1, <3>2, <3>3
    <2>4. Elements(Tail(L)) = {y}
      BY <2>3 DEF Elements
    <2>5. y.kind \in {"queued", "response", "fleet", "work"}
      BY CollaborationKinds
    <2>6. /\ L[1].kind # "queued"
          /\ L[1].kind = "response" => y.kind = "work"
          /\ L[1].kind = "work" => y.kind \in {"queued", "fleet"}
          /\ L[1].kind = "fleet" => y.kind \in {"fleet", "work"}
      BY <1>3, <2>1, <2>2, <2>5
    <2>7. Owes("collaboration") = {L[1]} \cup Elements(Tail(L))
      BY <1>1, <1>2 DEF Owes
    <2> QED BY <1>1, <1>2, <2>3, <2>4, <2>6, <2>7
  <1> QED BY <1>4, <1>5

\* What is left when the first of the steps is done.
LEMMA CollaborationLeft ==
    ASSUME NEW T, T = <<>> \/ \E y \in CollaborationStep : Len(T) = 1 /\ T[1] = y /\ Elements(T) = {y} /\ DOMAIN T = {1},
           op'["collaboration"] = T, \A y \in Elements(T) : y.kind # "response"
    PROVE  /\ Shape' /\ Owes("collaboration")' = Elements(T)
           /\ \A j : ~ Logging(j)'
           /\ Next1("queued")' <=> \E y \in Elements(T) : y.kind = "queued"
           /\ Next1("work")' <=> \E y \in Elements(T) : y.kind = "work"
           /\ Queueing' <=> \E y \in Elements(T) : y.kind = "queued"
  <1>1. Owes("collaboration")' = Elements(T)
    BY DEF Owes
  <1>2. CASE T = <<>>
    <2>1. Elements(T) = {} /\ Len(T) = 0 /\ DOMAIN T = {}
      BY <1>2, Empty
    <2> QED BY <1>1, <1>2, <2>1 DEF Shape, Logging, Next1, Queueing
  <1>3. CASE T # <<>>
    <2>1. PICK y \in CollaborationStep : Len(T) = 1 /\ T[1] = y /\ Elements(T) = {y} /\ DOMAIN T = {1}
      BY <1>3
    <2>2. y.kind # "response"
      BY <2>1
    <2>3. Shape'
      BY <2>1, <2>2 DEF Shape
    <2> QED BY <1>1, <1>3, <2>1, <2>2, <2>3 DEF Logging, Next1, Queueing
  <1> QED BY <1>2, <1>3

\* The numbers that are compared.
LEMMA WorksResponses ==
    ASSUME FloorTypes, NEW w \in Works
    PROVE  \A j \in DOMAIN w : j \in 1..MaxItems /\ w[j].responses \in Nat /\ responses[j] \in Nat
  <1>1. MaxItems \in Nat /\ responses \in [1..MaxItems -> Nat]
    BY BoundsAssumption DEF FloorTypes, TypeOK
  <1>2. w \in Seq(Item) /\ Len(w) <= MaxItems
    BY DEF Works
  <1>3. ASSUME NEW j \in DOMAIN w PROVE j \in 1..MaxItems /\ w[j].responses \in Nat /\ responses[j] \in Nat
    <2>1. w[j] \in Item /\ j \in Nat \ {0} /\ j <= Len(w) /\ Len(w) \in Nat
      BY <1>2, InList
    <2>2. j \in 1..MaxItems
      BY <1>1, <1>2, <2>1
    <2> QED BY <1>1, <2>1, <2>2 DEF Item
  <1> QED BY <1>3

LEMMA CollaborationWriteFloor ==
    ASSUME FloorInv, WriteFloor("collaboration")
    PROVE  FloorInv'
  <1>1. PICK h, T : h = op["collaboration"][1] /\ T = Tail(op["collaboration"])
    OBVIOUS
  <1>2. /\ h \in CollaborationStep /\ Head(op["collaboration"]) = h /\ op["collaboration"] # <<>>
        /\ T \in Seq(CollaborationStep)
        /\ Owes("collaboration") = {h} \cup Elements(T)
        /\ T = <<>> \/ \E y \in CollaborationStep : Len(T) = 1 /\ T[1] = y /\ Elements(T) = {y} /\ DOMAIN T = {1}
        /\ \A y \in Elements(T) :
              /\ h.kind = "work" => y.kind \in {"queued", "fleet"}
              /\ h.kind = "fleet" => y.kind \in {"fleet", "work"}
    <2>1. op["collaboration"] # <<>>
      BY DEF WriteFloor
    <2> QED BY <1>1, <2>1, CollaborationHead
  <1>3. /\ \/ /\ h.kind = "fleet" /\ fleet' = h.to /\ UNCHANGED work
              /\ overlapped' = [overlapped EXCEPT !.rows = @ \cup {a \in Agents : fleet[a] # h.from[a]}]
           \/ /\ h.kind = "work" /\ work' = h.to /\ UNCHANGED fleet
              /\ overlapped' = [overlapped EXCEPT !.work = @ \/ work # h.from]
        /\ op' = [op EXCEPT !["collaboration"] = T]
        /\ UNCHANGED <<records, ops, faults>>
    BY <1>1, <1>2 DEF WriteFloor
  <1>4. /\ op'["collaboration"] = T /\ DOMAIN op' = Services
        /\ op'["identity"] = op["identity"] /\ op'["mandates"] = op["mandates"]
        /\ \A t \in Services : t # "collaboration" => op'[t] = op[t]
    BY <1>3 DEF FloorInv, FloorTypes, TypeOK, Services
  <1>5. UNCHANGED <<passport, runtime, session, mandates, queued, responses, ops, faults>>
    BY <1>3 DEF records
  <1>6. \A y \in Elements(T) : y.kind # "response"
    BY <1>2, <1>3
  <1>7. /\ Shape' /\ Owes("collaboration")' = Elements(T)
        /\ \A j : ~ Logging(j)'
        /\ Next1("queued")' <=> \E y \in Elements(T) : y.kind = "queued"
        /\ Next1("work")' <=> \E y \in Elements(T) : y.kind = "work"
        /\ Queueing' <=> \E y \in Elements(T) : y.kind = "queued"
    BY <1>2, <1>4, <1>6, CollaborationLeft
  <1>8. \A t \in Services : Owes(t)' \subseteq Owes(t)
    BY <1>2, <1>4, <1>7 DEF Owes, Elements
  <1>9. MandatesSound'
    BY <1>4, <1>5, MandatesStay DEF FloorInv
  <1>10. op'["mandates"] \in Seq(MandateStep) /\ op'["identity"] \in Seq(IdentityStep)
         /\ op'["collaboration"] \in Seq(CollaborationStep)
    BY <1>2, <1>4 DEF FloorInv, FloorTypes
  <1>11. \A j : ~ Logging(j) /\ ~ Next1("queued")
    BY <1>1, <1>3 DEF Logging, Next1
  <1>12. /\ Logged /\ Fresh /\ Counted
    BY DEF FloorInv, CollaborationSound
  <1>13. CASE h.kind = "fleet"
    <2>1. h.to \in Board /\ h \in Owes("collaboration")
      BY <1>2, <1>13, CollaborationKinds
    <2>2. /\ FloorTypes' /\ IdentitySound' /\ FloorSound' /\ Grows
          /\ overlapped'.work = overlapped.work
      BY <1>3, <1>4, <1>5, <1>8, <1>10, <1>13, <2>1, OthersWriteFleet
    <2>3. ~ Next1("work") /\ ~ Queueing /\ ~ Next1("queued")' /\ ~ Queueing' /\ UNCHANGED work
      BY <1>1, <1>2, <1>3, <1>7, <1>13 DEF Next1, Queueing
    <2>4. Logged'
      BY <1>5, <1>7, <1>8, <1>11, <1>12, <2>3 DEF Logged, OneIf, Services
    <2>5. Fresh'
      BY <1>8, <1>12, <2>2, <2>3, GrownFacts DEF Fresh, Services
    <2>6. Counted'
      BY <1>5, <1>7, <1>8, <1>11, <1>12, <2>2, <2>3 DEF Counted, OneIf, Services
    <2> QED BY <1>7, <1>9, <2>2, <2>4, <2>5, <2>6 DEF FloorInv, CollaborationSound
  <1>14. CASE h.kind = "work"
    <2>1. h.to \in Works
      BY <1>2, <1>14, CollaborationKinds
    <2>2. Grows
      BY <1>5 DEF Grows
    <2>3. /\ work' = h.to /\ UNCHANGED fleet
          /\ overlapped' \in [rows : SUBSET Agents, work : BOOLEAN]
          /\ overlapped'.rows = overlapped.rows
          /\ ~ overlapped'.work <=> ~ overlapped.work /\ work = h.from
      <3>1. overlapped' = [overlapped EXCEPT !.work = overlapped.work \/ work # h.from]
        BY <1>3, <1>14
      <3>2. PICK b \in BOOLEAN : b = (overlapped.work \/ work # h.from)
        OBVIOUS
      <3>3. overlapped' \in [rows : SUBSET Agents, work : BOOLEAN] /\ overlapped'.work = b
            /\ overlapped'.rows = overlapped.rows
        BY <3>1, <3>2 DEF FloorInv, FloorTypes, TypeOK
      <3> QED BY <1>3, <1>14, <3>2, <3>3
    <2>4. FloorTypes'
      <3>1. /\ faults' \in Nat /\ overlapped' \in [rows : SUBSET Agents, work : BOOLEAN] /\ fleet' \in Board /\ work' \in Works
            /\ ops' \in Nat
        BY <1>5, <2>1, <2>3, FloorTyped DEF FloorInv, FloorTypes, TypeOK
      <3> QED BY <1>4, <1>5, <1>10, <3>1, TypesStay DEF FloorInv
    <2>5. IdentitySound' /\ Rows'
      BY <1>4, <1>5, <2>2, <2>3, IdentityStays, RowsStay DEF FloorInv
    <2>6. KeepsFloor' /\ Ownership'
      BY <1>8, <2>2, <2>3, WritesStay
    <2>7. \A x \in Owes("collaboration")' : x.kind \notin {"work", "response"}
      BY <1>2, <1>7, <1>14
    <2>8. Logged'
      <3>1. \A j \in DOMAIN h.to : h.to[j].responses \in Nat /\ responses[j] \in Nat
        BY <2>1, WorksResponses DEF FloorInv
      <3>2. \A j \in DOMAIN h.to : h.to[j].responses <= responses[j] + OneIf(Logging(j))
        BY <1>2, <1>12, <1>14 DEF Logged
      <3>3. \A j \in DOMAIN h.to : h.to[j].responses <= responses[j]
        BY <1>11, <3>1, <3>2 DEF OneIf
      <3> QED BY <1>5, <2>3, <2>7, <3>3 DEF Logged
    <2>9. Fresh'
      <3>1. overlapped'.work => Revocation
        BY <1>2, <1>12, <1>14, <2>3 DEF Fresh
      <3> QED BY <2>2, <2>7, <3>1, GrownFacts DEF Fresh
    <2>10. Counted'
      <3> SUFFICES ASSUME faults = 0, ~ overlapped.work PROVE Counted'
        BY <1>5, <2>3 DEF Counted
      <3>1. Queueing <=> \E y \in Elements(T) : y.kind = "queued"
        BY <1>2, <1>14 DEF Queueing
      <3>2. /\ Len(work) = queued
            /\ Len(h.to) = queued + OneIf(Queueing)
            /\ \A j \in DOMAIN h.to : h.to[j].responses = responses[j] + OneIf(Logging(j))
        <4>1. Len(work) = queued + OneIf(Next1("queued"))
          BY <1>12 DEF Counted
        <4>2. queued \in Nat
          BY DEF FloorInv, FloorTypes, TypeOK
        <4>3. Len(work) = queued
          BY <1>11, <4>1, <4>2 DEF OneIf
        <4> QED BY <1>2, <1>12, <1>14, <4>3 DEF Counted
      <3>3. Len(work') = queued' + OneIf(Next1("queued")')
        BY <1>5, <1>7, <2>3, <3>1, <3>2 DEF OneIf
      <3>4. \A j \in DOMAIN work' : work'[j].responses = responses'[j]
        <4>1. \A j \in DOMAIN h.to : responses[j] \in Nat
          BY <2>1, WorksResponses DEF FloorInv
        <4>2. \A j \in DOMAIN h.to : responses[j] + OneIf(Logging(j)) = responses[j]
          BY <1>11, <4>1 DEF OneIf
        <4> QED BY <1>5, <2>3, <3>2, <4>2
      <3>5. \A j \in 1..MaxItems : j > Len(work') => j > Len(work)
        BY <2>1, <2>3, <3>2, FloorTyped DEF FloorInv, OneIf, Works
      <3>6. \A j \in 1..MaxItems : j > Len(work') => responses'[j] = 0
        BY <1>5, <1>12, <3>5 DEF Counted
      <3> QED BY <2>7, <3>3, <3>4, <3>6 DEF Counted
    <2> QED BY <1>7, <1>9, <2>4, <2>5, <2>6, <2>8, <2>9, <2>10 DEF FloorInv, FloorSound, CollaborationSound
  <1> QED BY <1>3, <1>13, <1>14

LEMMA CollaborationWriteRecord ==
    ASSUME FloorInv, WriteRecord("collaboration")
    PROVE  FloorInv'
  <1>1. PICK h, T : h = op["collaboration"][1] /\ T = Tail(op["collaboration"])
    OBVIOUS
  <1>2. /\ h \in CollaborationStep /\ Head(op["collaboration"]) = h /\ op["collaboration"] # <<>>
        /\ T \in Seq(CollaborationStep)
        /\ Owes("collaboration") = {h} \cup Elements(T)
        /\ T = <<>> \/ \E y \in CollaborationStep : Len(T) = 1 /\ T[1] = y /\ Elements(T) = {y} /\ DOMAIN T = {1}
        /\ h.kind = "queued" => T = <<>>
        /\ h.kind = "response" => T # <<>>
        /\ \A y \in Elements(T) : h.kind = "response" => y.kind = "work"
    <2>1. op["collaboration"] # <<>>
      BY DEF WriteRecord
    <2>2. /\ h \in CollaborationStep /\ Head(op["collaboration"]) = h
          /\ T \in Seq(CollaborationStep)
          /\ Owes("collaboration") = {h} \cup Elements(T)
          /\ T = <<>> \/ \E y \in CollaborationStep : Len(T) = 1 /\ T[1] = y /\ Elements(T) = {y} /\ DOMAIN T = {1}
      BY <1>1, <2>1, CollaborationHead
    <2>3. /\ h.kind = "queued" => T = <<>>
          /\ h.kind = "response" => T # <<>>
      BY <1>1, <2>1, CollaborationHead
    <2>4. \A y \in Elements(T) : h.kind = "response" => y.kind = "work"
      BY <1>1, <2>1, CollaborationHead
    <2> QED BY <2>1, <2>2, <2>3, <2>4
  <1>3. /\ \/ h.kind = "queued" /\ queued' = queued + 1 /\ UNCHANGED responses
           \/ h.kind = "response" /\ responses' = [responses EXCEPT ![h.about] = @ + 1] /\ UNCHANGED queued
        /\ op' = [op EXCEPT !["collaboration"] = T]
        /\ UNCHANGED <<fleet, work, passport, runtime, session, mandates, ops, faults, overlapped>>
    <2>1. h.kind \notin {"v1", "v2", "runtime", "session", "issue", "revoke"}
      BY <1>2, CollaborationKinds
    <2> QED BY <1>1, <1>2, <2>1 DEF WriteRecord
  <1>4. /\ op'["collaboration"] = T /\ DOMAIN op' = Services
        /\ op'["identity"] = op["identity"] /\ op'["mandates"] = op["mandates"]
        /\ \A t \in Services : t # "collaboration" => op'[t] = op[t]
    BY <1>3 DEF FloorInv, FloorTypes, TypeOK, Services
  <1>5. /\ queued \in Nat /\ responses \in [1..MaxItems -> Nat]
        /\ h.kind = "response" => h.about \in 1..MaxItems
    BY <1>2, CollaborationKinds DEF FloorInv, FloorTypes, TypeOK
  <1>6. /\ queued' \in Nat /\ responses' \in [1..MaxItems -> Nat]
    BY <1>3, <1>5
  <1>7. \A y \in Elements(T) : y.kind = "work"
    <2>1. T = <<>> => Elements(T) = {}
      BY Empty
    <2> QED BY <1>2, <1>3, <2>1
  <1>8. /\ Shape' /\ Owes("collaboration")' = Elements(T)
        /\ \A j : ~ Logging(j)'
        /\ ~ Next1("queued")' /\ ~ Queueing'
        /\ Next1("work")' <=> T # <<>>
    <2>1. \A y \in Elements(T) : y.kind # "response"
      BY <1>7
    <2>2. T # <<>> <=> \E y \in Elements(T) : y.kind = "work"
      <3>1. T = <<>> => Elements(T) = {}
        BY Empty
      <3> QED BY <1>2, <1>7, <3>1
    <2> QED BY <1>2, <1>4, <1>7, <2>1, <2>2, CollaborationLeft
  <1>9. Grows
    BY <1>3 DEF Grows
  <1>10. FloorTypes'
    <2>1. op'["mandates"] \in Seq(MandateStep) /\ op'["identity"] \in Seq(IdentityStep)
          /\ op'["collaboration"] \in Seq(CollaborationStep)
      BY <1>2, <1>4 DEF FloorInv, FloorTypes
    <2> QED BY <1>3, <1>4, <1>6, <2>1 DEF FloorInv, FloorTypes, TypeOK
  <1>11. IdentitySound' /\ Rows'
    BY <1>3, <1>4, <1>9, IdentityStays, RowsStay DEF FloorInv
  <1>12. \A t \in Services : Owes(t)' \subseteq Owes(t)
    BY <1>2, <1>4, <1>8 DEF Owes, Elements
  <1>13. KeepsFloor' /\ Ownership'
    BY <1>3, <1>9, <1>12, WritesStay
  <1>14. MandatesSound'
    <2>1. responses' = responses \/ \E i \in 1..MaxItems : responses' = [responses EXCEPT ![i] = @ + 1]
      BY <1>3, <1>5
    <2> QED BY <1>3, <1>4, <2>1, MandatesStay DEF FloorInv
  <1>15. Logged /\ Fresh /\ Counted
    BY DEF FloorInv, CollaborationSound
  <1>16. Fresh'
    BY <1>3, <1>9, <1>12, <1>15, GrownFacts DEF Fresh, Services
  <1>17. \A j : Logging(j) <=> h.kind = "response" /\ j = h.about
    BY <1>1, <1>2 DEF Logging
  <1>18. \A j \in 1..MaxItems : responses'[j] = responses[j] + OneIf(Logging(j))
    <2>1. CASE h.kind = "queued"
      <3>1. \A j \in 1..MaxItems : ~ Logging(j) /\ responses'[j] = responses[j] /\ responses[j] \in Nat
        BY <1>3, <1>5, <1>17, <2>1
      <3> QED BY <3>1 DEF OneIf
    <2>2. CASE h.kind = "response"
      <3>1. PICK i \in 1..MaxItems : i = h.about /\ responses' = [responses EXCEPT ![i] = responses[i] + 1]
        BY <1>3, <1>5, <2>2
      <3>2. \A j \in 1..MaxItems : /\ responses[j] \in Nat /\ (Logging(j) <=> j = i)
                                    /\ responses'[j] = IF j = i THEN responses[j] + 1 ELSE responses[j]
        BY <1>5, <1>17, <2>2, <3>1
      <3> QED BY <3>2 DEF OneIf
    <2> QED BY <1>3, <2>1, <2>2
  <1>19. \A w \in Works : \A j \in DOMAIN w : j \in 1..MaxItems /\ w[j].responses \in Nat /\ responses[j] \in Nat
    BY WorksResponses DEF FloorInv
  <1>20. \A y \in Elements(T) : y \in CollaborationStep /\ y.to \in Works
    <2>1. \A y \in Elements(T) : y \in CollaborationStep
      BY <1>2 DEF Elements
    <2> QED BY <1>7, <2>1, CollaborationKinds
  <1>21. work \in Works /\ FloorTypes
    BY FloorTyped DEF FloorInv
  <1>22. Logged'
    <2>1. ASSUME NEW j \in DOMAIN work PROVE work[j].responses <= responses'[j]
      <3>1. /\ j \in 1..MaxItems /\ work[j].responses \in Nat /\ responses[j] \in Nat
            /\ work[j].responses <= responses[j]
        BY <1>15, <1>19, <1>21 DEF Logged
      <3> QED BY <1>18, <3>1 DEF OneIf
    <2>2. ASSUME NEW y \in Elements(T), NEW j \in DOMAIN y.to
          PROVE  y.to[j].responses <= responses'[j] + OneIf(Logging(j)')
      <3>1. /\ j \in 1..MaxItems /\ responses[j] \in Nat
            /\ y.to[j].responses <= responses[j] + OneIf(Logging(j))
        BY <1>2, <1>7, <1>15, <1>19, <1>20 DEF Logged
      <3>2. responses'[j] + OneIf(Logging(j)') = responses'[j]
        BY <1>6, <1>8, <3>1 DEF OneIf
      <3> QED BY <1>18, <3>1, <3>2
    <2> QED BY <1>3, <1>8, <2>1, <2>2 DEF Logged, OneIf
  <1>23. Counted'
    <2> SUFFICES ASSUME faults = 0, ~ overlapped.work PROVE Counted'
      BY <1>3 DEF Counted
    <2>1. Len(work) = queued'
      BY <1>1, <1>2, <1>3, <1>5, <1>15 DEF Counted, Next1, OneIf
    <2>2. ASSUME NEW j \in 1..MaxItems, j > Len(work) PROVE responses'[j] = 0
      <3>1. responses[j] = 0
        BY <1>15, <2>2 DEF Counted
      <3>2. h.kind = "response" => h.about <= Len(work)
        BY <1>2, <1>15 DEF Counted
      <3>3. Len(work) \in Nat
        BY <1>21, FloorTyped
      <3>4. ~ Logging(j)
        BY <1>5, <1>17, <2>2, <3>2, <3>3
      <3> QED BY <1>18, <3>1, <3>4 DEF OneIf
    <2>3. ASSUME NEW j \in DOMAIN work PROVE work[j].responses = responses'[j] \/ T # <<>>
      <3>1. CASE h.kind = "queued"
        BY <1>1, <1>3, <1>15, <3>1 DEF Counted, Next1
      <3> QED BY <1>2, <1>3, <3>1
    <2>4. ASSUME NEW y \in Elements(T)
          PROVE  Len(y.to) = queued' /\ \A j \in DOMAIN y.to : y.to[j].responses = responses'[j]
      <3>1. h.kind = "response" /\ UNCHANGED queued
        <4>1. T # <<>>
          BY Empty
        <4> QED BY <1>2, <1>3, <4>1
      <3>2. ~ Queueing
        BY <1>2, <1>7, <3>1 DEF Queueing
      <3>3. Len(y.to) = queued + OneIf(Queueing) /\ \A j \in DOMAIN y.to : y.to[j].responses = responses[j] + OneIf(Logging(j))
        BY <1>2, <1>7, <1>15 DEF Counted
      <3>4. Len(y.to) = queued'
        BY <1>5, <3>1, <3>2, <3>3 DEF OneIf
      <3> QED BY <1>18, <1>19, <1>20, <3>3, <3>4
    <2>5. \A y \in Elements(T) : \A j \in DOMAIN y.to : responses'[j] + OneIf(Logging(j)') = responses'[j]
      BY <1>6, <1>8, <1>19, <1>20 DEF OneIf
    <2>6. queued' + OneIf(Next1("queued")') = queued' /\ queued' + OneIf(Queueing') = queued'
      <3>1. PICK n \in Nat : n = queued'
        BY <1>6
      <3>2. n + 0 = n
        OBVIOUS
      <3> QED BY <1>8, <3>1, <3>2 DEF OneIf
    <2> QED BY <1>3, <1>7, <1>8, <2>1, <2>2, <2>3, <2>4, <2>5, <2>6 DEF Counted
  <1> QED BY <1>8, <1>10, <1>11, <1>13, <1>14, <1>16, <1>22, <1>23 DEF FloorInv, FloorSound, CollaborationSound

-----------------------------------------------------------------------------
(* An operation of the collaboration begins.                                *)

Was(j) == IF j \in DOMAIN work THEN work[j].responses ELSE 0
Writes(z, x, y) ==
    /\ z.from = work /\ Len(z.to) = Len(work) + OneIf(y.kind = "queued")
    /\ \A j \in DOMAIN z.to : z.to[j].responses = Was(j) + OneIf(x.kind = "response" /\ x.about = j)

LEMMA CollaborationStarts ==
    ASSUME FloorInv, NEW x \in CollaborationStep, NEW y \in CollaborationStep,
           Start("collaboration", <<x, y>>),
           \/ x.kind = "work" /\ y.kind \in {"queued", "fleet"}
           \/ x.kind = "fleet" /\ y.kind = "work"
           \/ x.kind = "response" /\ y.kind = "work" /\ x.about <= Len(work),
           \A z \in {x, y} : z.kind = "fleet" => Owned(z.to) /\ \A a \in Agents : Keeps(a, z.from, z.to),
           \A z \in {x, y} : z.kind = "work" => Writes(z, x, y)
    PROVE  FloorInv'
  <1>1. PICK L \in Seq(CollaborationStep) :
           L = <<x, y>> /\ DOMAIN L = {1, 2} /\ L[1] = x /\ L[2] = y /\ Len(L) = 2 /\ Elements(L) = {x, y} /\ L # <<>>
    <2>1. /\ <<x, y>> \in Seq(CollaborationStep) /\ Len(<<x, y>>) = 2 /\ DOMAIN <<x, y>> = {1, 2}
          /\ <<x, y>>[1] = x /\ <<x, y>>[2] = y /\ Elements(<<x, y>>) = {x, y} /\ <<x, y>> # <<>>
      BY Pairs
    <2> QED BY <2>1
  <1>2. /\ op["collaboration"] = <<>> /\ op'["collaboration"] = L /\ DOMAIN op' = Services
        /\ op'["identity"] = op["identity"] /\ op'["mandates"] = op["mandates"]
        /\ \A t \in Services : t # "collaboration" => op'[t] = op[t]
        /\ ops' \in Nat
        /\ UNCHANGED <<fleet, work, passport, runtime, session, mandates, queued, responses, faults, overlapped>>
    BY <1>1, Starts DEF FloorInv, Services
  <1>3. Grows
    BY <1>2 DEF Grows
  <1>4. FloorTypes'
    <2>1. /\ faults' \in Nat /\ overlapped' \in [rows : SUBSET Agents, work : BOOLEAN]
          /\ fleet' \in Board /\ work' \in Works
      BY <1>2, FloorTyped DEF FloorInv, FloorTypes, TypeOK
    <2> QED BY <1>1, <1>2, <2>1, TypesStay DEF FloorInv, FloorTypes
  <1>5. IdentitySound' /\ Rows' /\ MandatesSound'
    BY <1>2, <1>3, IdentityStays, MandatesStay, RowsStay DEF FloorInv
  <1>6. Owes("collaboration")' = {x, y}
    BY <1>1, <1>2 DEF Owes
  <1>7. KeepsFloor' /\ Ownership'
    <2>1. ASSUME NEW s \in Services, NEW z \in Owes(s)', z.kind = "fleet"
          PROVE  z \in Owes(s) \/ (s # "identity" /\ Owned(z.to) /\ \A a \in Agents : Keeps(a, z.from, z.to))
      <3>1. CASE s = "collaboration"
        BY <1>6, <2>1, <3>1
      <3>2. CASE s # "collaboration"
        BY <1>2, <2>1, <3>2 DEF Owes
      <3> QED BY <3>1, <3>2
    <2> QED BY <1>2, <1>3, <2>1, WritesStay
  <1>8. Shape'
    BY <1>1, <1>2 DEF Shape, Next1
  <1>9. /\ \A j : Logging(j)' <=> x.kind = "response" /\ x.about = j
        /\ ~ Next1("queued")' /\ (Next1("work")' <=> x.kind = "work")
        /\ Queueing' <=> y.kind = "queued"
    BY <1>1, <1>2, <1>6 DEF Logging, Next1, Queueing
  <1>10. /\ Owes("collaboration") = {} /\ ~ Next1("queued") /\ ~ Next1("work")
    BY <1>2, Empty DEF Owes, Next1
  <1>11. Logged /\ Fresh /\ Counted
    BY DEF FloorInv, CollaborationSound
  <1>12. ASSUME NEW z \in {x, y}, z.kind = "work"
         PROVE  /\ z.from = work /\ z.to \in Works /\ Len(z.to) = Len(work) + OneIf(Queueing')
                /\ \A j \in DOMAIN z.to : j \in 1..MaxItems /\ z.to[j].responses = Was(j) + OneIf(Logging(j)')
    <2>1. z.from = work /\ z.to \in Works
      BY <1>12, CollaborationKinds DEF Writes
    <2>2. Len(z.to) = Len(work) + OneIf(Queueing')
      BY <1>9, <1>12 DEF Writes, OneIf
    <2>3. ASSUME NEW j \in DOMAIN z.to PROVE j \in 1..MaxItems /\ z.to[j].responses = Was(j) + OneIf(Logging(j)')
      <3>1. j \in 1..MaxItems
        BY <2>1, WorksResponses DEF FloorInv
      <3>2. z.to[j].responses = Was(j) + OneIf(x.kind = "response" /\ x.about = j)
        BY <1>12 DEF Writes
      <3> QED BY <1>9, <3>1, <3>2 DEF OneIf
    <2> QED BY <2>1, <2>2, <2>3
  <1>13. ASSUME NEW j \in 1..MaxItems
         PROVE  Was(j) \in Nat /\ responses[j] \in Nat /\ Was(j) <= responses[j]
    <2>1. work \in Works /\ responses[j] \in Nat
      BY FloorTyped DEF FloorInv, FloorTypes, TypeOK
    <2>2. j \in DOMAIN work => work[j].responses \in Nat /\ work[j].responses <= responses[j]
      BY <1>11, <2>1, WorksResponses DEF FloorInv, Logged
    <2> QED BY <2>1, <2>2 DEF Was
  <1>14. Logged'
    <2>1. ASSUME NEW z \in {x, y}, z.kind = "work", NEW j \in DOMAIN z.to
          PROVE  z.to[j].responses <= responses'[j] + OneIf(Logging(j)')
      <3>1. j \in 1..MaxItems /\ z.to[j].responses = Was(j) + OneIf(Logging(j)')
        BY <1>12, <2>1
      <3>2. PICK n \in {0, 1} : n = OneIf(Logging(j)')
        BY DEF OneIf
      <3> QED BY <1>2, <1>13, <3>1, <3>2
    <2> QED BY <1>2, <1>6, <1>11, <2>1 DEF Logged
  <1>15. Fresh'
    <2>1. \A z \in {x, y} : z.kind = "work" => z.from = work
      BY <1>12
    <2> QED BY <1>2, <1>3, <1>6, <1>11, <2>1, GrownFacts DEF Fresh
  <1>16. Counted'
    <2> SUFFICES ASSUME faults = 0, ~ overlapped.work PROVE Counted'
      BY <1>2 DEF Counted
    <2>1. /\ Len(work) = queued + OneIf(Next1("queued"))
          /\ \A j \in 1..MaxItems : j > Len(work) => responses[j] = 0
          /\ \A j \in DOMAIN work : work[j].responses = responses[j]
      BY <1>10, <1>11 DEF Counted
    <2>2. Len(work) = queued
      <3>1. PICK n \in Nat : n = queued
        BY DEF FloorInv, FloorTypes, TypeOK
      <3>2. n + 0 = n
        OBVIOUS
      <3> QED BY <1>10, <2>1, <3>1, <3>2 DEF OneIf
    <2>3. Len(work') = queued' + OneIf(Next1("queued")')
      <3>1. PICK n \in Nat : n = queued
        BY DEF FloorInv, FloorTypes, TypeOK
      <3>2. n + 0 = n
        OBVIOUS
      <3> QED BY <1>2, <1>9, <2>2, <3>1, <3>2 DEF OneIf
    <2>4. \A j \in 1..MaxItems : Was(j) = responses[j]
      <3>1. DOMAIN work = 1..Len(work) /\ Len(work) \in Nat
        BY FloorTyped DEF FloorInv
      <3>2. ASSUME NEW j \in 1..MaxItems, j \notin DOMAIN work PROVE responses[j] = 0
        <4>1. j > Len(work)
          BY <3>1, <3>2
        <4> QED BY <2>1, <4>1
      <3> QED BY <2>1, <3>2 DEF Was
    <2>5. ASSUME NEW z \in {x, y}, z.kind = "work"
          PROVE  /\ Len(z.to) = queued' + OneIf(Queueing')
                 /\ \A j \in DOMAIN z.to : z.to[j].responses = responses'[j] + OneIf(Logging(j)')
      <3>1. Len(z.to) = Len(work) + OneIf(Queueing')
        BY <1>12, <2>5
      <3>2. Len(z.to) = queued' + OneIf(Queueing')
        BY <1>2, <2>2, <3>1
      <3>3. ASSUME NEW j \in DOMAIN z.to PROVE z.to[j].responses = responses'[j] + OneIf(Logging(j)')
        <4>1. j \in 1..MaxItems /\ z.to[j].responses = Was(j) + OneIf(Logging(j)')
          BY <1>12, <2>5
        <4> QED BY <1>2, <2>4, <4>1
      <3> QED BY <3>2, <3>3
    <2>6. \A z \in {x, y} : z.kind = "response" => z.about <= Len(work')
      BY <1>2
    <2>7. \A j \in DOMAIN work' : work'[j].responses = responses'[j]
      BY <1>2, <2>1
    <2>8. \A j \in 1..MaxItems : j > Len(work') => responses'[j] = 0
      BY <1>2, <2>1
    <2> QED BY <1>6, <2>3, <2>5, <2>6, <2>7, <2>8 DEF Counted
  <1> QED BY <1>4, <1>5, <1>7, <1>8, <1>14, <1>15, <1>16 DEF FloorInv, FloorSound, CollaborationSound

LEMMA CreateAssignmentStep ==
    ASSUME FloorInv, NEW a \in Agents, CreateAssignment(a)
    PROVE  FloorInv'
  <1>1. fleet[a] \in Row /\ fleet \in Board /\ work \in Seq(Item) /\ Len(work) \in Nat /\ MaxItems \in Nat
    BY FloorTyped, BoundsAssumption DEF FloorInv, Works
  <1>2. PICK item \in Item : /\ item.responses = 0
                             /\ item = [status |-> "queued", agent |-> a, mandate |-> fleet[a].mandate, responses |-> 0]
    <2>1. fleet[a].mandate \in Nat
      BY <1>1, RowFacts
    <2> QED BY <2>1 DEF Item, ItemStatus
  <1>3. PICK to : to = Append(work, item)
    OBVIOUS
  <1>4. /\ to \in Seq(Item) /\ Len(to) = Len(work) + 1 /\ DOMAIN to = 1..(Len(work) + 1) /\ DOMAIN work = 1..Len(work)
        /\ \A j \in 1..Len(work) : to[j] = work[j]
        /\ to[Len(work) + 1] = item
    BY <1>1, <1>2, <1>3
  <1>5. Len(work) < MaxItems /\ Start("collaboration", <<WriteWork(to), [kind |-> "queued"]>>)
    BY <1>2, <1>3 DEF CreateAssignment
  <1>6. to \in Works
    BY <1>1, <1>4, <1>5 DEF Works
  <1>7. PICK x \in CollaborationStep : x = WriteWork(to) /\ x.kind = "work" /\ x.from = work /\ x.to = to
    <2>1. work \in Works
      BY FloorTyped DEF FloorInv
    <2> QED BY <1>6, <2>1, WorkWrites
  <1>8. PICK y \in CollaborationStep : y = [kind |-> "queued"] /\ y.kind = "queued"
    <2>1. [kind |-> "queued"] \in CollaborationStep /\ [kind |-> "queued"].kind = "queued"
      <3>1. [kind |-> "queued"] \in [kind : {"queued"}]
        OBVIOUS
      <3> QED BY <3>1 DEF CollaborationStep
    <2> QED BY <2>1
  <1>9. Writes(x, x, y)
    <2>1. Len(to) = Len(work) + OneIf(y.kind = "queued")
      BY <1>4, <1>8 DEF OneIf
    <2>2. ASSUME NEW j \in DOMAIN to PROVE to[j].responses = Was(j) + OneIf(x.kind = "response" /\ x.about = j)
      <3>1. to[j].responses = Was(j) /\ Was(j) \in Nat
        <4>1. CASE j \in DOMAIN work
          <5>1. work[j] \in Item
            BY <1>1, <4>1, InList
          <5> QED BY <1>4, <4>1, <5>1 DEF Was, Item
        <4>2. CASE j \notin DOMAIN work
          <5>1. j = Len(work) + 1
            BY <1>1, <1>4, <4>2
          <5> QED BY <1>2, <1>4, <4>2, <5>1 DEF Was
        <4> QED BY <4>1, <4>2
      <3>2. PICK n \in Nat : n = Was(j)
        BY <3>1
      <3>3. n + 0 = n
        OBVIOUS
      <3> QED BY <1>7, <3>1, <3>2, <3>3 DEF OneIf
    <2> QED BY <1>7, <2>1, <2>2 DEF Writes
  <1>10. Start("collaboration", <<x, y>>)
    BY <1>5, <1>7, <1>8
  <1> QED BY <1>7, <1>8, <1>9, <1>10, CollaborationStarts

\* An item that takes the place of another counts as many responses as that one, or one more.
LEMMA Rewritten ==
    ASSUME FloorInv, NEW i \in DOMAIN work, NEW item \in Item, NEW to, to = [work EXCEPT ![i] = item],
           NEW x \in CollaborationStep, NEW y \in CollaborationStep, NEW z \in {x, y},
           z.from = work, z.to = to, y.kind # "queued",
           \/ item.responses = work[i].responses /\ x.kind # "response"
           \/ item.responses = work[i].responses + 1 /\ x.kind = "response" /\ x.about = i
    PROVE  to \in Works /\ Writes(z, x, y)
  <1>1. work \in Seq(Item) /\ Len(work) <= MaxItems /\ work \in Works
    BY FloorTyped DEF FloorInv, FloorTypes, TypeOK
  <1>2. /\ to \in Seq(Item) /\ Len(to) = Len(work) /\ DOMAIN to = DOMAIN work /\ Len(work) \in Nat
        /\ to[i] = item /\ \A j \in DOMAIN work : j # i => to[j] = work[j]
    BY <1>1
  <1>3. to \in Works
    BY <1>1, <1>2 DEF Works
  <1>4. Len(z.to) = Len(work) + OneIf(y.kind = "queued")
    BY <1>2 DEF OneIf
  <1>5. ASSUME NEW j \in DOMAIN to PROVE to[j].responses = Was(j) + OneIf(x.kind = "response" /\ x.about = j)
    <2>1. PICK n \in Nat : n = work[j].responses /\ n = Was(j)
      BY <1>1, <1>2, WorksResponses DEF FloorInv, Was
    <2>2. n + 0 = n
      OBVIOUS
    <2>3. CASE j = i
      BY <1>2, <2>1, <2>2, <2>3 DEF OneIf
    <2>4. CASE j # i
      BY <1>2, <2>1, <2>2, <2>4 DEF OneIf
    <2> QED BY <2>3, <2>4
  <1> QED BY <1>3, <1>4, <1>5 DEF Writes

LEMMA ProjectionRight ==
    ASSUME FloorInv, NEW before \in Agents, NEW item \in Item, RequireAgent(before), RequireAgent(item.agent),
           NEW to, to = Projection(before, item)
    PROVE  to \in Board /\ Owned(to) /\ \A a \in Agents : Keeps(a, fleet, to)
  <1>1. fleet \in Board /\ (\A a \in Agents : fleet[a] \in Row) /\ Owned(fleet)
    BY FloorTyped DEF FloorInv, FloorSound, Ownership
  <1>2. PICK st : /\ st \in {"working", "approval-required", "blocked", "ready"}
                  /\ st = CASE item.status = "active" -> "working"
                            [] item.status = "approval" -> "approval-required"
                            [] item.status = "blocked" -> "blocked"
                            [] OTHER -> "ready"
    <2>1. (CASE item.status = "active" -> "working"
             [] item.status = "approval" -> "approval-required"
             [] item.status = "blocked" -> "blocked"
             [] OTHER -> "ready") \in {"working", "approval-required", "blocked", "ready"}
      OBVIOUS
    <2> QED BY <2>1
  <1>3. to = [a \in Agents |-> CASE a = item.agent -> [fleet[a] EXCEPT !.status = st]
                                 [] a = before /\ a # item.agent -> [fleet[a] EXCEPT !.status = "ready"]
                                 [] OTHER -> fleet[a]]
    BY <1>2 DEF Projection
  <1>4. ASSUME NEW a \in Agents PROVE to[a] \in Row /\ to[a].mandate = fleet[a].mandate /\ Keeps(a, fleet, to)
    <2>1. PICK r \in Row : r = fleet[a]
      BY <1>1
    <2>2. \/ to[a] = r
          \/ \E t \in {"working", "approval-required", "blocked", "ready"} :
                r.status \notin {"absent", "offline"} /\ to[a] = [r EXCEPT !.status = t]
      BY <1>2, <1>3, <2>1 DEF RequireAgent
    <2>3. CASE to[a] = r
      BY <2>1, <2>3 DEF Keeps
    <2>4. CASE to[a] # r
      <3>1. PICK t \in {"working", "approval-required", "blocked", "ready"} :
               r.status \notin {"absent", "offline"} /\ to[a] = [r EXCEPT !.status = t]
        BY <2>2, <2>4
      <3>2. r # Absent /\ t \in {"ready", "working", "approval-required", "blocked", "offline"}
        BY <3>1, RowFacts
      <3>3. PICK w : w = [r EXCEPT !.status = t]
        OBVIOUS
      <3>4. w \in Row /\ w # Absent /\ w.mandate = r.mandate
        BY <3>2, <3>3, RowStatus
      <3> QED BY <2>1, <3>1, <3>2, <3>3, <3>4 DEF Keeps
    <2> QED BY <2>3, <2>4
  <1>5. to \in Board
    BY <1>3, <1>4 DEF Board
  <1> QED BY <1>1, <1>4, <1>5 DEF Owned

LEMMA UpdateAssignmentStep ==
    ASSUME FloorInv, NEW i \in DOMAIN work, NEW a \in Agents, NEW status \in ItemStatus,
           UpdateAssignment(i, a, status)
    PROVE  FloorInv'
  <1>1. PICK current \in Item : current = work[i]
    BY FloorTyped DEF FloorInv
  <1>2. PICK m \in Nat : m = IF a = current.agent THEN current.mandate ELSE fleet[a].mandate
    <2>1. fleet[a].mandate \in Nat /\ current.mandate \in Nat
      BY FloorTyped, RowFacts DEF FloorInv, Item
    <2> QED BY <2>1
  <1>3. PICK next : next = [current EXCEPT !.agent = a, !.status = status,
                                           !.mandate = IF a = current.agent THEN @ ELSE fleet[a].mandate]
    OBVIOUS
  <1>4. next = [status |-> status, agent |-> a, mandate |-> m, responses |-> current.responses]
    BY <1>2, <1>3 DEF Item
  <1>5. next \in Item /\ next.agent = a /\ next.responses = current.responses
    BY <1>4 DEF Item
  <1>6. PICK w, f : w = [work EXCEPT ![i] = next] /\ f = Projection(current.agent, next)
    OBVIOUS
  <1>7. /\ RequireAgent(current.agent) /\ RequireAgent(a)
        /\ Start("collaboration", <<WriteWork(w), WriteFleet(f)>>)
    BY <1>1, <1>3, <1>6 DEF UpdateAssignment
  <1>8. f \in Board /\ Owned(f) /\ \A b \in Agents : Keeps(b, fleet, f)
    <2>1. current.agent \in Agents
      BY DEF Item
    <2> QED BY <1>5, <1>6, <1>7, <2>1, ProjectionRight
  <1>9. fleet \in Board /\ work \in Works
    BY FloorTyped DEF FloorInv
  <1>10. w \in Works
    <2>1. work \in Seq(Item) /\ Len(work) <= MaxItems
      BY <1>9 DEF Works
    <2>2. w \in Seq(Item) /\ Len(w) = Len(work)
      BY <1>5, <1>6, <2>1
    <2> QED BY <2>1, <2>2 DEF Works
  <1>11. PICK x \in CollaborationStep : x = WriteWork(w) /\ x.kind = "work" /\ x.from = work /\ x.to = w
    BY <1>9, <1>10, WorkWrites
  <1>12. PICK y \in CollaborationStep : y = WriteFleet(f) /\ y.kind = "fleet" /\ y.from = fleet /\ y.to = f
    BY <1>8, <1>9, FleetWrites
  <1>13. Writes(x, x, y)
    <2>1. x \in {x, y} /\ y.kind # "queued" /\ x.kind # "response" /\ next.responses = work[i].responses
      BY <1>1, <1>5, <1>11, <1>12
    <2> QED BY <1>5, <1>6, <1>11, <2>1, Rewritten
  <1>14. Start("collaboration", <<x, y>>)
    BY <1>7, <1>11, <1>12
  <1> QED BY <1>8, <1>11, <1>12, <1>13, <1>14, CollaborationStarts

LEMMA RebindStep ==
    ASSUME FloorInv, NEW i \in DOMAIN work, NEW m \in DOMAIN mandates, RebindAssignmentAuthority(i, m)
    PROVE  FloorInv'
  <1>1. PICK current \in Item : current = work[i]
    BY FloorTyped DEF FloorInv
  <1>2. PICK b \in Agents : b = current.agent
    BY DEF Item
  <1>3. m \in Nat
    BY FloorTyped DEF FloorInv
  <1>4. PICK next : next = [current EXCEPT !.mandate = m]
    OBVIOUS
  <1>5. next \in Item /\ next.responses = current.responses
    BY <1>3, <1>4 DEF Item
  <1>6. PICK w, f : w = [work EXCEPT ![i] = next] /\ f = [fleet EXCEPT ![b].mandate = m]
    OBVIOUS
  <1>7. fleet \in Board /\ work \in Works /\ fleet[b] \in Row /\ Owned(fleet)
    BY FloorTyped DEF FloorInv, FloorSound, Ownership
  <1>8. work \in Seq(Item) /\ Len(work) <= MaxItems
    BY <1>7 DEF Works
  <1>9. [work EXCEPT ![i].mandate = m] = w
    BY <1>1, <1>4, <1>6, <1>8
  <1>10. /\ mandates[m].agent = b /\ fleet[b] # Absent
         /\ Start("collaboration", <<WriteFleet(f), WriteWork(w)>>)
    BY <1>1, <1>2, <1>6, <1>9 DEF RebindAssignmentAuthority
  <1>11. PICK r : r = [fleet[b] EXCEPT !.mandate = m]
    OBVIOUS
  <1>12. r \in Row /\ r # Absent /\ r.status = fleet[b].status /\ r.mandate = m
    BY <1>3, <1>7, <1>10, <1>11, RowMandate
  <1>13. f \in Board /\ f[b] = r /\ \A c \in Agents \ {b} : f[c] = fleet[c]
    BY <1>6, <1>7, <1>11, <1>12 DEF Board
  <1>14. Owned(f) /\ \A c \in Agents : Keeps(c, fleet, f)
    <2>1. Issued(b, m)
      BY <1>10 DEF Issued
    <2> QED BY <1>7, <1>10, <1>12, <1>13, <2>1 DEF Owned, Keeps
  <1>15. w \in Works
    <2>1. w \in Seq(Item) /\ Len(w) = Len(work)
      BY <1>5, <1>6, <1>8
    <2> QED BY <1>8, <2>1 DEF Works
  <1>16. PICK x \in CollaborationStep : x = WriteFleet(f) /\ x.kind = "fleet" /\ x.from = fleet /\ x.to = f
    BY <1>7, <1>13, FleetWrites
  <1>17. PICK y \in CollaborationStep : y = WriteWork(w) /\ y.kind = "work" /\ y.from = work /\ y.to = w
    BY <1>7, <1>15, WorkWrites
  <1>18. Writes(y, x, y)
    <2>1. y \in {x, y} /\ y.kind # "queued" /\ x.kind # "response" /\ next.responses = work[i].responses
      BY <1>1, <1>5, <1>16, <1>17
    <2> QED BY <1>5, <1>6, <1>17, <2>1, Rewritten
  <1>19. Start("collaboration", <<x, y>>)
    BY <1>10, <1>16, <1>17
  <1> QED BY <1>14, <1>16, <1>17, <1>18, <1>19, CollaborationStarts

LEMMA RecordResponseStep ==
    ASSUME FloorInv, NEW i \in DOMAIN work, RecordResponse(i)
    PROVE  FloorInv'
  <1>1. PICK current \in Item : current = work[i] /\ current.responses \in Nat
    BY FloorTyped DEF FloorInv, Item
  <1>2. PICK next : next = [current EXCEPT !.responses = @ + 1]
    OBVIOUS
  <1>3. next \in Item /\ next.responses = current.responses + 1
    BY <1>1, <1>2 DEF Item
  <1>4. PICK w : w = [work EXCEPT ![i] = next]
    OBVIOUS
  <1>5. /\ work \in Works /\ work \in Seq(Item) /\ Len(work) <= MaxItems
        /\ i \in 1..MaxItems /\ i <= Len(work)
    <2>1. work \in Works /\ i \in 1..MaxItems
      BY FloorTyped DEF FloorInv
    <2>2. work \in Seq(Item) /\ Len(work) <= MaxItems
      BY <2>1 DEF Works
    <2> QED BY <2>1, <2>2, InList
  <1>6. [work EXCEPT ![i].responses = @ + 1] = w
    BY <1>1, <1>2, <1>4, <1>5
  <1>7. Start("collaboration", <<[kind |-> "response", about |-> i], WriteWork(w)>>)
    BY <1>6 DEF RecordResponse
  <1>8. w \in Works
    <2>1. w \in Seq(Item) /\ Len(w) = Len(work)
      BY <1>3, <1>4, <1>5
    <2> QED BY <1>5, <2>1 DEF Works
  <1>9. PICK x \in CollaborationStep : /\ x = [kind |-> "response", about |-> i] /\ x.kind = "response"
                                       /\ x.about = i
    <2>1. [kind |-> "response", about |-> i] \in [kind : {"response"}, about : 1..MaxItems]
      BY <1>5
    <2>2. [kind |-> "response", about |-> i] \in CollaborationStep
      BY <2>1 DEF CollaborationStep
    <2> QED BY <2>2
  <1>10. PICK y \in CollaborationStep : y = WriteWork(w) /\ y.kind = "work" /\ y.from = work /\ y.to = w
    BY <1>5, <1>8, WorkWrites
  <1>11. Writes(y, x, y)
    <2>1. y \in {x, y} /\ y.kind # "queued" /\ next.responses = work[i].responses + 1
      BY <1>1, <1>3, <1>10
    <2> QED BY <1>3, <1>4, <1>9, <1>10, <2>1, Rewritten
  <1>12. Start("collaboration", <<x, y>>)
    BY <1>7, <1>9, <1>10
  <1> QED BY <1>5, <1>9, <1>10, <1>11, <1>12, CollaborationStarts

-----------------------------------------------------------------------------
(* Failures and stops, and the beginning.                                   *)

LEMMA Faulted ==
    ASSUME FloorInv, faults' = faults + 1, DOMAIN op' = Services,
           UNCHANGED <<fleet, work, passport, runtime, session, mandates, queued, responses, ops, overlapped>>,
           \A s \in Services :
              \/ op'[s] = op[s]
              \/ op'[s] = <<>>
              \/ /\ s = "mandates" /\ op[s] # <<>> /\ op[s][1].kind \in {"fleet", "work"}
                 /\ op'[s] = Tail(op[s])
    PROVE  FloorInv'
  <1>1. faults' \in Nat /\ faults' # 0
    BY DEF FloorInv, FloorTypes, TypeOK
  <1>2. /\ op'["identity"] = op["identity"] \/ op'["identity"] = <<>>
        /\ op'["collaboration"] = op["collaboration"] \/ op'["collaboration"] = <<>>
    BY DEF Services
  <1>3. /\ op'["mandates"] \in Seq(MandateStep)
        /\ Owes("mandates")' \subseteq Owes("mandates")
        /\ MandatesSound'
    <2>1. CASE op'["mandates"] = op["mandates"]
      BY <2>1, MandatesStay DEF FloorInv, FloorTypes, Owes, Elements
    <2>2. CASE op'["mandates"] = <<>>
      BY <2>2, Empty DEF Owes, MandatesSound
    <2>3. CASE /\ op["mandates"] # <<>> /\ op["mandates"][1].kind \in {"fleet", "work"}
               /\ op'["mandates"] = Tail(op["mandates"])
      <3>1. MandatesSound'
        BY <2>3, MandatesDrop
      <3>2. /\ Tail(op["mandates"]) \in Seq(MandateStep)
            /\ Owes("mandates") = {op["mandates"][1]} \cup Elements(Tail(op["mandates"]))
        BY <2>3, MandatesHead
      <3> QED BY <2>3, <3>1, <3>2 DEF Owes
    <2> QED BY <2>1, <2>2, <2>3 DEF Services
  <1>4. FloorTypes'
    <2>1. fleet' \in Board /\ work' \in Works /\ ops' \in Nat /\ overlapped' \in [rows : SUBSET Agents, work : BOOLEAN]
      BY FloorTyped DEF FloorInv, FloorTypes, TypeOK
    <2>2. op'["identity"] \in Seq(IdentityStep) /\ op'["collaboration"] \in Seq(CollaborationStep)
      BY <1>2, Empty DEF FloorInv, FloorTypes
    <2> QED BY <1>1, <1>3, <2>1, <2>2, TypesStay DEF FloorInv
  <1>5. Grows
    BY DEF Grows
  <1>6. \A t \in {"identity", "collaboration"} : Owes(t)' = Owes(t) \/ Owes(t)' = {}
    BY <1>2, Empty DEF Owes, Elements
  <1>7. IdentitySound'
    <2>1. CASE op'["identity"] = op["identity"]
      BY <1>1, <1>5, <2>1, IdentityStays DEF FloorInv
    <2>2. CASE op'["identity"] = <<>>
      <3>1. Owes("identity")' = {}
        BY <2>2, Empty DEF Owes
      <3> QED BY <1>1, <2>2, <3>1 DEF IdentitySound, Front, Told, Follow, ShownRight
    <2> QED BY <1>2, <2>1, <2>2
  <1>8. FloorSound'
    <2>1. KeepsFloor' /\ Ownership'
      <3>1. \A s \in Services : \A x \in Owes(s)' : x \in Owes(s)
        BY <1>3, <1>6 DEF Services
      <3> QED BY <1>5, <3>1, WritesStay
    <2>2. Rows'
      BY <1>1 DEF Rows
    <2> QED BY <2>1, <2>2 DEF FloorSound
  <1>9. CollaborationSound'
    <2>1. CASE op'["collaboration"] = op["collaboration"]
      BY <1>1, <1>5, <2>1, CollaborationStays DEF FloorInv
    <2>2. CASE op'["collaboration"] = <<>>
      <3>1. Owes("collaboration")' = {}
        BY <2>2, Empty DEF Owes
      <3>2. Shape'
        BY <2>2 DEF Shape
      <3>3. Logged' /\ Fresh'
        BY <1>5, <3>1, GrownFacts DEF FloorInv, CollaborationSound, Logged, Fresh
      <3> QED BY <1>1, <3>2, <3>3 DEF CollaborationSound, Counted
    <2> QED BY <1>2, <2>1, <2>2
  <1> QED BY <1>3, <1>4, <1>7, <1>8, <1>9 DEF FloorInv

LEMMA FailStep ==
    ASSUME FloorInv, NEW s \in Services, Fail(s)
    PROVE  FloorInv'
  <1>1. /\ op[s] # <<>> /\ faults' = faults + 1
        /\ op' = [op EXCEPT ![s] = IF s = "mandates" /\ Head(op[s]).kind \in {"fleet", "work"} THEN Tail(op[s])
                                   ELSE <<>>]
        /\ UNCHANGED <<fleet, work, passport, runtime, session, mandates, queued, responses, ops, overlapped>>
    BY DEF Fail, records
  <1>2. DOMAIN op = Services
    BY DEF FloorInv, FloorTypes, TypeOK
  <1>3. /\ DOMAIN op' = Services
        /\ \A t \in Services : t # s => op'[t] = op[t]
        /\ op'[s] = IF s = "mandates" /\ Head(op[s]).kind \in {"fleet", "work"} THEN Tail(op[s]) ELSE <<>>
    BY <1>1, <1>2
  <1>4. s = "mandates" => Head(op[s]) = op[s][1]
    BY <1>1, MandatesHead
  <1> QED BY <1>1, <1>3, <1>4, Faulted

LEMMA StopStep ==
    ASSUME FloorInv, Stop
    PROVE  FloorInv'
  <1>1. /\ faults' = faults + 1 /\ op' = [s \in Services |-> <<>>]
        /\ UNCHANGED <<fleet, work, passport, runtime, session, mandates, queued, responses, ops, overlapped>>
    BY DEF Stop, records
  <1>2. DOMAIN op' = Services /\ \A s \in Services : op'[s] = <<>>
    BY <1>1
  <1> QED BY <1>1, <1>2, Faulted

\* What the services do that only others of them can.
LEMMA NoReads ==
    ASSUME FloorInv
    PROVE  ~ Read("collaboration")
  <1> SUFFICES ASSUME Read("collaboration") PROVE FALSE
    OBVIOUS
  <1>1. op["collaboration"] # <<>> /\ Head(op["collaboration"]).kind \in Reads
    BY DEF Read
  <1>2. Head(op["collaboration"]) \in CollaborationStep
    BY <1>1, CollaborationHead
  <1> QED BY <1>1, <1>2, CollaborationKinds DEF Reads

LEMMA FloorInit == Init => FloorInv
  <1> SUFFICES ASSUME Init PROVE FloorInv
    OBVIOUS
  <1>1. /\ passport \in [Agents -> [v1 : {"none", "active"}, v2 : {"none", "active"}]]
        /\ \A a \in Agents : (a \in Newcomers <=> passport[a].v1 = "none")
                             /\ (passport[a].v1 = "none" => passport[a].v2 = "none")
        /\ fleet = [a \in Agents |-> IF a \in Newcomers THEN Absent ELSE [status |-> "ready", mandate |-> 0]]
        /\ runtime = [a \in Agents |-> a \notin Newcomers]
        /\ session = [a \in Agents |-> IF passport[a].v2 = "none" THEN "none" ELSE "ready"]
        /\ work = <<>> /\ mandates = <<>>
        /\ queued = 0 /\ responses = [i \in 1..MaxItems |-> 0]
        /\ op = [s \in Services |-> <<>>]
        /\ ops = 0 /\ faults = 0 /\ overlapped = [rows |-> {}, work |-> FALSE]
    BY DEF Init
  <1>2. DOMAIN op = Services /\ \A s \in Services : op[s] = <<>> /\ Owes(s) = {}
    BY <1>1, Empty DEF Owes
  <1>3. op["identity"] = <<>> /\ op["mandates"] = <<>> /\ op["collaboration"] = <<>>
    BY <1>2 DEF Services
  <1>4. FloorTypes
    <2>1. fleet \in [Agents -> Row]
      <3>1. Absent \in Row /\ [status |-> "ready", mandate |-> 0] \in Row
        BY DEF Row
      <3> QED BY <1>1, <3>1
    <2>2. work \in Seq(Item) /\ Len(work) <= MaxItems
      BY <1>1, BoundsAssumption
    <2>3. passport \in [Agents -> [v1 : Lifecycle, v2 : Lifecycle]]
      BY <1>1 DEF Lifecycle
    <2>4. runtime \in [Agents -> BOOLEAN] /\ session \in [Agents -> Session]
      BY <1>1 DEF Session
    <2>5. mandates \in Seq([agent : Agents, status : {"active", "revoked"}])
      BY <1>1
    <2>6. queued \in Nat /\ responses \in [1..MaxItems -> Nat] /\ ops \in Nat /\ faults \in Nat
          /\ overlapped \in [rows : SUBSET Agents, work : BOOLEAN]
      BY <1>1
    <2>7. /\ op["identity"] \in Seq(IdentityStep) /\ op["mandates"] \in Seq(MandateStep)
          /\ op["collaboration"] \in Seq(CollaborationStep)
      BY <1>3, Empty
    <2> QED BY <1>2, <2>1, <2>2, <2>3, <2>4, <2>5, <2>6, <2>7 DEF FloorTypes, TypeOK
  <1>5. IdentitySound
    <2>1. Front /\ Told /\ ShownRight
      BY <1>2, <1>3 DEF Front, Told, ShownRight, Services
    <2>2. ASSUME NEW a \in Agents
          PROVE  \E p \in Lifecycle, q \in Lifecycle, r \in BOOLEAN, s \in Session : Agreed(a, p, q, r, s)
      <3>1. PICK p \in Lifecycle, q \in Lifecycle, r \in BOOLEAN, s \in Session :
               p = passport[a].v1 /\ q = passport[a].v2 /\ r = runtime[a] /\ s = session[a]
        BY <1>4 DEF FloorTypes, TypeOK
      <3>2. /\ q # "none" => q = p
            /\ s = "ready" => q = "active" /\ r
        BY <1>1, <3>1
      <3>3. \A k, b : ~ Owed(k, b)
        BY <1>2 DEF Owed, Services
      <3>4. \A k, v : Now(k, a) = v => Becomes(k, a, v)
        BY <1>2 DEF Becomes, Services
      <3>5. Becomes("v1", a, p) /\ Becomes("v2", a, q)
        BY <3>1, <3>4 DEF Now
      <3>6. Becomes("runtime", a, r) /\ Becomes("session", a, s)
        BY <3>1, <3>4 DEF Now
      <3>7. Agreed(a, p, q, r, s)
        BY <3>2, <3>3, <3>5, <3>6 DEF Agreed, Showing
      <3> QED BY <3>7
    <2> QED BY <2>1, <2>2 DEF IdentitySound, Follow
  <1>6. MandatesSound
    BY <1>3 DEF MandatesSound
  <1>7. FloorSound
    <2>1. KeepsFloor
      BY <1>2 DEF KeepsFloor, Services
    <2>2. \A a \in Agents : fleet[a].mandate = 0
      BY <1>1 DEF Absent
    <2>3. Ownership
      BY <1>2, <2>2 DEF Ownership, Owned
    <2>4. ASSUME NEW a \in Agents PROVE RowSound(a)
      <3>1. ~ Showing(a)
        BY <1>2 DEF Showing, Owed, Services
      <3>2. passport[a].v1 # "revoked"
        BY <1>1
      <3>3. fleet[a] = Absent <=> passport[a].v1 = "none"
        BY <1>1 DEF Absent
      <3> QED BY <3>1, <3>2, <3>3 DEF RowSound, Right
    <2> QED BY <2>1, <2>3, <2>4 DEF FloorSound, Rows
  <1>8. CollaborationSound
    <2>1. Owes("collaboration") = {} /\ DOMAIN work = {} /\ Len(work) = 0
      BY <1>1, <1>2 DEF Services
    <2>2. ~ Next1("queued")
      BY <1>3 DEF Next1
    <2>3. Shape
      BY <1>3 DEF Shape
    <2>4. Logged /\ Fresh
      BY <1>1, <2>1 DEF Logged, Fresh
    <2>5. Counted
      BY <1>1, <2>1, <2>2 DEF Counted, OneIf
    <2> QED BY <2>3, <2>4, <2>5 DEF CollaborationSound
  <1> QED BY <1>4, <1>5, <1>6, <1>7, <1>8 DEF FloorInv

LEMMA FloorStutter == FloorInv /\ UNCHANGED vars => FloorInv'
  <1> SUFFICES ASSUME FloorInv, UNCHANGED vars PROVE FloorInv'
    OBVIOUS
  <1>1. UNCHANGED <<fleet, work, passport, runtime, session, mandates, queued, responses, op, ops, faults, overlapped>>
    BY DEF vars, records
  <1>2. Grows
    BY <1>1 DEF Grows
  <1>3. \A s : Owes(s)' = Owes(s)
    BY <1>1 DEF Owes
  <1>4. IdentitySound' /\ MandatesSound' /\ CollaborationSound' /\ Rows'
    BY <1>1, <1>2, IdentityStays, MandatesStay, CollaborationStays, RowsStay DEF FloorInv
  <1>5. KeepsFloor' /\ Ownership'
    BY <1>1, <1>2, <1>3, WritesStay
  <1>6. FloorTypes'
    BY <1>1 DEF FloorInv, FloorTypes, TypeOK
  <1> QED BY <1>4, <1>5, <1>6 DEF FloorInv, FloorSound

LEMMA FloorStep == FloorInv /\ [Next]_vars => FloorInv'
  <1> SUFFICES ASSUME FloorInv, [Next]_vars PROVE FloorInv'
    OBVIOUS
  <1>1. CASE UNCHANGED vars
    BY <1>1, FloorStutter
  <1>2. ASSUME NEW a \in Agents,
               CreateAgent(a) \/ AttestRuntime(a) \/ MigrateV1Passports(a) \/ Create(a) \/ CreateAssignment(a)
        PROVE  FloorInv'
    BY <1>2, CreateAgentStep, AttestRuntimeStep, MigrateStep, CreateStep, CreateAssignmentStep
  <1>3. ASSUME NEW a \in Agents, NEW status \in Lifecycle \ {"none"}, UpdatePassport(a, status) PROVE FloorInv'
    BY <1>3, UpdatePassportStep
  <1>4. ASSUME NEW a \in Agents, NEW connect \in BOOLEAN, UpdateRuntime(a, connect) PROVE FloorInv'
    BY <1>4, UpdateRuntimeStep
  <1>5. ASSUME NEW m \in DOMAIN mandates, Revoke(m) PROVE FloorInv'
    BY <1>5, RevokeStep
  <1>6. ASSUME NEW i \in DOMAIN work, NEW a \in Agents, NEW status \in ItemStatus, UpdateAssignment(i, a, status)
        PROVE  FloorInv'
    BY <1>6, UpdateAssignmentStep
  <1>7. ASSUME NEW i \in DOMAIN work, NEW m \in DOMAIN mandates, RebindAssignmentAuthority(i, m) PROVE FloorInv'
    BY <1>7, RebindStep
  <1>8. ASSUME NEW i \in DOMAIN work, RecordResponse(i) PROVE FloorInv'
    BY <1>8, RecordResponseStep
  <1>9. ASSUME NEW s \in Services, Read(s) PROVE FloorInv'
    BY <1>9, IdentityReads, MandatesReads, NoReads DEF Services
  <1>10. ASSUME NEW s \in Services, WriteFloor(s) PROVE FloorInv'
    BY <1>10, IdentityWritesFloor, MandatesWriteFloor, CollaborationWriteFloor DEF Services
  <1>11. ASSUME NEW s \in Services, WriteRecord(s) PROVE FloorInv'
    BY <1>11, IdentityWritesRecord, MandatesWriteRecord, CollaborationWriteRecord DEF Services
  <1>12. ASSUME NEW s \in Services, Fail(s) PROVE FloorInv'
    BY <1>12, FailStep
  <1>13. CASE Stop
    BY <1>13, StopStep
  <1> QED BY <1>1, <1>2, <1>3, <1>4, <1>5, <1>6, <1>7, <1>8, <1>9, <1>10, <1>11, <1>12, <1>13 DEF Next

-----------------------------------------------------------------------------
\* However the operations of the three services interleave, fail and are cut short, the
\* floor, the records and the operations that are under way fit together.
THEOREM FloorCorrect == Spec => []FloorInv
  <1>1. Init => FloorInv
    BY FloorInit
  <1>2. FloorInv /\ [Next]_vars => FloorInv'
    BY FloorStep
  <1> QED BY <1>1, <1>2, PTL DEF Spec

\* Between operations that did not fail the passports of the two versions agree, and a
\* session is ready only for an active passport of the second version and a connected
\* runtime, for any number of agents and operations.
THEOREM RecordsHold == Spec => []RecordsInv
  <1>1. FloorInv => RecordsInv
    <2> SUFFICES ASSUME FloorInv PROVE RecordsInv
      OBVIOUS
    <2>1. SessionsFollow
      <3> SUFFICES ASSUME op["identity"] = <<>>, faults = 0, NEW a \in Agents
                   PROVE  /\ passport[a].v2 # "none" => passport[a].v2 = passport[a].v1
                          /\ session[a] = "ready" => passport[a].v2 = "active" /\ runtime[a]
        BY DEF SessionsFollow
      <3> QED BY AtRest DEF FloorInv
    <2> QED BY <2>1 DEF RecordsInv, FloorInv, FloorTypes
  <1> QED BY <1>1, FloorCorrect, PTL

\* When the three services are at rest, the floor shows the passport of every agent but of
\* one whose own row was written from an outdated read.
THEOREM FloorShows == Spec => []FloorShowsPassports
  <1>1. FloorInv => FloorShowsPassports
    <2> SUFFICES ASSUME FloorInv, \A s \in Services : op[s] = <<>>, faults = 0,
                        NEW a \in Agents, a \notin overlapped.rows
                 PROVE  /\ fleet[a] = Absent <=> passport[a].v1 = "none"
                        /\ passport[a].v1 = "revoked" =>
                              \/ fleet[a].status = "offline"
                              \/ \E m \in DOMAIN mandates : mandates[m] = [agent |-> a, status |-> "revoked"]
      BY DEF FloorShowsPassports
    <2>1. Owes("identity") = {} /\ ~ Showing(a)
      BY AtRest DEF FloorInv, Services
    <2>2. Right(a, fleet)
      BY <2>1 DEF FloorInv, FloorSound, Rows, RowSound
    <2> QED BY <2>2 DEF Right, RevokedOf
  <1> QED BY <1>1, FloorCorrect, PTL

\* No assignment counts more responses than were logged, and none that was queued is lost,
\* nor any of its responses, but to a revocation that wrote the assignments back over them.
THEOREM WorkKept == Spec => []FloorKeepsWork
  <1>1. FloorInv => FloorKeepsWork
    <2> SUFFICES ASSUME FloorInv PROVE FloorKeepsWork
      OBVIOUS
    <2>1. Logged /\ Fresh /\ Counted
      BY DEF FloorInv, CollaborationSound
    <2>2. \A i \in DOMAIN work : work[i].responses <= responses[i]
      BY <2>1 DEF Logged
    <2>3. overlapped.work => \E m \in DOMAIN mandates : mandates[m].status = "revoked"
      BY <2>1 DEF Fresh, Revocation
    <2>4. ASSUME op["collaboration"] = <<>>, faults = 0, ~ overlapped.work
          PROVE  Len(work) = queued /\ \A i \in DOMAIN work : work[i].responses = responses[i]
      <3>1. ~ Next1("queued") /\ ~ Next1("work")
        BY <2>4 DEF Next1
      <3>2. Len(work) = queued + OneIf(Next1("queued")) /\ \A i \in DOMAIN work : work[i].responses = responses[i]
        BY <2>1, <2>4, <3>1 DEF Counted
      <3>3. PICK n \in Nat : n = queued
        BY DEF FloorInv, FloorTypes, TypeOK
      <3>4. n + 0 = n
        OBVIOUS
      <3> QED BY <3>1, <3>2, <3>3, <3>4 DEF OneIf
    <2> QED BY <2>2, <2>3, <2>4 DEF FloorKeepsWork
  <1> QED BY <1>1, FloorCorrect, PTL
=============================================================================
