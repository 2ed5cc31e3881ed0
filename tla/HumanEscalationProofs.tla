------------------------- MODULE HumanEscalationProofs -------------------------
(***************************************************************************)
(* Proofs about HumanEscalation and MultiHumanApproval, for any requests,  *)
(* keys, members, quorum and number of troubles: the requests of one key   *)
(* cause one provider run, it stands on a quorum, and the files agree.     *)
(***************************************************************************)
EXTENDS HumanEscalation, TLAPS, SequenceTheorems, FiniteSetTheorems, WellFoundedInduction

-----------------------------------------------------------------------------
(* The inductive invariant.                                                 *)

Owed ==
    [do : {"route"}, reqs : SUBSET Requests, arg : SUBSET Members]
    \cup [do : {"context"}, reqs : SUBSET Requests, arg : Keys]
    \cup [do : {"decide", "check"}, reqs : SUBSET Requests, arg : Decision]
    \cup [do : {"requests"}, reqs : SUBSET Requests, arg : {"approved"} \cup Closed]
    \cup [do : {"grant"}, reqs : SUBSET Requests, arg : {"active"}]
    \cup [do : {"queue"}, reqs : SUBSET Requests, arg : {"ready"}]
    \cup [do : {"mandates"}, reqs : SUBSET Requests, arg : {"ended"}]
    \cup [do : {"resumes"}, reqs : SUBSET Requests, arg : {"invalidated"}]
    \cup [do : {"begin", "execute", "complete", "consume", "record", "fail"},
          reqs : SUBSET Requests, arg : Nat]

Types == TypeOK /\ op \in Seq(Owed) /\ IsFiniteSet(decisions)

\* What may still be owed before a step.
Ahead(what) ==
    CASE what = "context" -> {"route"}
      [] what = "grant" -> {"decide"}
      [] what = "queue" -> {"decide", "grant"}
      [] what = "requests" -> {"decide", "grant", "queue"}
      [] what = "mandates" -> {"requests"}
      [] what = "resumes" -> {"requests", "mandates"}
      [] what \in {"check", "begin"} -> {"check"}
      [] what = "execute" -> {"check", "begin"}
      [] what = "complete" -> {"check", "begin", "execute"}
      [] what = "consume" -> {"check", "begin", "execute", "complete"}
      [] what = "record" -> {"check", "begin", "execute", "complete", "consume"}
      [] OTHER -> {}

Order == \A i, j \in DOMAIN op : /\ op[i].reqs = op[j].reqs
                                 /\ j < i => op[j].do \in Ahead(op[i].do)

\* A membership decides a request once, and one that it was routed to.
DecisionsSound ==
    \A d \in decisions :
       /\ request[d.req] # "none"
       /\ d.by \in eligible[d.req] \ {Requester}
       /\ \A e \in decisions : d.req = e.req /\ d.by = e.by => d = e

RejectionOwed(q) == \E i \in DOMAIN op : /\ op[i].do = "requests" /\ op[i].arg = "rejected"
                                         /\ q \in op[i].reqs

\* Without a fault a rejection is final.
RejectionsKept ==
    faults + stops = 0 =>
       \A d \in decisions : d.verdict = "reject" =>
          request[d.req] = "rejected" \/ RejectionOwed(d.req)

KeysOnce == \A q, r \in Requests : contexts[q] = contexts[r] /\ contexts[q] # None => q = r

\* The first resume of a request is the one that is executed, and once.
FirstReady(q) == ResumesOf(q) # {} /\ resumes[ResumeOf(q)].status = "ready"

RunsSound ==
    \A q \in Requests :
       /\ runs[q] <= 1
       /\ runs[q] > 0 => contexts[q] # None /\ ResumesOf(q) # {} /\ ~ FirstReady(q)

OnQuorum(q) == Cardinality(By(Approvals(q)) \cap (eligible[q] \ {Requester})) >= Quorum

\* The resume that is begun is the first one of a request that stands.
Resumable(q, i) ==
    /\ request[q] = "approved" /\ contexts[q] # None /\ OnQuorum(q)
    /\ ResumesOf(q) # {} /\ i = ResumeOf(q)

\* What the step at i of the list relies on.
SoundAt(i) ==
    /\ op[i].do = "route" => \A d \in decisions : d.req \notin op[i].reqs
    /\ op[i].do = "context" =>
          /\ \A r \in Requests : contexts[r] # op[i].arg
          /\ \A q, r \in op[i].reqs : q = r
    /\ op[i].do = "decide" =>
          LET d == op[i].arg IN
          /\ request[d.req] # "none" /\ d.by \in eligible[d.req] \ {Requester}
          /\ \A e \in decisions : ~ (e.req = d.req /\ e.by = d.by)
          /\ d.verdict = "reject" => RejectionOwed(d.req)
    /\ op[i].do \in {"grant", "queue"} => \E q \in Requests : op[i].reqs = {q}
    /\ op[i].do = "queue" => mandates # <<>> \/ \E j \in DOMAIN op : op[j].do = "grant"
    /\ op[i].do = "requests" /\ op[i].arg # "rejected" => \A q \in op[i].reqs : request[q] \in Open
    /\ op[i].do = "check" => \A q \in op[i].reqs : request[q] = "approved"
    /\ op[i].do = "begin" =>
          \E q \in Requests : op[i].reqs = {q} /\ Resumable(q, op[i].arg) /\ FirstReady(q)
    /\ op[i].do = "execute" =>
          \E q \in Requests : /\ op[i].reqs = {q} /\ Resumable(q, op[i].arg)
                              /\ i = 1 => ~ FirstReady(q)
                              /\ i > 1 => op[i - 1].do = "begin"
                              /\ runs[q] = 0 \/ turn.at \in {"launched", "waiting"}
    /\ op[i].do \in {"complete", "consume", "record"} =>
          \E q \in Requests : op[i].reqs = {q} /\ ResumesOf(q) # {}

StepsOwed == \A i \in DOMAIN op : SoundAt(i)

Launching == turn.at \in {"launching", "launched", "waiting"}

TurnSound == Launching => op # <<>> /\ op[1].do = "execute" /\ op[1].reqs = {turn.req}

EscalationInv ==
    /\ Types /\ Order /\ DecisionsSound /\ RejectionsKept /\ KeysOnce /\ RunsSound
    /\ StepsOwed /\ TurnSound

-----------------------------------------------------------------------------
(* Steps and lists of steps.                                                *)

LEMMA StepFacts ==
    ASSUME NEW w \in Owed
    PROVE  /\ w.do \in {"route", "context", "decide", "check", "requests", "grant", "queue", "mandates",
                        "resumes", "begin", "execute", "complete", "consume", "record", "fail"}
           /\ w.reqs \in SUBSET Requests
           /\ w.do = "route" => w.arg \in SUBSET Members
           /\ w.do = "context" => w.arg \in Keys
           /\ w.do \in {"decide", "check"} => w.arg \in Decision
           /\ w.do = "requests" => w.arg \in {"approved"} \cup Closed
           /\ w.do = "grant" => w.arg = "active"
           /\ w.do = "queue" => w.arg = "ready"
           /\ w.do = "mandates" => w.arg = "ended"
           /\ w.do = "resumes" => w.arg = "invalidated"
           /\ w.do \in {"begin", "execute", "complete", "consume", "record", "fail"} => w.arg \in Nat
  <1>1. /\ w.do \in {"route", "context", "decide", "check", "requests", "grant", "queue", "mandates",
                     "resumes", "begin", "execute", "complete", "consume", "record", "fail"}
        /\ w.reqs \in SUBSET Requests
    BY DEF Owed
  <1>2. /\ w.do = "route" => w.arg \in SUBSET Members
        /\ w.do = "context" => w.arg \in Keys
        /\ w.do \in {"decide", "check"} => w.arg \in Decision
        /\ w.do = "requests" => w.arg \in {"approved"} \cup Closed
    BY DEF Owed
  <1>3. /\ w.do = "grant" => w.arg = "active"
        /\ w.do = "queue" => w.arg = "ready"
        /\ w.do = "mandates" => w.arg = "ended"
        /\ w.do = "resumes" => w.arg = "invalidated"
    BY DEF Owed
  <1>4. w.do \in {"begin", "execute", "complete", "consume", "record", "fail"} => w.arg \in Nat
    BY DEF Owed
  <1> QED BY <1>1, <1>2, <1>3, <1>4

LEMMA NewStep ==
    ASSUME NEW Q \in SUBSET Requests
    PROVE  /\ \A arg \in SUBSET Members : Do("route", Q, arg) \in Owed
           /\ \A k \in Keys : Do("context", Q, k) \in Owed
           /\ \A d \in Decision : Do("decide", Q, d) \in Owed /\ Do("check", Q, d) \in Owed
           /\ \A status \in {"approved"} \cup Closed : Do("requests", Q, status) \in Owed
           /\ Do("grant", Q, "active") \in Owed /\ Do("queue", Q, "ready") \in Owed
           /\ Do("mandates", Q, "ended") \in Owed /\ Do("resumes", Q, "invalidated") \in Owed
           /\ \A n \in Nat : \A what \in {"begin", "execute", "complete", "consume", "record", "fail"} :
                 Do(what, Q, n) \in Owed
  <1>1. /\ \A arg \in SUBSET Members : Do("route", Q, arg) \in Owed
        /\ \A k \in Keys : Do("context", Q, k) \in Owed
        /\ \A d \in Decision : Do("decide", Q, d) \in Owed /\ Do("check", Q, d) \in Owed
    BY DEF Do, Owed
  <1>2. /\ \A status \in {"approved"} \cup Closed : Do("requests", Q, status) \in Owed
        /\ Do("grant", Q, "active") \in Owed /\ Do("queue", Q, "ready") \in Owed
        /\ Do("mandates", Q, "ended") \in Owed /\ Do("resumes", Q, "invalidated") \in Owed
    <2>1. \A status \in {"approved"} \cup Closed : Do("requests", Q, status) \in Owed
      BY DEF Do, Owed
    <2>2. Do("grant", Q, "active") \in Owed
      BY DEF Do, Owed
    <2>3. Do("queue", Q, "ready") \in Owed
      BY DEF Do, Owed
    <2>4. Do("mandates", Q, "ended") \in Owed /\ Do("resumes", Q, "invalidated") \in Owed
      BY DEF Do, Owed
    <2> QED BY <2>1, <2>2, <2>3, <2>4
  <1>3. \A n \in Nat : \A what \in {"begin", "execute", "complete", "consume", "record", "fail"} :
           Do(what, Q, n) \in Owed
    BY DEF Do, Owed
  <1> QED BY <1>1, <1>2, <1>3

LEMMA DoFacts ==
    ASSUME NEW what, NEW reqs, NEW arg
    PROVE  /\ Do(what, reqs, arg).do = what /\ Do(what, reqs, arg).reqs = reqs
           /\ Do(what, reqs, arg).arg = arg
  BY DEF Do

LEMMA OpFacts ==
    ASSUME Types
    PROVE  /\ op \in Seq(Owed) /\ Len(op) \in Nat /\ DOMAIN op = 1..Len(op)
           /\ \A i \in DOMAIN op : i \in Nat /\ i >= 1 /\ op[i] \in Owed
           /\ op # <<>> => 1 \in DOMAIN op /\ Head(op) = op[1]
  <1>1. op \in Seq(Owed) /\ Len(op) \in Nat /\ DOMAIN op = 1..Len(op)
    BY DEF Types
  <1>2. \A i \in DOMAIN op : i \in Nat /\ i >= 1 /\ op[i] \in Owed
    BY <1>1
  <1>3. ASSUME op # <<>> PROVE 1 \in DOMAIN op /\ Head(op) = op[1]
    <2>1. Len(op) # 0
      BY <1>1, <1>3
    <2> QED BY <1>1, <2>1
  <1> QED BY <1>1, <1>2, <1>3

\* What is behind the first step moves up.
LEMMA Shifts ==
    ASSUME Types, Order, op # <<>>, op' = Tail(op)
    PROVE  /\ op' \in Seq(Owed) /\ Order'
           /\ \A i \in DOMAIN op' :
                 i \in Nat /\ i >= 1 /\ i + 1 \in DOMAIN op /\ op'[i] = op[i + 1]
           /\ \A i \in DOMAIN op : i > 1 => i - 1 \in DOMAIN op' /\ op'[i - 1] = op[i]
  <1>1. op \in Seq(Owed) /\ Len(op) \in Nat /\ DOMAIN op = 1..Len(op) /\ 1 \in DOMAIN op
    BY OpFacts
  <1>2. /\ op' \in Seq(Owed) /\ Len(op') = Len(op) - 1
        /\ \A i \in 1..Len(op') : op'[i] = op[i + 1]
    BY <1>1
  <1>3. DOMAIN op' = 1..(Len(op) - 1)
    BY <1>2
  <1>4. \A i \in DOMAIN op' : i \in Nat /\ i >= 1 /\ i + 1 \in DOMAIN op /\ op'[i] = op[i + 1]
    BY <1>1, <1>2, <1>3
  <1>5. ASSUME NEW i \in DOMAIN op, i > 1 PROVE i - 1 \in DOMAIN op' /\ op'[i - 1] = op[i]
    <2>1. i - 1 \in DOMAIN op' /\ (i - 1) + 1 = i
      BY <1>1, <1>3, <1>5
    <2> QED BY <1>4, <2>1
  <1>6. Order'
    <2>1. ASSUME NEW i \in DOMAIN op', NEW j \in DOMAIN op'
          PROVE  op'[i].reqs = op'[j].reqs /\ (j < i => op'[j].do \in Ahead(op'[i].do))
      BY <1>4 DEF Order
    <2> QED BY <2>1 DEF Order
  <1> QED BY <1>2, <1>4, <1>5, <1>6

\* What a list may still hold behind its first step.
LEMMA Behind ==
    ASSUME Types, Order, NEW i \in DOMAIN op, i > 1
    PROVE  /\ op[i].reqs = op[1].reqs
           /\ op[1].do = "route" => op[i].do = "context"
           /\ op[1].do \notin {"context", "resumes", "record", "fail"}
           /\ op[1].do = "decide" => op[i].do \in {"grant", "queue", "requests"}
           /\ op[1].do = "grant" => op[i].do \in {"queue", "requests"}
           /\ op[1].do = "queue" => op[i].do = "requests"
           /\ op[1].do = "requests" => op[i].do \in {"mandates", "resumes"}
           /\ op[1].do = "mandates" => op[i].do = "resumes"
           /\ op[1].do = "check" =>
                 op[i].do \in {"check", "begin", "execute", "complete", "consume", "record"}
           /\ op[1].do = "begin" => op[i].do \in {"execute", "complete", "consume", "record"}
           /\ op[1].do = "execute" => op[i].do \in {"complete", "consume", "record"}
           /\ op[1].do = "complete" => op[i].do \in {"consume", "record"}
           /\ op[1].do = "consume" => op[i].do = "record"
  <1>1. op # <<>>
    OBVIOUS
  <1>2. 1 \in DOMAIN op /\ op[i] \in Owed
    BY <1>1, OpFacts
  <1>3. op[1].do \in Ahead(op[i].do) /\ op[i].reqs = op[1].reqs
    BY <1>2 DEF Order
  <1> HIDE DEF Order
  <1> QED BY <1>2, <1>3, StepFacts DEF Ahead

\* Nothing is owed.
LEMMA Rests ==
    ASSUME op' = <<>>
    PROVE  op' \in Seq(Owed) /\ DOMAIN op' = {} /\ Order' /\ StepsOwed'
  <1>1. op' \in Seq(Owed) /\ DOMAIN op' = {}
    OBVIOUS
  <1> QED BY <1>1 DEF Order, StepsOwed

\* The parts of the types that a step of the lists, the turn and the phase may change.
Moving ==
    /\ cred \subseteq Members /\ faults \in Nat /\ stops \in Nat /\ faults + stops <= MaxTroubles
    /\ up \in BOOLEAN /\ phase \in Phase /\ turn \in Turn
    /\ (~ up => op = <<>> /\ turn = Idle)

LEMMA ResumesKept ==
    ASSUME UNCHANGED resumes
    PROVE  \A q : /\ ResumesOf(q)' = ResumesOf(q) /\ ResumeOf(q)' = ResumeOf(q)
                  /\ FirstReady(q)' <=> FirstReady(q)
  <1>1. \A q : ResumesOf(q)' = ResumesOf(q)
    BY DEF ResumesOf
  <1>2. \A q : ResumeOf(q)' = ResumeOf(q)
    BY <1>1 DEF ResumeOf
  <1> QED BY <1>1, <1>2 DEF FirstReady

\* A step that leaves the records alone.
LEMMA Begins ==
    ASSUME EscalationInv, UNCHANGED <<files, runs>>, Moving', op' \in Seq(Owed),
           Order', RejectionsKept', StepsOwed', TurnSound'
    PROVE  EscalationInv'
  <1> USE DEF EscalationInv
  <1>1. Types'
    BY DEF Types, TypeOK, Moving, files
  <1>2. DecisionsSound' /\ KeysOnce'
    BY DEF DecisionsSound, KeysOnce, files
  <1>3. RunsSound'
    <2>1. UNCHANGED <<resumes, contexts, runs>>
      BY DEF files
    <2> QED BY <2>1, ResumesKept DEF RunsSound
  <1> QED BY <1>1, <1>2, <1>3

\* A step that takes no decision and drops no rejection.
LEMMA RejectionsStay ==
    ASSUME EscalationInv, UNCHANGED <<request, decisions>>, Moving',
           faults' + stops' = 0 => faults + stops = 0,
           \A q \in Requests : RejectionOwed(q) => RejectionOwed(q)'
    PROVE  RejectionsKept'
  <1>1. \A d \in decisions : d.req \in Requests
    BY DEF EscalationInv, Types, TypeOK, Decision
  <1> QED BY <1>1 DEF EscalationInv, RejectionsKept

\* A list that does not write the requests owes no rejection.
LEMMA NoRejection ==
    ASSUME EscalationInv,
           \/ op = <<>>
           \/ op # <<>> /\ op[1].do \in {"route", "context", "mandates", "resumes", "check", "begin", "execute",
                                          "complete", "consume", "record", "fail"}
    PROVE  \A q \in Requests : ~ RejectionOwed(q)
  <1>1. ASSUME NEW i \in DOMAIN op, op[i].do = "requests" PROVE FALSE
    <2>1. i # 1 => i > 1
      BY OpFacts DEF EscalationInv
    <2>2. op # <<>>
      BY <1>1
    <2>3. CASE i = 1
      BY <1>1, <2>2, <2>3
    <2>4. CASE i > 1
      BY <1>1, <2>2, <2>4, Behind DEF EscalationInv
    <2> QED BY <2>1, <2>3, <2>4
  <1> QED BY <1>1 DEF RejectionOwed

LEMMA Alone ==
    ASSUME Types, Order, op # <<>>, op' = Tail(op),
           op[1].do \in {"context", "resumes", "record", "fail"}
    PROVE  op' = <<>>
  <1>1. ASSUME NEW i \in DOMAIN op' PROVE FALSE
    <2>1. i \in Nat /\ i >= 1 /\ i + 1 \in DOMAIN op
      BY Shifts
    <2>2. i + 1 > 1
      BY <2>1
    <2> QED BY <2>1, <2>2, Behind
  <1>2. op' \in Seq(Owed)
    BY Shifts
  <1> QED BY <1>1, <1>2

-----------------------------------------------------------------------------
(* The operations: only the list is new.                                    *)

LEMMA Three ==
    ASSUME NEW S, NEW a \in S, NEW b \in S, NEW c \in S
    PROVE  /\ <<a, b, c>> \in Seq(S) /\ DOMAIN <<a, b, c>> = 1..3
           /\ <<a, b, c>>[1] = a /\ <<a, b, c>>[2] = b /\ <<a, b, c>>[3] = c
  OBVIOUS

LEMMA Four ==
    ASSUME NEW S, NEW a \in S, NEW b \in S, NEW c \in S, NEW d \in S
    PROVE  /\ <<a, b, c, d>> \in Seq(S) /\ DOMAIN <<a, b, c, d>> = 1..4
           /\ <<a, b, c, d>>[1] = a /\ <<a, b, c, d>>[2] = b /\ <<a, b, c, d>>[3] = c
           /\ <<a, b, c, d>>[4] = d
  OBVIOUS

LEMMA Two ==
    ASSUME NEW S, NEW a \in S, NEW b \in S
    PROVE  /\ <<a, b>> \in Seq(S) /\ DOMAIN <<a, b>> = 1..2
           /\ <<a, b>>[1] = a /\ <<a, b>>[2] = b
  OBVIOUS

LEMMA One ==
    ASSUME NEW S, NEW a \in S
    PROVE  <<a>> \in Seq(S) /\ DOMAIN <<a>> = {1} /\ <<a>>[1] = a
  OBVIOUS

\* The requests of Q are closed: what is open, while no rejection is owed.
LEMMA Ends ==
    ASSUME EscalationInv, NEW Q \in SUBSET Requests, op' = End(Q), Moving',
           UNCHANGED <<files, runs, faults, stops>>, ~ Launching',
           \A q \in Q : request[q] \in Open,
           \A q \in Requests : ~ RejectionOwed(q)
    PROVE  EscalationInv'
  <1>1. /\ op' \in Seq(Owed) /\ DOMAIN op' = 1..3
        /\ op'[1] = Do("requests", Q, "closed") /\ op'[2] = Do("mandates", Q, "ended")
        /\ op'[3] = Do("resumes", Q, "invalidated")
    <2>1. /\ Do("requests", Q, "closed") \in Owed /\ Do("mandates", Q, "ended") \in Owed
          /\ Do("resumes", Q, "invalidated") \in Owed
      BY NewStep DEF Closed
    <2> QED BY <2>1, Three DEF End
  <1>2. ASSUME NEW i \in DOMAIN op'
        PROVE  /\ op'[i].reqs = Q
               /\ \/ i = 1 /\ op'[i].do = "requests" /\ op'[i].arg = "closed"
                  \/ i = 2 /\ op'[i].do = "mandates"
                  \/ i = 3 /\ op'[i].do = "resumes"
    <2>1. i = 1 \/ i = 2 \/ i = 3
      BY <1>1
    <2>2. CASE i = 1
      BY <1>1, <2>2 DEF Do
    <2>3. CASE i = 2
      BY <1>1, <2>3 DEF Do
    <2>4. CASE i = 3
      BY <1>1, <2>4 DEF Do
    <2> QED BY <2>1, <2>2, <2>3, <2>4
  <1>3. Order'
    <2>1. ASSUME NEW i \in DOMAIN op', NEW j \in DOMAIN op'
          PROVE  op'[i].reqs = op'[j].reqs /\ (j < i => op'[j].do \in Ahead(op'[i].do))
      BY <1>1, <1>2 DEF Ahead
    <2> QED BY <2>1 DEF Order
  <1>4. StepsOwed'
    <2>1. ASSUME NEW i \in DOMAIN op' PROVE SoundAt(i)'
      <3>1. op'[i].do = "requests" => \A q \in op'[i].reqs : request'[q] \in Open
        BY <1>2 DEF files
      <3>2. op'[i].do \in {"requests", "mandates", "resumes"}
        BY <1>2
      <3> QED BY <3>1, <3>2 DEF SoundAt
    <2> QED BY <2>1 DEF StepsOwed
  <1>5. RejectionsKept'
    BY RejectionsStay DEF files
  <1>6. TurnSound'
    BY DEF TurnSound, Launching
  <1> QED BY <1>1, <1>3, <1>4, <1>5, <1>6, Begins

LEMMA ExpireStep ==
    ASSUME EscalationInv, up, Expire, UNCHANGED <<up, phase, turn, runs, stops>>
    PROVE  EscalationInv'
  <1>1. /\ op = <<>> /\ UNCHANGED <<files, cred, faults>>
        /\ \E Q \in SUBSET Requests : /\ \A q \in Q : request[q] \in Open
                                      /\ op' = End(Q)
    BY DEF Expire
  <1>2. PICK Q \in SUBSET Requests : (\A q \in Q : request[q] \in Open) /\ op' = End(Q)
    BY <1>1
  <1>3. ~ Launching' /\ Moving'
    BY <1>1 DEF EscalationInv, TurnSound, Launching, Moving, Types, TypeOK
  <1> QED BY <1>1, <1>2, <1>3, Ends, NoRejection

LEMMA WithdrawStep ==
    ASSUME EscalationInv, up, NEW q \in Requests, Withdraw(q),
           UNCHANGED <<up, phase, turn, runs, stops>>
    PROVE  EscalationInv'
  <1>1. /\ op = <<>> /\ UNCHANGED <<files, cred, faults>>
        /\ request[q] \in Open /\ op' = End({q})
    BY DEF Withdraw
  <1>2. ~ Launching' /\ Moving'
    BY <1>1 DEF EscalationInv, TurnSound, Launching, Moving, Types, TypeOK
  <1> QED BY <1>1, <1>2, Ends, NoRejection

\* requestEscalation: nothing was decided of a request that was not made.
LEMMA RequestStep ==
    ASSUME EscalationInv, up, NEW q \in Requests, NEW k \in Keys, Request(q, k), ~ Launching',
           phase' = phase, turn' \in Turn, UNCHANGED <<up, runs, stops>>
    PROVE  EscalationInv'
  <1>1. /\ op = <<>> /\ UNCHANGED <<files, cred, faults>> /\ MayRoute(q, k)
        /\ op' = <<Do("route", {q}, EligibleNow), Do("context", {q}, k)>>
    BY DEF Request
  <1>2. /\ op' \in Seq(Owed) /\ DOMAIN op' = 1..2
        /\ op'[1] = Do("route", {q}, EligibleNow) /\ op'[2] = Do("context", {q}, k)
    <2>1. EligibleNow \in SUBSET Members
      BY DEF EscalationInv, Types, TypeOK, EligibleNow
    <2>2. Do("route", {q}, EligibleNow) \in Owed /\ Do("context", {q}, k) \in Owed
      BY <2>1, NewStep
    <2> QED BY <1>1, <2>2, Two
  <1>3. ASSUME NEW i \in DOMAIN op'
        PROVE  /\ op'[i].reqs = {q}
               /\ \/ i = 1 /\ op'[i].do = "route"
                  \/ i = 2 /\ op'[i].do = "context" /\ op'[i].arg = k
    <2>1. i = 1 \/ i = 2
      BY <1>2
    <2>2. CASE i = 1
      BY <1>2, <2>2 DEF Do
    <2>3. CASE i = 2
      BY <1>2, <2>3 DEF Do
    <2> QED BY <2>1, <2>2, <2>3
  <1>4. Order'
    <2>1. ASSUME NEW i \in DOMAIN op', NEW j \in DOMAIN op'
          PROVE  op'[i].reqs = op'[j].reqs /\ (j < i => op'[j].do \in Ahead(op'[i].do))
      <3>1. op'[i].reqs = op'[j].reqs
        BY <1>3
      <3>2. ASSUME j < i PROVE op'[j].do = "route" /\ op'[i].do = "context"
        BY <1>3, <3>2
      <3> QED BY <3>1, <3>2 DEF Ahead
    <2> QED BY <2>1 DEF Order
  <1>5. StepsOwed'
    <2>1. \A d \in decisions : d.req # q
      BY <1>1 DEF EscalationInv, DecisionsSound, MayRoute
    <2>2. ASSUME NEW i \in DOMAIN op' PROVE SoundAt(i)'
      <3>1. op'[i].do \in {"route", "context"} /\ op'[i].reqs = {q}
        BY <1>3
      <3>2. op'[i].do = "route" => \A d \in decisions' : d.req \notin op'[i].reqs
        BY <1>1, <2>1, <3>1 DEF files
      <3>3. op'[i].do = "context" => \A r \in Requests : contexts'[r] # op'[i].arg
        BY <1>1, <1>3 DEF files, MayRoute
      <3> QED BY <3>1, <3>2, <3>3 DEF SoundAt
    <2> QED BY <2>2 DEF StepsOwed
  <1>6. Moving'
    BY <1>1 DEF EscalationInv, Moving, Types, TypeOK
  <1>7. RejectionsKept'
    BY <1>1, <1>6, RejectionsStay, NoRejection DEF files
  <1> QED BY <1>1, <1>2, <1>4, <1>5, <1>6, <1>7, Begins DEF TurnSound

\* submitDecision: of the three lists that Decides may leave.
LEMMA DecideStep ==
    ASSUME EscalationInv, up, NEW q \in Requests, NEW m \in Members,
           NEW v \in {"approve", "reject"}, SubmitDecision(q, m, v),
           UNCHANGED <<up, phase, turn, runs, stops>>
    PROVE  EscalationInv'
  <1> DEFINE d == [req |-> q, by |-> m, verdict |-> v, newest |-> TRUE]
             signed == Do("decide", {q}, d)
             granted == Do("grant", {q}, "active")
             queued == Do("queue", {q}, "ready")
  <1>1. /\ op = <<>> /\ request[q] = "pending" /\ m \in eligible[q] \ {Requester}
        /\ m \notin By({e \in decisions : e.req = q})
        /\ UNCHANGED <<files, cred, faults>>
    BY DEF SubmitDecision
  <1>2. d \in Decision /\ d.req = q /\ d.by = m /\ d.verdict = v
    BY DEF Decision
  <1>3. /\ signed \in Owed /\ granted \in Owed /\ queued \in Owed
        /\ \A status \in {"rejected", "approved"} : Do("requests", {q}, status) \in Owed
    BY <1>2, NewStep DEF Closed
  <1>4. /\ signed.do = "decide" /\ signed.reqs = {q} /\ signed.arg = d
        /\ granted.do = "grant" /\ granted.reqs = {q} /\ queued.do = "queue" /\ queued.reqs = {q}
        /\ \A status : LET w == Do("requests", {q}, status) IN
              w.do = "requests" /\ w.reqs = {q} /\ w.arg = status
    BY DoFacts
  <1>5. /\ v = "reject" => op' = <<signed, Do("requests", {q}, "rejected")>>
        /\ v # "reject" =>
              \/ op' = <<signed, granted, queued, Do("requests", {q}, "approved")>>
              \/ op' = <<signed>>
    BY DEF SubmitDecision, Decides
  <1> HIDE DEF d, signed, granted, queued
  <1>6. /\ op' \in Seq(Owed) /\ 1 \in DOMAIN op' /\ op'[1] = signed
        /\ \/ v = "reject" /\ DOMAIN op' = 1..2 /\ op'[2] = Do("requests", {q}, "rejected")
           \/ /\ v = "approve" /\ DOMAIN op' = 1..4
              /\ op'[2] = granted /\ op'[3] = queued /\ op'[4] = Do("requests", {q}, "approved")
           \/ v = "approve" /\ DOMAIN op' = {1}
    <2>1. CASE v = "reject"
      <3>1. PICK w \in Owed : w = Do("requests", {q}, "rejected")
        BY <1>3
      <3>2. op' = <<signed, w>>
        BY <2>1, <1>5, <3>1
      <3>3. op' \in Seq(Owed) /\ DOMAIN op' = 1..2 /\ op'[1] = signed /\ op'[2] = w
        BY <1>3, <3>2, Two
      <3>4. 1 \in DOMAIN op'
        BY <3>3
      <3> QED BY <2>1, <3>1, <3>3, <3>4
    <2>2. CASE v # "reject" /\ op' = <<signed, granted, queued, Do("requests", {q}, "approved")>>
      <3>1. PICK w \in Owed : w = Do("requests", {q}, "approved")
        BY <1>3
      <3>2. op' = <<signed, granted, queued, w>>
        BY <2>2, <3>1
      <3>3. /\ op' \in Seq(Owed) /\ DOMAIN op' = 1..4
            /\ op'[1] = signed /\ op'[2] = granted /\ op'[3] = queued /\ op'[4] = w
        BY <1>3, <3>2, Four
      <3>4. v = "approve" /\ 1 \in DOMAIN op'
        BY <2>2, <3>3
      <3> QED BY <3>1, <3>3, <3>4
    <2>3. CASE v # "reject" /\ op' = <<signed>>
      BY <2>3, <1>3, One
    <2> QED BY <1>5, <2>1, <2>2, <2>3
  <1>7. ASSUME NEW i \in DOMAIN op'
        PROVE  /\ op'[i].reqs = {q} /\ i >= 1 /\ i \in Nat
               /\ \/ i = 1 /\ op'[i].do = "decide" /\ op'[i].arg = d
                  \/ i = 2 /\ op'[i].do = "requests" /\ op'[i].arg = "rejected" /\ v = "reject"
                  \/ i = 2 /\ op'[i].do = "grant" /\ v = "approve"
                  \/ i = 3 /\ op'[i].do = "queue" /\ v = "approve"
                  \/ i = 4 /\ op'[i].do = "requests" /\ op'[i].arg = "approved" /\ v = "approve"
    <2>1. CASE i = 1
      BY <1>4, <1>6, <2>1
    <2>2. CASE i # 1 /\ v = "reject"
      <3>1. i = 2 /\ op'[i] = Do("requests", {q}, "rejected")
        BY <1>6, <2>2
      <3>2. op'[i].do = "requests" /\ op'[i].reqs = {q} /\ op'[i].arg = "rejected"
        BY <1>4, <3>1
      <3> QED BY <2>2, <3>1, <3>2
    <2>3. CASE i # 1 /\ v = "approve"
      <3>1. /\ i = 2 \/ i = 3 \/ i = 4
            /\ op'[2] = granted /\ op'[3] = queued /\ op'[4] = Do("requests", {q}, "approved")
        BY <1>6, <2>3
      <3>2. CASE i = 2
        BY <1>4, <2>3, <3>1, <3>2
      <3>3. CASE i = 3
        BY <1>4, <2>3, <3>1, <3>3
      <3>4. CASE i = 4
        <4>1. op'[i] = Do("requests", {q}, "approved")
          BY <3>1, <3>4
        <4>2. op'[i].do = "requests" /\ op'[i].reqs = {q} /\ op'[i].arg = "approved"
          BY <1>4, <4>1
        <4> QED BY <2>3, <3>4, <4>2
      <3> QED BY <3>1, <3>2, <3>3, <3>4
    <2> QED BY <2>1, <2>2, <2>3
  <1>8. v = "reject" => RejectionOwed(q)'
    <2>1. ASSUME v = "reject" PROVE 2 \in DOMAIN op' /\ op'[2] = Do("requests", {q}, "rejected")
      BY <1>6, <2>1
    <2> QED BY <1>4, <2>1 DEF RejectionOwed
  <1>9. Order'
    <2>1. ASSUME NEW i \in DOMAIN op', NEW j \in DOMAIN op'
          PROVE  op'[i].reqs = op'[j].reqs /\ (j < i => op'[j].do \in Ahead(op'[i].do))
      <3>1. op'[i].reqs = op'[j].reqs
        BY <1>7
      <3>2. ASSUME j < i
            PROVE  \/ op'[j].do = "decide" /\ op'[i].do \in {"requests", "grant", "queue"}
                   \/ op'[j].do = "grant" /\ op'[i].do \in {"requests", "queue"}
                   \/ op'[j].do = "queue" /\ op'[i].do = "requests"
        BY <1>7, <3>2
      <3> QED BY <3>1, <3>2 DEF Ahead
    <2> QED BY <2>1 DEF Order
  <1>10. StepsOwed'
    <2>1. \A e \in decisions : ~ (e.req = q /\ e.by = m)
      BY <1>1 DEF By
    <2>2. ASSUME NEW i \in DOMAIN op' PROVE SoundAt(i)'
      <3>1. op'[i].do \in {"decide", "grant", "queue", "requests"} /\ op'[i].reqs = {q}
        BY <1>7
      <3>2. ASSUME op'[i].do = "decide"
            PROVE  LET e == op'[i].arg IN
                   /\ request'[e.req] # "none" /\ e.by \in eligible'[e.req] \ {Requester}
                   /\ \A f \in decisions' : ~ (f.req = e.req /\ f.by = e.by)
                   /\ e.verdict = "reject" => RejectionOwed(q)' /\ e.req = q
        <4>1. op'[i].arg = d
          BY <1>7, <3>2
        <4> QED BY <1>1, <1>2, <1>8, <2>1, <4>1 DEF files, d
      <3>3. op'[i].do = "queue" => \E j \in DOMAIN op' : op'[j].do = "grant"
        <4>1. ASSUME op'[i].do = "queue" PROVE 2 \in DOMAIN op' /\ op'[2] = granted
          BY <1>6, <1>7, <4>1
        <4> QED BY <1>4, <4>1
      <3>4. op'[i].do = "requests" => \A r \in op'[i].reqs : request'[r] \in Open
        BY <1>1, <1>7 DEF files, Open
      <3>5. op'[i].do \in {"grant", "queue"} => \E r \in Requests : op'[i].reqs = {r}
        BY <3>1
      <3>6. op'[i].do = "decide" => (op'[i].arg.verdict = "reject" => RejectionOwed(op[i].arg.req)')
        BY <1>2, <1>7, <1>8
      <3> HIDE DEF d
      <3> QED BY <3>1, <3>2, <3>3, <3>4, <3>5, <3>6 DEF SoundAt
    <2> QED BY <2>2 DEF StepsOwed
  <1>11. Moving' /\ TurnSound'
    BY <1>1 DEF EscalationInv, Moving, Types, TypeOK, TurnSound, Launching
  <1>12. RejectionsKept'
    BY <1>1, <1>11, RejectionsStay, NoRejection DEF files
  <1> QED BY <1>1, <1>6, <1>9, <1>10, <1>11, <1>12, Begins

-----------------------------------------------------------------------------
(* consumeResume                                                            *)

LEMMA LeastOf ==
    ASSUME NEW T, T \subseteq Nat, T # {}
    PROVE  \E x \in T : \A y \in T : x <= y
  <1> DEFINE Less == {p \in Nat \X Nat : p[1] < p[2]}
  <1>1. IsWellFoundedOn(Less, Nat)
    BY NatLessThanWellFounded DEF OpToRel
  <1>2. PICK x \in T : \A y \in T : ~ (<<y, x>> \in Less)
    <2> HIDE DEF Less
    <2> QED BY <1>1, WFMin
  <1>3. ASSUME NEW y \in T PROVE x <= y
    <2>1. x \in Nat /\ y \in Nat /\ ~ (y < x)
      BY <1>2
    <2> QED BY <2>1
  <1> QED BY <1>3

LEMMA FirstResume ==
    ASSUME resumes \in Seq(Resume), NEW q, ResumesOf(q) # {}
    PROVE  /\ ResumeOf(q) \in ResumesOf(q) /\ ResumeOf(q) \in DOMAIN resumes
           /\ ResumeOf(q) \in Nat /\ resumes[ResumeOf(q)].req = q
           /\ \A j \in ResumesOf(q) : ResumeOf(q) <= j
  <1>1. ResumesOf(q) \subseteq Nat
    BY DEF ResumesOf
  <1>2. \E i \in ResumesOf(q) : \A j \in ResumesOf(q) : i <= j
    BY <1>1, LeastOf
  <1>3. ResumeOf(q) \in ResumesOf(q) /\ \A j \in ResumesOf(q) : ResumeOf(q) <= j
    BY <1>2 DEF ResumeOf
  <1>4. ResumeOf(q) \in DOMAIN resumes /\ resumes[ResumeOf(q)].req = q
    BY <1>3 DEF ResumesOf
  <1> QED BY <1>1, <1>3, <1>4

\* Each approval is one member's, and all of them were asked.
LEMMA QuorumOf ==
    ASSUME EscalationInv, NEW q
    PROVE  /\ Cardinality(Approvals(q)) \in Nat
           /\ Cardinality(By(Approvals(q)) \cap (eligible[q] \ {Requester})) = Cardinality(Approvals(q))
  <1>1. Approvals(q) \subseteq decisions /\ IsFiniteSet(Approvals(q))
    <2>1. Approvals(q) \in SUBSET decisions
      BY DEF Approvals, Decisions
    <2> QED BY <2>1, FS_Subset DEF EscalationInv, Types
  <1>2. By(Approvals(q)) \cap (eligible[q] \ {Requester}) = By(Approvals(q))
    <2>1. ASSUME NEW d \in Approvals(q) PROVE d.by \in eligible[q] \ {Requester}
      BY <1>1 DEF EscalationInv, DecisionsSound, Approvals, Decisions
    <2> QED BY <2>1 DEF By
  <1> DEFINE f == [d \in Approvals(q) |-> d.by]
  <1>3. f \in Bijection(Approvals(q), By(Approvals(q)))
    <2>1. f \in [Approvals(q) -> By(Approvals(q))]
      BY DEF By
    <2>2. ASSUME NEW d \in Approvals(q), NEW e \in Approvals(q), f[d] = f[e] PROVE d = e
      <3>1. d.by = e.by /\ d.req = q /\ e.req = q /\ d \in decisions /\ e \in decisions
        BY <2>2, <1>1 DEF Approvals, Decisions
      <3> QED BY <3>1 DEF EscalationInv, DecisionsSound
    <2>3. ASSUME NEW m \in By(Approvals(q)) PROVE \E d \in Approvals(q) : f[d] = m
      BY DEF By
    <2> HIDE DEF f
    <2>4. f \in Injection(Approvals(q), By(Approvals(q)))
      BY <2>1, <2>2 DEF Injection, IsInjective
    <2>5. f \in Surjection(Approvals(q), By(Approvals(q)))
      BY <2>1, <2>3 DEF Surjection
    <2> QED BY <2>4, <2>5 DEF Bijection
  <1>4. ExistsBijection(Approvals(q), By(Approvals(q)))
    BY <1>3 DEF ExistsBijection
  <1>5. Cardinality(By(Approvals(q))) = Cardinality(Approvals(q))
    BY <1>1, <1>4, FS_Bijection
  <1>6. Cardinality(Approvals(q)) \in Nat
    BY <1>1, FS_CardinalityType
  <1> QED BY <1>2, <1>5, <1>6

LEMMA Joins ==
    ASSUME NEW S, NEW u \in Seq(S), NEW w \in Seq(S)
    PROVE  /\ u \o w \in Seq(S) /\ DOMAIN (u \o w) = 1..(Len(u) + Len(w))
           /\ \A i \in 1..Len(u) : (u \o w)[i] = u[i]
           /\ \A i \in 1..Len(w) : (u \o w)[Len(u) + i] = w[i]
  <1>1. /\ u \o w \in Seq(S) /\ Len(u \o w) = Len(u) + Len(w)
        /\ \A i \in 1..(Len(u) + Len(w)) : (u \o w)[i] = IF i <= Len(u) THEN u[i] ELSE w[i - Len(u)]
    BY ConcatProperties
  <1>2. Len(u) \in Nat /\ Len(w) \in Nat
    OBVIOUS
  <1>3. DOMAIN (u \o w) = 1..(Len(u) + Len(w))
    BY <1>1
  <1>4. ASSUME NEW i \in 1..Len(u) PROVE (u \o w)[i] = u[i]
    <2>1. i \in 1..(Len(u) + Len(w)) /\ i <= Len(u)
      BY <1>2
    <2> QED BY <1>1, <2>1
  <1>5. ASSUME NEW i \in 1..Len(w) PROVE (u \o w)[Len(u) + i] = w[i]
    <2>1. Len(u) + i \in 1..(Len(u) + Len(w)) /\ ~ (Len(u) + i <= Len(u)) /\ (Len(u) + i) - Len(u) = i
      BY <1>2
    <2> QED BY <1>1, <2>1
  <1> QED BY <1>1, <1>3, <1>4, <1>5

LEMMA Five ==
    ASSUME NEW S, NEW a \in S, NEW b \in S, NEW c \in S, NEW d \in S, NEW e \in S
    PROVE  /\ <<a, b, c, d, e>> \in Seq(S) /\ Len(<<a, b, c, d, e>>) = 5
           /\ <<a, b, c, d, e>>[1] = a /\ <<a, b, c, d, e>>[2] = b /\ <<a, b, c, d, e>>[3] = c
           /\ <<a, b, c, d, e>>[4] = d /\ <<a, b, c, d, e>>[5] = e
  OBVIOUS

\* Its approvals are checked, one by one, and then it is begun, executed and recorded.
LEMMA ConsumeList ==
    ASSUME EscalationInv, NEW q \in Requests, ConsumeResume(q)
    PROVE  /\ op' \in Seq(Owed)
           /\ \E n \in Nat :
                 /\ DOMAIN op' = 1..(n + 5)
                 /\ \A j \in DOMAIN op' :
                       /\ j \in Nat /\ op'[j].reqs = {q}
                       /\ \/ j <= n /\ op'[j].do = "check"
                          \/ j = n + 1 /\ op'[j].do = "begin" /\ op'[j].arg = ResumeOf(q)
                          \/ j = n + 2 /\ op'[j].do = "execute" /\ op'[j].arg = ResumeOf(q)
                          \/ j = n + 3 /\ op'[j].do = "complete" /\ op'[j].arg = ResumeOf(q)
                          \/ /\ j = n + 4 /\ op'[j].do = "consume"
                             /\ op'[j].arg = resumes[ResumeOf(q)].mandate
                          \/ j = n + 5 /\ op'[j].do = "record"
  <1> DEFINE i0 == ResumeOf(q)
             what == <<"begin", "execute", "complete", "consume", "record">>
             of == resumes[i0].mandate
             args == <<i0, i0, i0, of, i0>>
             n == Cardinality(Approvals(q))
             five == <<Do("begin", {q}, i0), Do("execute", {q}, i0), Do("complete", {q}, i0),
                       Do("consume", {q}, resumes[i0].mandate), Do("record", {q}, i0)>>
  <1>1. /\ op = <<>> /\ request[q] = "approved" /\ contexts[q] # None /\ ResumesOf(q) # {}
        /\ resumes[i0].status = "ready" /\ n >= Quorum /\ UNCHANGED <<files, cred, faults>>
        /\ \E approvals \in [1..n -> Approvals(q)] :
              op' = [j \in DOMAIN approvals |-> Do("check", {q}, approvals[j])] \o five
    BY DEF ConsumeResume
  <1>2. n \in Nat
    BY QuorumOf
  <1>3. i0 \in Nat /\ resumes[i0].mandate \in Nat
    <2>1. resumes \in Seq(Resume)
      BY DEF EscalationInv, Types, TypeOK
    <2>2. i0 \in DOMAIN resumes /\ i0 \in Nat
      BY <1>1, <2>1, FirstResume
    <2>3. resumes[i0] \in Resume
      BY <2>1, <2>2
    <2> QED BY <2>2, <2>3 DEF Resume
  <1>4. PICK approvals \in [1..n -> Approvals(q)] :
           op' = [j \in DOMAIN approvals |-> Do("check", {q}, approvals[j])] \o five
    BY <1>1
  <1> DEFINE checks == [j \in 1..n |-> Do("check", {q}, approvals[j])]
  <1>5. checks \in Seq(Owed) /\ Len(checks) = n
    <2>1. ASSUME NEW j \in 1..n PROVE Do("check", {q}, approvals[j]) \in Owed
      <3>1. approvals[j] \in Decision
        BY DEF Approvals, Decisions, EscalationInv, Types, TypeOK
      <3> QED BY <3>1, NewStep
    <2> HIDE DEF n
    <2>2. checks \in [1..n -> Owed]
      BY <2>1
    <2> HIDE DEF checks
    <2> QED BY <1>2, <2>2, SeqDef
  <1>6. /\ five \in Seq(Owed) /\ Len(five) = 5
        /\ \A k \in 1..5 : five[k].do = what[k] /\ five[k].reqs = {q}
        /\ \A k \in 1..5 : five[k].arg = args[k]
    <2>1. PICK a \in Owed : a = Do("begin", {q}, i0)
      BY <1>3, NewStep
    <2>2. PICK b \in Owed : b = Do("execute", {q}, i0)
      BY <1>3, NewStep
    <2>3. PICK c \in Owed : c = Do("complete", {q}, i0)
      BY <1>3, NewStep
    <2>4. PICK d \in Owed : d = Do("consume", {q}, resumes[i0].mandate)
      BY <1>3, NewStep
    <2>5. PICK e \in Owed : e = Do("record", {q}, i0)
      BY <1>3, NewStep
    <2>6. five = <<a, b, c, d, e>>
      BY <2>1, <2>2, <2>3, <2>4, <2>5
    <2> HIDE DEF five
    <2>7. /\ five \in Seq(Owed) /\ Len(five) = 5
          /\ five[1] = a /\ five[2] = b /\ five[3] = c /\ five[4] = d /\ five[5] = e
      BY <2>6, Five
    <2>8. /\ a.do = "begin" /\ a.reqs = {q} /\ a.arg = i0
          /\ b.do = "execute" /\ b.reqs = {q} /\ b.arg = i0
          /\ c.do = "complete" /\ c.reqs = {q} /\ c.arg = i0
          /\ d.do = "consume" /\ d.reqs = {q} /\ d.arg = of
          /\ e.do = "record" /\ e.reqs = {q} /\ e.arg = i0
      BY <2>1, <2>2, <2>3, <2>4, <2>5, DoFacts
    <2>9. ASSUME NEW k \in 1..5 PROVE five[k].do = what[k] /\ five[k].reqs = {q}
      <3>1. k = 1 \/ k = 2 \/ k = 3 \/ k = 4 \/ k = 5
        OBVIOUS
      <3> QED BY <2>7, <2>8, <3>1
    <2>10. ASSUME NEW k \in 1..5 PROVE five[k].arg = args[k]
      <3>1. k = 1 \/ k = 2 \/ k = 3 \/ k = 4 \/ k = 5
        OBVIOUS
      <3> QED BY <2>7, <2>8, <3>1
    <2> QED BY <2>7, <2>9, <2>10
  <1>7. op' = checks \o five
    BY <1>4
  <1>8. ASSUME NEW j \in 1..n
        PROVE  checks[j].do = "check" /\ checks[j].reqs = {q}
    BY DEF Do
  <1> HIDE DEF checks, five, n, i0, of
  <1>9. /\ op' \in Seq(Owed) /\ DOMAIN op' = 1..(n + 5)
        /\ \A j \in 1..n : op'[j].do = "check" /\ op'[j].reqs = {q}
        /\ \A k \in 1..5 : op'[n + k].do = what[k] /\ op'[n + k].reqs = {q}
        /\ \A k \in 1..5 : op'[n + k].arg = args[k]
    <2>1. /\ op' \in Seq(Owed) /\ DOMAIN op' = 1..(n + 5)
          /\ \A j \in 1..n : op'[j] = checks[j]
          /\ \A k \in 1..5 : op'[n + k] = five[k]
      <3>1. PICK u \in Seq(Owed) : u = checks
        BY <1>5
      <3>2. PICK w \in Seq(Owed) : w = five
        BY <1>6
      <3>3. op' = u \o w /\ Len(u) = n /\ Len(w) = 5
        BY <1>5, <1>6, <1>7, <3>1, <3>2
      <3>4. /\ u \o w \in Seq(Owed) /\ DOMAIN (u \o w) = 1..(Len(u) + Len(w))
            /\ \A i \in 1..Len(u) : (u \o w)[i] = u[i]
            /\ \A i \in 1..Len(w) : (u \o w)[Len(u) + i] = w[i]
        BY Joins
      <3>5. /\ op' \in Seq(Owed) /\ DOMAIN op' = 1..(n + 5)
            /\ \A i \in 1..n : op'[i] = u[i]
            /\ \A i \in 1..5 : op'[n + i] = w[i]
        BY <3>3, <3>4
      <3> QED BY <3>1, <3>2, <3>5
    <2> HIDE DEF what, args
    <2>3. \A j \in 1..n : op'[j].do = "check" /\ op'[j].reqs = {q}
      BY <1>8, <2>1
    <2>4. \A k \in 1..5 : op'[n + k].do = what[k] /\ op'[n + k].reqs = {q}
      BY <1>6, <2>1
    <2>5. \A k \in 1..5 : op'[n + k].arg = args[k]
      BY <1>6, <2>1
    <2> QED BY <2>1, <2>3, <2>4, <2>5
  <1>10. ASSUME NEW j \in DOMAIN op'
         PROVE  /\ j \in Nat /\ op'[j].reqs = {q}
                /\ \/ j <= n /\ op'[j].do = "check"
                   \/ j = n + 1 /\ op'[j].do = "begin" /\ op'[j].arg = i0
                   \/ j = n + 2 /\ op'[j].do = "execute" /\ op'[j].arg = i0
                   \/ j = n + 3 /\ op'[j].do = "complete" /\ op'[j].arg = i0
                   \/ j = n + 4 /\ op'[j].do = "consume" /\ op'[j].arg = of
                   \/ j = n + 5 /\ op'[j].do = "record"
    <2>1. j \in 1..(n + 5)
      BY <1>9
    <2>2. CASE j <= n
      <3>1. j \in 1..n
        BY <2>1, <2>2, <1>2
      <3> QED BY <1>9, <2>2, <3>1
    <2>3. CASE ~ (j <= n)
      <3>1. \E k \in 1..5 : j = n + k
        <4>1. j - n \in 1..5 /\ j = n + (j - n)
          BY <2>1, <2>3, <1>2
        <4> QED BY <4>1
      <3>2. PICK k \in 1..5 : j = n + k
        BY <3>1
      <3>3. op'[j].do = what[k] /\ op'[j].reqs = {q} /\ op'[j].arg = args[k]
        BY <1>9, <3>2
      <3>4. k = 1 \/ k = 2 \/ k = 3 \/ k = 4 \/ k = 5
        OBVIOUS
      <3>5. \/ k = 1 /\ what[k] = "begin" /\ args[k] = i0
            \/ k = 2 /\ what[k] = "execute" /\ args[k] = i0
            \/ k = 3 /\ what[k] = "complete" /\ args[k] = i0
            \/ k = 4 /\ what[k] = "consume" /\ args[k] = of
            \/ k = 5 /\ what[k] = "record"
        BY <3>4
      <3>6. j \in Nat
        BY <2>1
      <3> HIDE DEF what, args
      <3> QED BY <3>2, <3>3, <3>5, <3>6
    <2> QED BY <2>2, <2>3
  <1>11. i0 = ResumeOf(q) /\ of = resumes[ResumeOf(q)].mandate
    BY DEF i0, of
  <1> QED BY <1>2, <1>9, <1>10, <1>11

LEMMA ConsumeStep ==
    ASSUME EscalationInv, up, NEW q \in Requests, ConsumeResume(q),
           UNCHANGED <<up, phase, turn, runs, stops>>
    PROVE  EscalationInv'
  <1> DEFINE i0 == ResumeOf(q)
  <1>1. /\ op = <<>> /\ request[q] = "approved" /\ contexts[q] # None /\ ResumesOf(q) # {}
        /\ resumes[i0].status = "ready" /\ Cardinality(Approvals(q)) >= Quorum
        /\ UNCHANGED <<files, cred, faults>>
    BY DEF ConsumeResume
  <1>2. Resumable(q, i0) /\ FirstReady(q) /\ runs[q] = 0
    <2>1. OnQuorum(q)
      BY <1>1, QuorumOf DEF OnQuorum
    <2>2. FirstReady(q) /\ Resumable(q, i0)
      BY <1>1, <2>1 DEF FirstReady, Resumable
    <2>3. ~ (runs[q] > 0) /\ runs[q] \in Nat
      BY <2>2 DEF EscalationInv, RunsSound, Types, TypeOK
    <2> QED BY <2>1, <2>2, <2>3
  <1>3. op' \in Seq(Owed)
    BY ConsumeList
  <1>4. PICK n \in Nat :
           /\ DOMAIN op' = 1..(n + 5)
           /\ \A j \in DOMAIN op' :
                 /\ j \in Nat /\ op'[j].reqs = {q}
                 /\ \/ j <= n /\ op'[j].do = "check"
                    \/ j = n + 1 /\ op'[j].do = "begin" /\ op'[j].arg = i0
                    \/ j = n + 2 /\ op'[j].do = "execute" /\ op'[j].arg = i0
                    \/ j = n + 3 /\ op'[j].do = "complete"
                    \/ j = n + 4 /\ op'[j].do = "consume"
                    \/ j = n + 5 /\ op'[j].do = "record"
    BY ConsumeList
  <1> HIDE DEF i0
  <1>5. Order'
    <2>1. ASSUME NEW i \in DOMAIN op', NEW j \in DOMAIN op'
          PROVE  op'[i].reqs = op'[j].reqs /\ (j < i => op'[j].do \in Ahead(op'[i].do))
      <3>1. op'[i].reqs = op'[j].reqs
        BY <1>4
      <3>2. ASSUME j < i
            PROVE  \/ op'[j].do = "check" /\ op'[i].do \in {"check", "begin", "execute", "complete", "consume", "record"}
                   \/ op'[j].do = "begin" /\ op'[i].do \in {"execute", "complete", "consume", "record"}
                   \/ op'[j].do = "execute" /\ op'[i].do \in {"complete", "consume", "record"}
                   \/ op'[j].do = "complete" /\ op'[i].do \in {"consume", "record"}
                   \/ op'[j].do = "consume" /\ op'[i].do = "record"
        BY <1>4, <3>2
      <3> QED BY <3>1, <3>2 DEF Ahead
    <2> QED BY <2>1 DEF Order
  <1>6. Moving' /\ TurnSound'
    BY <1>1 DEF EscalationInv, Moving, Types, TypeOK, TurnSound, Launching
  <1>7. RejectionsKept'
    BY <1>1, <1>6, RejectionsStay, NoRejection DEF files
  <1>8. StepsOwed'
    <2>1. /\ request'[q] = "approved" /\ contexts'[q] # None /\ OnQuorum(q)'
          /\ ResumesOf(q)' # {} /\ i0 = ResumeOf(q)' /\ FirstReady(q)'
      <3>1. UNCHANGED <<resumes, request, contexts, decisions, eligible>>
        BY <1>1 DEF files
      <3>2. /\ ResumesOf(q)' = ResumesOf(q) /\ ResumeOf(q)' = ResumeOf(q)
            /\ FirstReady(q)' <=> FirstReady(q)
        BY <3>1, ResumesKept
      <3>3. OnQuorum(q)' <=> OnQuorum(q)
        BY <3>1 DEF OnQuorum, Approvals, Decisions
      <3> QED BY <1>1, <1>2, <3>1, <3>2, <3>3 DEF Resumable, i0
    <2>2. ASSUME NEW j \in DOMAIN op' PROVE SoundAt(j)'
      <3>1. op'[j].reqs = {q} /\ op'[j].do \in {"check", "begin", "execute", "complete", "consume", "record"}
        BY <1>4
      <3>2. op'[j].do = "check" => \A r \in op'[j].reqs : request'[r] = "approved"
        BY <1>1, <3>1 DEF files
      <3>3. op'[j].do = "begin" => op'[j].arg = i0
        BY <1>4
      <3>4. op'[j].do = "execute" =>
               op'[j].arg = i0 /\ j # 1 /\ op'[j - 1].do = "begin" /\ runs'[q] = 0
        <4>1. ASSUME op'[j].do = "execute" PROVE j = n + 2 /\ op'[j].arg = i0
          BY <1>4, <4>1
        <4>2. op'[n + 1].do = "begin"
          <5>1. n + 1 \in DOMAIN op' /\ ~ (n + 1 <= n)
            BY <1>4
          <5> QED BY <1>4, <5>1
        <4>3. n + 2 - 1 = n + 1 /\ n + 2 # 1
          OBVIOUS
        <4> QED BY <1>1, <1>2, <4>1, <4>2, <4>3
      <3>5. op'[j].do = "begin" => Resumable(q, op[j].arg)' /\ FirstReady(q)'
        BY <2>1, <3>3 DEF Resumable
      <3>6. op'[j].do = "execute" => Resumable(q, op[j].arg)'
        BY <2>1, <3>4 DEF Resumable
      <3> QED BY <2>1, <3>1, <3>2, <3>4, <3>5, <3>6 DEF SoundAt
    <2> QED BY <2>2 DEF StepsOwed
  <1> QED BY <1>1, <1>3, <1>5, <1>6, <1>7, <1>8, Begins

-----------------------------------------------------------------------------
(* The steps that end, or go on with, a list.                               *)

\* A step of the list relies on the files, the runs and the list itself, and on the turn
\* only while a run is being started.
LEMMA SoundKept ==
    ASSUME UNCHANGED <<files, op, runs>>, NEW i \in DOMAIN op, SoundAt(i),
           turn.at \in {"launched", "waiting"} => turn'.at \in {"launched", "waiting"}
    PROVE  SoundAt(i)'
  <1>1. UNCHANGED <<request, eligible, contexts, decisions, mandates, resumes>>
    BY DEF files
  <1>2. \A q : /\ ResumesOf(q)' = ResumesOf(q) /\ ResumeOf(q)' = ResumeOf(q)
               /\ FirstReady(q)' <=> FirstReady(q)
    BY <1>1, ResumesKept
  <1>3. \A q : OnQuorum(q)' <=> OnQuorum(q)
    BY <1>1 DEF OnQuorum, Approvals, Decisions
  <1>4. \A q : Resumable(q, op[i].arg)' <=> Resumable(q, op[i].arg)
    BY <1>1, <1>2, <1>3 DEF Resumable
  <1>5. \A q : RejectionOwed(q)' <=> RejectionOwed(q)
    BY DEF RejectionOwed
  <1> QED BY <1>1, <1>2, <1>4, <1>5 DEF SoundAt

\* What was behind the first step, and what it relies on.
LEMMA Follows ==
    ASSUME EscalationInv, op # <<>>, op' = Tail(op), NEW i \in DOMAIN op'
    PROVE  /\ i \in Nat /\ i >= 1 /\ i + 1 \in DOMAIN op /\ i + 1 > 1 /\ op'[i] = op[i + 1]
           /\ SoundAt(i + 1) /\ (i + 1) - 1 = i /\ op[i + 1].reqs = op[1].reqs
           /\ i > 1 => i - 1 \in DOMAIN op' /\ op'[i - 1] = op[i]
  <1>1. i \in Nat /\ i >= 1 /\ i + 1 \in DOMAIN op /\ op'[i] = op[i + 1]
    BY Shifts DEF EscalationInv
  <1>2. i + 1 > 1 /\ (i + 1) - 1 = i
    BY <1>1
  <1>3. SoundAt(i + 1)
    BY <1>1 DEF EscalationInv, StepsOwed
  <1>4. op[i + 1].reqs = op[1].reqs
    BY <1>1, <1>2, Behind DEF EscalationInv
  <1>5. ASSUME i > 1 PROVE i - 1 \in DOMAIN op' /\ op'[i - 1] = op[i]
    <2>1. i \in DOMAIN op
      BY <1>1, OpFacts DEF EscalationInv
    <2> QED BY <1>5, <2>1, Shifts DEF EscalationInv
  <1> QED BY <1>1, <1>2, <1>3, <1>4, <1>5

LEMMA HeadSound ==
    ASSUME EscalationInv, op # <<>>
    PROVE  1 \in DOMAIN op /\ Head(op) = op[1] /\ SoundAt(1) /\ op[1] \in Owed
  BY OpFacts DEF EscalationInv, StepsOwed

LEMMA Throws ==
    ASSUME EscalationInv, op' = Thrown
    PROVE  op' \in Seq(Owed) /\ Order' /\ StepsOwed'
  <1>1. CASE op' = <<>>
    BY <1>1, Rests
  <1>2. CASE op' # <<>>
    <2>1. /\ op # <<>> /\ Head(op).do \in Tried
          /\ op' = <<Do("fail", Reqs, ResumeOf(CHOOSE q \in Reqs : TRUE))>>
      BY <1>2 DEF Thrown
    <2>2. op[1].do \in {"execute", "complete", "consume", "record"} /\ Head(op) = op[1] /\ SoundAt(1)
      BY <2>1, HeadSound DEF Tried
    <2>3. \E q \in Requests : op[1].reqs = {q} /\ ResumesOf(q) # {}
      BY <2>2 DEF SoundAt, Resumable
    <2>4. PICK q \in Requests : op[1].reqs = {q} /\ ResumesOf(q) # {}
      BY <2>3
    <2>5. Reqs = {q} /\ ResumeOf(q) \in Nat /\ (CHOOSE r \in Reqs : TRUE) = q
      BY <2>2, <2>4, FirstResume DEF Reqs, EscalationInv, Types, TypeOK
    <2>6. PICK w \in Owed : w = Do("fail", {q}, ResumeOf(q))
      BY <2>5, NewStep
    <2>7. op' = <<w>> /\ w.do = "fail"
      BY <2>1, <2>5, <2>6, DoFacts
    <2>8. op' \in Seq(Owed) /\ DOMAIN op' = {1} /\ op'[1].do = "fail"
      BY <2>7, One
    <2>9. Order'
      <3>1. ASSUME NEW i \in DOMAIN op', NEW j \in DOMAIN op'
            PROVE  op'[i].reqs = op'[j].reqs /\ (j < i => op'[j].do \in Ahead(op'[i].do))
        <4>1. i = 1 /\ j = 1
          BY <2>8
        <4> QED BY <4>1
      <3> QED BY <3>1 DEF Order
    <2>10. StepsOwed'
      <3>1. ASSUME NEW i \in DOMAIN op' PROVE SoundAt(i)'
        <4>1. op'[i].do = "fail"
          BY <2>8
        <4> QED BY <4>1 DEF SoundAt
      <3> QED BY <3>1 DEF StepsOwed
    <2> QED BY <2>8, <2>9, <2>10
  <1> QED BY <1>1, <1>2

LEMMA FailStep ==
    ASSUME EscalationInv, Fail
    PROVE  EscalationInv'
  <1>1. /\ op # <<>> /\ Head(op).do # "execute" /\ faults' = faults + 1 /\ op' = Thrown
        /\ UNCHANGED <<files, cred, up, phase, runs, stops>> /\ up /\ faults + stops < MaxTroubles
        /\ turn' \in {Idle, turn}
    BY DEF Fail, StepFails
  <1>2. ~ Launching
    BY <1>1, HeadSound DEF EscalationInv, TurnSound
  <1>3. Moving' /\ TurnSound'
    BY <1>1, <1>2, TroublesAssumption
       DEF EscalationInv, Moving, Types, TypeOK, TurnSound, Launching, Turn, Idle
  <1>4. RejectionsKept'
    BY <1>1 DEF EscalationInv, Types, TypeOK, RejectionsKept
  <1> QED BY <1>1, <1>3, <1>4, Throws, Begins

LEMMA ResumeFailsStep ==
    ASSUME EscalationInv, ResumeFails
    PROVE  EscalationInv'
  <1>1. /\ Launching /\ turn' = Idle /\ op' = Thrown /\ up
        /\ UNCHANGED <<files, cred, faults, up, phase, runs, stops>>
    BY DEF ResumeFails, Launching
  <1>2. op # <<>> /\ op[1].do = "execute"
    BY <1>1 DEF EscalationInv, TurnSound
  <1>3. Moving' /\ TurnSound'
    BY <1>1 DEF EscalationInv, Moving, Types, TypeOK, TurnSound, Launching, Turn, Idle
  <1>4. RejectionsKept'
    BY <1>1, <1>2, <1>3, RejectionsStay, NoRejection DEF files
  <1> QED BY <1>1, <1>3, <1>4, Throws, Begins

LEMMA StopStep ==
    ASSUME EscalationInv, Stop
    PROVE  EscalationInv'
  <1>1. /\ stops' = stops + 1 /\ up' = FALSE /\ op' = <<>> /\ turn' = Idle
        /\ faults + stops < MaxTroubles /\ UNCHANGED <<files, cred, faults, phase, runs>>
    BY DEF Stop
  <1>2. Moving'
    <2>1. faults \in Nat /\ stops \in Nat /\ MaxTroubles \in Nat
      BY TroublesAssumption DEF EscalationInv, Types, TypeOK
    <2>2. faults' \in Nat /\ stops' \in Nat /\ faults' + stops' <= MaxTroubles
      BY <1>1, <2>1
    <2>3. turn' \in Turn
      BY <1>1 DEF Turn, Idle
    <2> QED BY <1>1, <2>2, <2>3 DEF EscalationInv, Moving, Types, TypeOK
  <1>3. TurnSound'
    BY <1>1 DEF TurnSound, Launching, Idle
  <1>4. RejectionsKept'
    BY <1>1 DEF EscalationInv, Types, TypeOK, RejectionsKept
  <1> QED BY <1>1, <1>2, <1>3, <1>4, Rests, Begins

LEMMA LaunchStep ==
    ASSUME EscalationInv, Launch
    PROVE  EscalationInv'
  <1>1. /\ up /\ turn.at = "idle" /\ op # <<>> /\ Head(op).do = "execute"
        /\ UNCHANGED <<files, cred, faults, up, phase, runs, stops>>
        /\ \E q \in Reqs : \/ turn' = [Idle EXCEPT !.at = "launching", !.req = q] /\ op' = op
                           \/ op' = Thrown /\ turn' = turn
    BY DEF Launch, At, Doing
  <1>2. Head(op) = op[1] /\ op[1].do = "execute" /\ SoundAt(1)
    BY <1>1, HeadSound
  <1>3. \E q \in Requests : op[1].reqs = {q} /\ runs[q] = 0
    BY <1>1, <1>2 DEF SoundAt
  <1>4. PICK q \in Requests : op[1].reqs = {q}
    BY <1>3
  <1>5. Reqs = {q}
    BY <1>2, <1>4 DEF Reqs
  <1>6. CASE op' = Thrown /\ turn' = turn
    <2>1. Moving' /\ TurnSound'
      BY <1>1, <1>6 DEF EscalationInv, Moving, Types, TypeOK, TurnSound, Launching
    <2>2. RejectionsKept'
      BY <1>1, <1>2, <2>1, RejectionsStay, NoRejection DEF files
    <2> QED BY <1>1, <1>6, <2>1, <2>2, Throws, Begins
  <1>7. CASE turn' = [Idle EXCEPT !.at = "launching", !.req = q] /\ op' = op
    <2>1. turn' \in Turn /\ turn'.at = "launching" /\ turn'.req = q
      BY <1>7 DEF Turn, Idle
    <2>2. Moving'
      BY <1>1, <1>7, <2>1 DEF EscalationInv, Moving, Types, TypeOK
    <2>3. TurnSound'
      BY <1>1, <1>2, <1>4, <1>7, <2>1 DEF TurnSound
    <2>4. RejectionsKept'
      BY <1>1, <1>2, <2>2, RejectionsStay, NoRejection DEF files
    <2>5. op' \in Seq(Owed) /\ Order'
      BY <1>7 DEF EscalationInv, Types, Order
    <2>6. StepsOwed'
      <3>1. ASSUME NEW i \in DOMAIN op' PROVE SoundAt(i)'
        <4>1. SoundAt(i) /\ op' = op /\ UNCHANGED <<resumes, request, contexts, decisions, eligible, runs>>
          BY <1>1, <1>7 DEF EscalationInv, StepsOwed, files
        <4> QED BY <1>1, <1>7, <4>1, SoundKept
      <3> QED BY <3>1 DEF StepsOwed
    <2> QED BY <1>1, <2>2, <2>3, <2>4, <2>5, <2>6, Begins
  <1> QED BY <1>1, <1>5, <1>6, <1>7

-----------------------------------------------------------------------------
(* The steps of the approvals.                                              *)

\* None of them is a resume's, whose turn the coordinator has.
Quiet ==
    /\ up /\ op # <<>> /\ turn' \in Turn /\ ~ Launching /\ ~ Launching'
    /\ UNCHANGED <<up, phase, runs, stops, cred, faults>>

LEMMA QuietMoves ==
    ASSUME EscalationInv, Quiet
    PROVE  Moving' /\ TurnSound'
  BY DEF EscalationInv, Quiet, Moving, Types, TypeOK, TurnSound, Launching

LEMMA StillOwed ==
    ASSUME EscalationInv, op # <<>>, op' = Tail(op), op[1].do # "requests", NEW q, RejectionOwed(q)
    PROVE  RejectionOwed(q)'
  <1>1. PICK i \in DOMAIN op : op[i].do = "requests" /\ op[i].arg = "rejected" /\ q \in op[i].reqs
    BY DEF RejectionOwed
  <1>2. i \in Nat /\ i >= 1 /\ i # 1
    BY <1>1, OpFacts DEF EscalationInv
  <1>3. i > 1
    BY <1>2
  <1>4. i - 1 \in DOMAIN op' /\ op'[i - 1] = op[i]
    BY <1>3, Shifts DEF EscalationInv
  <1> QED BY <1>1, <1>4 DEF RejectionOwed

LEMMA RecordStep ==
    ASSUME EscalationInv, Quiet, RecordResume
    PROVE  EscalationInv'
  <1>1. op # <<>> /\ op[1].do = "record" /\ op' = Tail(op) /\ UNCHANGED files
    BY HeadSound DEF RecordResume, Doing, Done
  <1>2. op' = <<>>
    BY <1>1, Alone DEF EscalationInv
  <1>3. Moving' /\ TurnSound'
    BY QuietMoves
  <1>4. RejectionsKept'
    BY <1>1, <1>3, RejectionsStay, NoRejection DEF files, Quiet
  <1> QED BY <1>1, <1>2, <1>3, <1>4, Rests, Begins DEF Quiet

LEMMA CheckStep ==
    ASSUME EscalationInv, Quiet, Check
    PROVE  EscalationInv'
  <1>1. /\ op # <<>> /\ op[1].do = "check" /\ Head(op) = op[1] /\ SoundAt(1) /\ op[1] \in Owed
        /\ UNCHANGED files
        /\ op' = Tail(op) \/ op' = End(Reqs) \/ op' = <<>>
    BY HeadSound DEF Check, Doing, Done
  <1>2. Moving' /\ TurnSound'
    BY QuietMoves
  <1>3. \A q \in Requests : ~ RejectionOwed(q)
    BY <1>1, NoRejection
  <1>4. RejectionsKept'
    BY <1>1, <1>2, <1>3, RejectionsStay DEF files, Quiet
  <1>5. CASE op' = <<>>
    BY <1>1, <1>2, <1>4, <1>5, Rests, Begins DEF Quiet
  <1>6. CASE op' = End(Reqs)
    <2>1. Reqs \in SUBSET Requests /\ \A q \in Reqs : request[q] \in Open
      BY <1>1, StepFacts DEF SoundAt, Reqs, Open
    <2>2. PICK Q \in SUBSET Requests : Q = Reqs
      BY <2>1
    <2>3. op' = End(Q) /\ \A q \in Q : request[q] \in Open
      BY <1>6, <2>1, <2>2
    <2>4. TurnSound' /\ ~ Launching /\ ~ Launching'
      BY <1>2 DEF Quiet
    <2>5. UNCHANGED <<files, runs, faults, stops>>
      BY <1>1 DEF Quiet
    <2> QED BY <1>2, <1>3, <2>3, <2>4, <2>5, Ends
  <1>7. CASE op' = Tail(op)
    <2>1. op' \in Seq(Owed) /\ Order'
      BY <1>1, <1>7, Shifts DEF EscalationInv
    <2>2. StepsOwed'
      <3>1. ASSUME NEW i \in DOMAIN op' PROVE SoundAt(i)'
        <4>1. /\ i \in Nat /\ i >= 1 /\ i + 1 \in DOMAIN op /\ i + 1 > 1 /\ op'[i] = op[i + 1]
              /\ SoundAt(i + 1) /\ (i + 1) - 1 = i
              /\ i > 1 => op'[i - 1] = op[i]
          BY <1>1, <1>7, Follows
        <4>2. op[i + 1].do \in {"check", "begin", "execute", "complete", "consume", "record"}
          BY <1>1, <4>1, Behind DEF EscalationInv
        <4>3. UNCHANGED <<request, eligible, contexts, decisions, mandates, resumes, runs>> /\ ~ Launching
          BY <1>1 DEF files, Quiet
        <4>4. \A q : /\ ResumesOf(q)' = ResumesOf(q) /\ ResumeOf(q)' = ResumeOf(q)
                     /\ FirstReady(q)' <=> FirstReady(q)
          BY <4>3, ResumesKept
        <4>5. \A q : OnQuorum(q)' <=> OnQuorum(q)
          BY <4>3 DEF OnQuorum, Approvals, Decisions
        <4>6. \A q : Resumable(q, op[i].arg)' <=> Resumable(q, op[i + 1].arg)
          BY <4>1, <4>3, <4>4, <4>5 DEF Resumable
        <4>7. op'[i].do = "check" => \A q \in op'[i].reqs : request'[q] = "approved"
          BY <4>1, <4>3 DEF SoundAt
        <4>8. op'[i].do = "begin" =>
                 \E q \in Requests : op'[i].reqs = {q} /\ Resumable(q, op[i].arg)' /\ FirstReady(q)'
          BY <4>1, <4>4, <4>6 DEF SoundAt
        <4>9. op'[i].do = "execute" =>
                 \E q \in Requests : /\ op'[i].reqs = {q} /\ Resumable(q, op[i].arg)'
                                     /\ i # 1 /\ op'[i - 1].do = "begin" /\ runs'[q] = 0
          <5>1. ASSUME op'[i].do = "execute"
                PROVE  /\ op[i].do = "begin"
                       /\ \E q \in Requests : /\ op[i + 1].reqs = {q} /\ Resumable(q, op[i + 1].arg)
                                              /\ runs[q] = 0
            BY <4>1, <4>3, <5>1 DEF SoundAt, Launching
          <5>2. ASSUME op'[i].do = "execute" PROVE i > 1
            BY <1>1, <4>1, <5>1, <5>2
          <5> QED BY <4>1, <4>3, <4>6, <5>1, <5>2
        <4>10. op'[i].do \in {"complete", "consume", "record"} =>
                  \E q \in Requests : op'[i].reqs = {q} /\ ResumesOf(q)' # {}
          BY <4>1, <4>4 DEF SoundAt
        <4> QED BY <4>1, <4>2, <4>7, <4>8, <4>9, <4>10 DEF SoundAt
      <3> QED BY <3>1 DEF StepsOwed
    <2> QED BY <1>1, <1>2, <1>4, <2>1, <2>2, Begins DEF Quiet
  <1> QED BY <1>1, <1>5, <1>6, <1>7

LEMMA RouteStep ==
    ASSUME EscalationInv, Quiet, Route
    PROVE  EscalationInv'
  <1>1. /\ op # <<>> /\ op[1].do = "route" /\ Reqs = op[1].reqs /\ Arg = op[1].arg
        /\ SoundAt(1) /\ op[1] \in Owed /\ op' = Tail(op)
        /\ request' = [q \in Requests |-> IF q \in Reqs THEN "pending" ELSE request[q]]
        /\ eligible' = [q \in Requests |-> IF q \in Reqs THEN Arg ELSE eligible[q]]
        /\ UNCHANGED <<contexts, decisions, mandates, resumes, cred, faults>>
    BY HeadSound DEF Route, Doing, Done, Reqs, Arg
  <1>2. Moving' /\ TurnSound' /\ op' \in Seq(Owed) /\ Order'
    BY <1>1, QuietMoves, Shifts DEF EscalationInv
  <1>3. Types'
    <2>1. Arg \in SUBSET Members
      BY <1>1, StepFacts
    <2>2. request' \in [Requests -> {"none"} \cup Open \cup Closed] /\ eligible' \in [Requests -> SUBSET Members]
      BY <1>1, <2>1 DEF EscalationInv, Types, TypeOK, Open
    <2> QED BY <1>1, <1>2, <2>2 DEF EscalationInv, Types, TypeOK, Moving, Quiet
  <1>4. \A d \in decisions : d.req \in Requests /\ d.req \notin Reqs
    BY <1>1 DEF EscalationInv, Types, TypeOK, Decision, SoundAt
  <1>5. \A d \in decisions : request'[d.req] = request[d.req] /\ eligible'[d.req] = eligible[d.req]
    BY <1>1, <1>4
  <1>6. DecisionsSound'
    BY <1>1, <1>5 DEF EscalationInv, DecisionsSound
  <1>7. RejectionsKept'
    <2>1. \A q \in Requests : ~ RejectionOwed(q)
      BY <1>1, NoRejection
    <2> QED BY <1>1, <1>4, <1>5, <2>1 DEF EscalationInv, RejectionsKept, Quiet
  <1>8. KeysOnce' /\ RunsSound'
    <2>1. UNCHANGED <<contexts, resumes, runs>>
      BY <1>1 DEF Quiet
    <2> QED BY <2>1, ResumesKept DEF EscalationInv, KeysOnce, RunsSound
  <1>9. StepsOwed'
    <2>1. ASSUME NEW i \in DOMAIN op' PROVE SoundAt(i)'
      <3>1. i + 1 \in DOMAIN op /\ op'[i] = op[i + 1] /\ SoundAt(i + 1) /\ i + 1 > 1
        BY <1>1, Follows
      <3>2. op'[i].do = "context"
        BY <1>1, <3>1, Behind DEF EscalationInv
      <3> QED BY <1>1, <3>1, <3>2 DEF SoundAt
    <2> QED BY <2>1 DEF StepsOwed
  <1> QED BY <1>2, <1>3, <1>6, <1>7, <1>8, <1>9 DEF EscalationInv

\* The key is new, and of one request.
LEMMA FrameStep ==
    ASSUME EscalationInv, Quiet, Frame
    PROVE  EscalationInv'
  <1>1. /\ op # <<>> /\ op[1].do = "context" /\ Reqs = op[1].reqs /\ Arg = op[1].arg
        /\ SoundAt(1) /\ op[1] \in Owed /\ op' = Tail(op)
        /\ contexts' = [q \in Requests |-> IF q \in Reqs THEN Arg ELSE contexts[q]]
        /\ UNCHANGED <<request, eligible, decisions, mandates, resumes, cred, faults>>
    BY HeadSound DEF Frame, Doing, Done, Reqs, Arg
  <1>2. op' = <<>> /\ Moving' /\ TurnSound' /\ op' \in Seq(Owed) /\ Order' /\ StepsOwed'
    BY <1>1, QuietMoves, Alone, Rests DEF EscalationInv
  <1>3. Arg \in Keys /\ Arg # None
    BY <1>1, StepFacts, NoneAssumption
  <1>4. Types'
    <2>1. contexts' \in [Requests -> Keys \cup {None}]
      BY <1>1, <1>3 DEF EscalationInv, Types, TypeOK
    <2> QED BY <1>1, <1>2, <2>1 DEF EscalationInv, Types, TypeOK, Moving, Quiet
  <1>5. DecisionsSound'
    BY <1>1 DEF EscalationInv, DecisionsSound
  <1>6. RejectionsKept'
    BY <1>1, <1>2, RejectionsStay, NoRejection DEF Quiet
  <1>7. KeysOnce'
    BY <1>1, <1>3 DEF EscalationInv, KeysOnce, SoundAt
  <1>8. RunsSound'
    <2>1. UNCHANGED <<resumes, runs>>
      BY <1>1 DEF Quiet
    <2>2. \A q \in Requests : contexts[q] # None => contexts'[q] # None
      BY <1>1, <1>3
    <2> QED BY <2>1, <2>2, ResumesKept DEF EscalationInv, RunsSound
  <1> QED BY <1>2, <1>4, <1>5, <1>6, <1>7, <1>8 DEF EscalationInv

LEMMA SignStep ==
    ASSUME EscalationInv, Quiet, Sign
    PROVE  EscalationInv'
  <1>1. /\ op # <<>> /\ op[1].do = "decide" /\ Arg = op[1].arg
        /\ SoundAt(1) /\ op[1] \in Owed /\ op' = Tail(op) /\ decisions' = decisions \cup {Arg}
        /\ UNCHANGED <<request, eligible, contexts, mandates, resumes, cred, faults>>
    BY HeadSound DEF Sign, Doing, Done, Reqs, Arg
  <1>2. Moving' /\ TurnSound' /\ op' \in Seq(Owed) /\ Order'
    BY <1>1, QuietMoves, Shifts DEF EscalationInv
  <1>3. PICK d \in Decision : d = Arg
    BY <1>1, StepFacts
  <1>4. /\ request[d.req] # "none" /\ d.by \in eligible[d.req] \ {Requester}
        /\ \A e \in decisions : ~ (e.req = d.req /\ e.by = d.by)
        /\ d.verdict = "reject" => RejectionOwed(d.req)
    BY <1>1, <1>3 DEF SoundAt
  <1>5. Types'
    <2>1. decisions' \subseteq Decision
      BY <1>1, <1>3 DEF EscalationInv, Types, TypeOK
    <2>2. IsFiniteSet(decisions')
      <3>1. IsFiniteSet(decisions)
        BY DEF EscalationInv, Types
      <3> QED BY <1>1, <3>1, FS_AddElement
    <2> QED BY <1>1, <1>2, <2>1, <2>2 DEF EscalationInv, Types, TypeOK, Moving, Quiet
  <1>6. DecisionsSound'
    BY <1>1, <1>3, <1>4 DEF EscalationInv, DecisionsSound
  <1>7. RejectionsKept'
    <2>1. \A q : RejectionOwed(q) => RejectionOwed(q)'
      BY <1>1, StillOwed
    <2> QED BY <1>1, <1>3, <1>4, <2>1 DEF EscalationInv, RejectionsKept, Quiet
  <1>8. KeysOnce' /\ RunsSound'
    <2>1. UNCHANGED <<contexts, resumes, runs>>
      BY <1>1 DEF Quiet
    <2> QED BY <2>1, ResumesKept DEF EscalationInv, KeysOnce, RunsSound
  <1>9. StepsOwed'
    <2>1. ASSUME NEW i \in DOMAIN op' PROVE SoundAt(i)'
      <3>1. i + 1 \in DOMAIN op /\ op'[i] = op[i + 1] /\ SoundAt(i + 1) /\ i + 1 > 1
        BY <1>1, Follows
      <3>2. op'[i].do \in {"grant", "queue", "requests"}
        BY <1>1, <3>1, Behind DEF EscalationInv
      <3>3. op'[i].do = "queue" => mandates # <<>> \/ \E j \in DOMAIN op' : op'[j].do = "grant"
        <4>1. ASSUME NEW j \in DOMAIN op, op[j].do = "grant"
              PROVE  \E m \in DOMAIN op' : op'[m].do = "grant"
          <5>1. j \in Nat /\ j >= 1 /\ j # 1
            BY <1>1, <4>1, OpFacts DEF EscalationInv
          <5>2. j > 1
            BY <5>1
          <5>3. j - 1 \in DOMAIN op' /\ op'[j - 1] = op[j]
            BY <1>1, <5>2, Shifts DEF EscalationInv
          <5> QED BY <4>1, <5>3
        <4> QED BY <3>1, <4>1 DEF SoundAt
      <3>4. op'[i].do \in {"grant", "queue"} => \E q \in Requests : op'[i].reqs = {q}
        BY <3>1 DEF SoundAt
      <3>5. op'[i].do = "requests" /\ op'[i].arg # "rejected" => \A q \in op'[i].reqs : request[q] \in Open
        BY <3>1 DEF SoundAt
      <3> QED BY <1>1, <3>2, <3>3, <3>4, <3>5 DEF SoundAt
    <2> QED BY <2>1 DEF StepsOwed
  <1> QED BY <1>2, <1>5, <1>6, <1>7, <1>8, <1>9 DEF EscalationInv

\* What was rejected is written, and nothing else over it.
LEMMA WriteRequestsStep ==
    ASSUME EscalationInv, Quiet, WriteRequests
    PROVE  EscalationInv'
  <1>1. /\ op # <<>> /\ op[1].do = "requests" /\ Reqs = op[1].reqs /\ Arg = op[1].arg
        /\ SoundAt(1) /\ op[1] \in Owed /\ op' = Tail(op)
        /\ request' = [q \in Requests |-> IF q \in Reqs THEN Arg ELSE request[q]]
        /\ UNCHANGED <<eligible, contexts, decisions, mandates, resumes, cred, faults>>
    BY HeadSound DEF WriteRequests, Doing, Done, Reqs, Arg
  <1>2. Moving' /\ TurnSound' /\ op' \in Seq(Owed) /\ Order'
    BY <1>1, QuietMoves, Shifts DEF EscalationInv
  <1>3. Arg \in {"approved"} \cup Closed
    BY <1>1, StepFacts
  <1>4. Types'
    <2>1. request' \in [Requests -> {"none"} \cup Open \cup Closed]
      BY <1>1, <1>3 DEF EscalationInv, Types, TypeOK, Open
    <2> QED BY <1>1, <1>2, <2>1 DEF EscalationInv, Types, TypeOK, Moving, Quiet
  <1>5. \A d \in decisions : d.req \in Requests
    BY DEF EscalationInv, Types, TypeOK, Decision
  <1>6. DecisionsSound'
    <2>1. \A d \in decisions : request'[d.req] # "none"
      BY <1>1, <1>3, <1>5 DEF EscalationInv, DecisionsSound, Closed
    <2> QED BY <1>1, <2>1 DEF EscalationInv, DecisionsSound
  <1>7. RejectionsKept'
    <2>1. ASSUME faults + stops = 0, NEW d \in decisions, d.verdict = "reject"
          PROVE  request'[d.req] = "rejected"
      <3>1. d.req \in Requests /\ (request[d.req] = "rejected" \/ RejectionOwed(d.req))
        BY <1>5, <2>1 DEF EscalationInv, RejectionsKept
      <3>2. CASE request[d.req] = "rejected"
        <4>1. d.req \in Reqs => Arg = "rejected"
          BY <1>1, <3>2 DEF SoundAt, Open
        <4> QED BY <1>1, <3>1, <3>2, <4>1
      <3>3. CASE RejectionOwed(d.req)
        <4>1. PICK i \in DOMAIN op : op[i].do = "requests" /\ op[i].arg = "rejected" /\ d.req \in op[i].reqs
          BY <3>3 DEF RejectionOwed
        <4>2. ~ (i > 1)
          BY <1>1, <4>1, Behind DEF EscalationInv
        <4>3. i = 1
          BY <4>2, OpFacts DEF EscalationInv
        <4> QED BY <1>1, <3>1, <4>1, <4>3
      <3> QED BY <3>1, <3>2, <3>3
    <2> QED BY <1>1, <2>1 DEF RejectionsKept, Quiet
  <1>8. KeysOnce' /\ RunsSound'
    <2>1. UNCHANGED <<contexts, resumes, runs>>
      BY <1>1 DEF Quiet
    <2> QED BY <2>1, ResumesKept DEF EscalationInv, KeysOnce, RunsSound
  <1>9. StepsOwed'
    <2>1. ASSUME NEW i \in DOMAIN op' PROVE SoundAt(i)'
      <3>1. i + 1 \in DOMAIN op /\ op'[i] = op[i + 1] /\ i + 1 > 1
        BY <1>1, Follows
      <3>2. op'[i].do \in {"mandates", "resumes"}
        BY <1>1, <3>1, Behind DEF EscalationInv
      <3> QED BY <3>2 DEF SoundAt
    <2> QED BY <2>1 DEF StepsOwed
  <1> QED BY <1>2, <1>4, <1>6, <1>7, <1>8, <1>9 DEF EscalationInv

\* A step that leaves the requests, the decisions and the resumes alone.
LEMMA MandatesMove ==
    ASSUME EscalationInv, Quiet, op' = Tail(op), op[1].do \in {"grant", "mandates", "consume"},
           UNCHANGED <<request, eligible, contexts, decisions, resumes>>,
           mandates' \in Seq(Mandate), Len(mandates') >= Len(mandates),
           op[1].do = "grant" => mandates' # <<>>
    PROVE  EscalationInv'
  <1>1. op # <<>> /\ Moving' /\ TurnSound' /\ op' \in Seq(Owed) /\ Order'
    BY QuietMoves, Shifts DEF EscalationInv, Quiet
  <1>2. Types'
    <2>1. /\ mandates \in Seq(Mandate) /\ \A i \in DOMAIN resumes : resumes[i].mandate \in DOMAIN mandates
      BY DEF EscalationInv, Types, TypeOK
    <2>2. \A i \in DOMAIN resumes : resumes[i].mandate \in DOMAIN mandates'
      BY <2>1
    <2> QED BY <1>1, <2>2 DEF EscalationInv, Types, TypeOK, Moving, Quiet
  <1>3. DecisionsSound' /\ KeysOnce'
    BY DEF EscalationInv, DecisionsSound, KeysOnce
  <1>4. RunsSound'
    BY ResumesKept DEF EscalationInv, RunsSound, Quiet
  <1>5. RejectionsKept'
    <2>1. \A q : RejectionOwed(q) => RejectionOwed(q)'
      BY <1>1, StillOwed
    <2> QED BY <1>1, <2>1, RejectionsStay DEF Quiet
  <1>6. StepsOwed'
    <2>1. ASSUME NEW i \in DOMAIN op' PROVE SoundAt(i)'
      <3>1. i + 1 \in DOMAIN op /\ op'[i] = op[i + 1] /\ SoundAt(i + 1) /\ i + 1 > 1
        BY <1>1, Follows
      <3>2. /\ op'[i].do \in {"queue", "requests", "resumes", "record"}
            /\ op'[i].do = "queue" => op[1].do = "grant"
        BY <3>1, Behind DEF EscalationInv
      <3>3. op'[i].do = "queue" => mandates' # <<>> /\ \E q \in Requests : op'[i].reqs = {q}
        BY <3>1, <3>2 DEF SoundAt
      <3>4. op'[i].do = "requests" /\ op'[i].arg # "rejected" => \A q \in op'[i].reqs : request[q] \in Open
        BY <3>1 DEF SoundAt
      <3>5. op'[i].do = "record" => \E q \in Requests : op'[i].reqs = {q} /\ ResumesOf(q)' # {}
        BY <3>1, ResumesKept DEF SoundAt
      <3> QED BY <3>2, <3>3, <3>4, <3>5 DEF SoundAt
    <2> QED BY <2>1 DEF StepsOwed
  <1> QED BY <1>1, <1>2, <1>3, <1>4, <1>5, <1>6 DEF EscalationInv

LEMMA WriteMandatesStep ==
    ASSUME EscalationInv, Quiet, WriteMandates
    PROVE  EscalationInv'
  <1>1. /\ op # <<>> /\ Head(op) = op[1] /\ Reqs = op[1].reqs /\ Arg = op[1].arg /\ SoundAt(1)
        /\ op[1] \in Owed /\ op' = Tail(op)
        /\ UNCHANGED <<request, eligible, contexts, decisions, resumes>>
    BY HeadSound DEF WriteMandates, Done, Reqs, Arg, Quiet
  <1>2. mandates \in Seq(Mandate)
    BY DEF EscalationInv, Types, TypeOK
  <1>3. CASE /\ op[1].do = "grant"
             /\ mandates' = Append(mandates, [req |-> CHOOSE q \in Reqs : TRUE, status |-> Arg])
    <2>1. \E q \in Requests : Reqs = {q}
      BY <1>1, <1>3 DEF SoundAt
    <2>2. (CHOOSE q \in Reqs : TRUE) \in Requests /\ Arg = "active"
      BY <1>1, <1>3, <2>1, StepFacts
    <2>3. [req |-> CHOOSE q \in Reqs : TRUE, status |-> Arg] \in Mandate
      BY <2>2 DEF Mandate
    <2>4. /\ mandates' \in Seq(Mandate) /\ Len(mandates') >= Len(mandates) /\ mandates' # <<>>
      BY <1>2, <1>3, <2>3
    <2> QED BY <1>1, <1>3, <2>4, MandatesMove
  <1>4. CASE /\ op[1].do = "mandates"
             /\ mandates' = [i \in DOMAIN mandates |->
                   IF mandates[i].req \in Reqs /\ mandates[i].status = "active"
                   THEN [mandates[i] EXCEPT !.status = Arg] ELSE mandates[i]]
    <2>1. Arg = "ended"
      BY <1>1, <1>4, StepFacts
    <2>2. ASSUME NEW i \in DOMAIN mandates PROVE mandates'[i] \in Mandate
      <3>1. mandates[i] \in Mandate
        BY <1>2
      <3> QED BY <1>4, <2>1, <3>1 DEF Mandate
    <2>3. Len(mandates) \in Nat /\ DOMAIN mandates = 1..Len(mandates)
      BY <1>2
    <2>4. mandates' \in [1..Len(mandates) -> Mandate]
      BY <1>4, <2>2, <2>3
    <2>5. mandates' \in Seq(Mandate) /\ Len(mandates') = Len(mandates)
      BY <2>3, <2>4, SeqDef
    <2> QED BY <1>1, <1>4, <2>3, <2>5, MandatesMove
  <1>5. CASE op[1].do = "consume" /\ mandates' = [mandates EXCEPT ![Arg].status = "consumed"]
    <2>1. Len(mandates) \in Nat /\ DOMAIN mandates = 1..Len(mandates)
      BY <1>2
    <2>2. ASSUME NEW i \in DOMAIN mandates PROVE mandates'[i] \in Mandate
      <3>1. mandates[i] \in Mandate
        BY <1>2
      <3>2. mandates'[i] \in {mandates[i], [mandates[i] EXCEPT !.status = "consumed"]}
        BY <1>5
      <3> QED BY <3>1, <3>2 DEF Mandate
    <2>3. mandates' \in [1..Len(mandates) -> Mandate]
      BY <1>5, <2>1, <2>2
    <2>4. mandates' \in Seq(Mandate) /\ Len(mandates') = Len(mandates)
      BY <2>1, <2>3, SeqDef
    <2> QED BY <1>1, <1>5, <2>1, <2>4, MandatesMove
  <1>6. \/ /\ op[1].do = "grant"
           /\ mandates' = Append(mandates, [req |-> CHOOSE q \in Reqs : TRUE, status |-> Arg])
        \/ /\ op[1].do = "mandates"
           /\ mandates' = [i \in DOMAIN mandates |->
                 IF mandates[i].req \in Reqs /\ mandates[i].status = "active"
                 THEN [mandates[i] EXCEPT !.status = Arg] ELSE mandates[i]]
        \/ op[1].do = "consume" /\ mandates' = [mandates EXCEPT ![Arg].status = "consumed"]
    BY <1>1 DEF WriteMandates, Doing
  <1> QED BY <1>3, <1>4, <1>5, <1>6

\* Changes of status leave every resume where it is.
LEMMA ResumesMarked ==
    ASSUME resumes \in Seq(Resume), DOMAIN resumes' = DOMAIN resumes,
           \A i \in DOMAIN resumes : resumes'[i].req = resumes[i].req
    PROVE  \A q : ResumesOf(q)' = ResumesOf(q) /\ ResumeOf(q)' = ResumeOf(q)
  <1>1. \A q : ResumesOf(q)' = ResumesOf(q)
    BY DEF ResumesOf
  <1> QED BY <1>1 DEF ResumeOf

LEMMA NoneReadied ==
    ASSUME resumes \in Seq(Resume), DOMAIN resumes' = DOMAIN resumes, NEW q,
           \A i \in DOMAIN resumes : /\ resumes'[i].req = resumes[i].req
                                     /\ resumes'[i].status = "ready" => resumes[i].status = "ready"
    PROVE  FirstReady(q)' => FirstReady(q)
  <1>1. ResumesOf(q)' = ResumesOf(q) /\ ResumeOf(q)' = ResumeOf(q)
    BY ResumesMarked
  <1>2. ResumesOf(q) # {} => ResumeOf(q) \in DOMAIN resumes
    BY FirstResume
  <1> QED BY <1>1, <1>2 DEF FirstReady

\* A new resume is not the first, unless it is the only one.
LEMMA StaysFirst ==
    ASSUME NEW S, NEW T, S \subseteq T, T \subseteq Nat, NEW m \in S, \A j \in T : m <= j
    PROVE  (CHOOSE i \in T : \A j \in T : i <= j) = m
  <1>1. m \in T
    OBVIOUS
  <1>2. \E i \in T : \A j \in T : i <= j
    BY <1>1
  <1> DEFINE c == CHOOSE i \in T : \A j \in T : i <= j
  <1>3. c \in T /\ \A j \in T : c <= j
    BY <1>2
  <1> HIDE DEF c
  <1>4. c <= m /\ m <= c /\ c \in Nat /\ m \in Nat
    BY <1>1, <1>3
  <1>5. c = m
    BY <1>4
  <1> QED BY <1>5 DEF c

\* The resumes keep their places, and none of them is made ready.
Marked ==
    /\ resumes' \in Seq(Resume) /\ DOMAIN resumes' = DOMAIN resumes
    /\ \A i \in DOMAIN resumes :
          /\ resumes'[i].req = resumes[i].req /\ resumes'[i].mandate = resumes[i].mandate
          /\ resumes'[i].status = "ready" => resumes[i].status = "ready"

LEMMA EachMarked ==
    ASSUME resumes \in Seq(Resume), resumes' = [i \in DOMAIN resumes |-> resumes'[i]],
           \A i \in DOMAIN resumes :
              \/ resumes'[i] = resumes[i]
              \/ \E st \in {"executing", "completed", "failed", "invalidated"} :
                    resumes'[i] = [resumes[i] EXCEPT !.status = st]
    PROVE  Marked
  <1>1. Len(resumes) \in Nat /\ DOMAIN resumes = 1..Len(resumes)
    OBVIOUS
  <1>2. DOMAIN resumes' = DOMAIN resumes
    OBVIOUS
  <1>3. ASSUME NEW i \in DOMAIN resumes
        PROVE  /\ resumes'[i] \in Resume /\ resumes'[i].req = resumes[i].req
               /\ resumes'[i].mandate = resumes[i].mandate
               /\ resumes'[i].status = "ready" => resumes[i].status = "ready"
    <2>1. resumes[i] \in Resume
      OBVIOUS
    <2>2. CASE resumes'[i] = resumes[i]
      BY <2>1, <2>2
    <2>3. ASSUME NEW st \in {"executing", "completed", "failed", "invalidated"},
                 resumes'[i] = [resumes[i] EXCEPT !.status = st]
          PROVE  /\ resumes'[i] \in Resume /\ resumes'[i].req = resumes[i].req
                 /\ resumes'[i].mandate = resumes[i].mandate /\ resumes'[i].status # "ready"
      BY <2>1, <2>3 DEF Resume
    <2> QED BY <2>2, <2>3
  <1>4. resumes' \in [1..Len(resumes) -> Resume]
    BY <1>1, <1>3
  <1>5. resumes' \in Seq(Resume)
    BY <1>1, <1>4, SeqDef
  <1> QED BY <1>2, <1>3, <1>5 DEF Marked

LEMMA ResumesMove ==
    ASSUME EscalationInv, Quiet, op' = Tail(op), Marked,
           op[1].do \in {"resumes", "complete", "fail", "begin"},
           UNCHANGED <<request, eligible, contexts, decisions, mandates>>
    PROVE  /\ Types' /\ Order' /\ DecisionsSound' /\ RejectionsKept' /\ KeysOnce' /\ RunsSound'
           /\ TurnSound'
           /\ \A q : ResumesOf(q)' = ResumesOf(q) /\ ResumeOf(q)' = ResumeOf(q)
  <1>1. op # <<>> /\ Moving' /\ TurnSound' /\ op' \in Seq(Owed) /\ Order'
    BY QuietMoves, Shifts DEF EscalationInv, Quiet
  <1>2. resumes \in Seq(Resume)
    BY DEF EscalationInv, Types, TypeOK
  <1>3. Types'
    BY <1>1 DEF EscalationInv, Types, TypeOK, Moving, Quiet, Marked
  <1>4. DecisionsSound' /\ KeysOnce'
    BY DEF EscalationInv, DecisionsSound, KeysOnce
  <1>5. \A q : ResumesOf(q)' = ResumesOf(q) /\ ResumeOf(q)' = ResumeOf(q)
    BY <1>2, ResumesMarked DEF Marked
  <1>6. \A q : FirstReady(q)' => FirstReady(q)
    BY <1>2, NoneReadied DEF Marked
  <1>7. RunsSound'
    BY <1>5, <1>6 DEF EscalationInv, RunsSound, Quiet
  <1>8. RejectionsKept'
    BY <1>1, RejectionsStay, NoRejection DEF Quiet
  <1> QED BY <1>1, <1>3, <1>4, <1>5, <1>7, <1>8

LEMMA MarkStep ==
    ASSUME EscalationInv, Quiet, op' = Tail(op), Marked,
           op[1].do \in {"resumes", "complete", "fail"},
           UNCHANGED <<request, eligible, contexts, decisions, mandates>>
    PROVE  EscalationInv'
  <1>1. op # <<>>
    BY DEF Quiet
  <1>2. ASSUME NEW i \in DOMAIN op' PROVE SoundAt(i)'
    <2>1. i + 1 \in DOMAIN op /\ op'[i] = op[i + 1] /\ SoundAt(i + 1) /\ i + 1 > 1
      BY <1>1, Follows
    <2>2. op'[i].do \in {"consume", "record"}
      BY <2>1, Behind DEF EscalationInv
    <2>3. \E q \in Requests : op'[i].reqs = {q} /\ ResumesOf(q)' # {}
      BY <2>1, <2>2, ResumesMove DEF SoundAt
    <2> QED BY <2>2, <2>3 DEF SoundAt
  <1>3. StepsOwed'
    BY <1>2 DEF StepsOwed
  <1> QED BY <1>3, ResumesMove DEF EscalationInv

\* The first resume of a request is queued with the mandate granted before it.
LEMMA QueueStep ==
    ASSUME EscalationInv, Quiet, op' = Tail(op), op[1].do = "queue",
           resumes' = Append(resumes, [req |-> CHOOSE q \in op[1].reqs : TRUE,
                                       mandate |-> Len(mandates), status |-> "ready"]),
           UNCHANGED <<request, eligible, contexts, decisions, mandates>>
    PROVE  EscalationInv'
  <1>1. op # <<>> /\ Moving' /\ TurnSound' /\ op' \in Seq(Owed) /\ Order' /\ SoundAt(1)
    BY QuietMoves, Shifts, HeadSound DEF EscalationInv, Quiet
  <1>2. PICK p \in Requests : op[1].reqs = {p}
    BY <1>1 DEF SoundAt
  <1>3. /\ resumes \in Seq(Resume) /\ mandates \in Seq(Mandate)
        /\ \A i \in DOMAIN resumes : resumes[i].mandate \in DOMAIN mandates
    BY DEF EscalationInv, Types, TypeOK
  <1>4. mandates # <<>>
    <2>1. ASSUME NEW j \in DOMAIN op, op[j].do = "grant" PROVE FALSE
      <3>1. j # 1 /\ j \in Nat /\ j >= 1
        BY <2>1, OpFacts DEF EscalationInv
      <3>2. j > 1
        BY <3>1
      <3> QED BY <2>1, <3>2, Behind DEF EscalationInv
    <2> QED BY <1>1, <2>1 DEF SoundAt
  <1> DEFINE r == [req |-> p, mandate |-> Len(mandates), status |-> "ready"]
  <1>5. Len(mandates) \in DOMAIN mandates /\ Len(mandates) \in Nat \ {0}
    BY <1>3, <1>4
  <1>6. r \in Resume /\ r.req = p /\ r.mandate = Len(mandates) /\ resumes' = Append(resumes, r)
    BY <1>2, <1>5 DEF Resume
  <1> HIDE DEF r
  <1>7. /\ resumes' \in Seq(Resume) /\ Len(resumes) \in Nat /\ DOMAIN resumes = 1..Len(resumes)
        /\ DOMAIN resumes' = 1..(Len(resumes) + 1) /\ resumes'[Len(resumes) + 1] = r
        /\ \A i \in DOMAIN resumes : i \in DOMAIN resumes' /\ resumes'[i] = resumes[i]
    BY <1>3, <1>6
  <1>8. Types'
    <2>1. \A i \in DOMAIN resumes' : resumes'[i].mandate \in DOMAIN mandates
      <3>1. \A i \in DOMAIN resumes' : i \in DOMAIN resumes \/ i = Len(resumes) + 1
        BY <1>7
      <3> QED BY <1>3, <1>5, <1>6, <1>7, <3>1
    <2> QED BY <1>1, <1>7, <2>1 DEF EscalationInv, Types, TypeOK, Moving, Quiet
  <1>9. DecisionsSound' /\ KeysOnce'
    BY DEF EscalationInv, DecisionsSound, KeysOnce
  <1>10. RejectionsKept'
    <2>1. \A q : RejectionOwed(q) => RejectionOwed(q)'
      BY <1>1, StillOwed
    <2> QED BY <1>1, <2>1, RejectionsStay DEF Quiet
  <1>11. ASSUME NEW q, ResumesOf(q) # {}
         PROVE  /\ ResumesOf(q)' # {} /\ ResumeOf(q)' = ResumeOf(q)
                /\ FirstReady(q)' <=> FirstReady(q)
    <2>1. /\ ResumeOf(q) \in ResumesOf(q) /\ ResumeOf(q) \in DOMAIN resumes
          /\ \A j \in ResumesOf(q) : ResumeOf(q) <= j
      BY <1>3, <1>11, FirstResume
    <2>2. /\ ResumesOf(q) \subseteq ResumesOf(q)' /\ ResumesOf(q)' \subseteq Nat
          /\ \A j \in ResumesOf(q)' : j \in ResumesOf(q) \/ j = Len(resumes) + 1
      BY <1>7 DEF ResumesOf
    <2>3. \A j \in ResumesOf(q)' : ResumeOf(q) <= j
      <3>1. ResumeOf(q) <= Len(resumes) + 1
        BY <1>7, <2>1
      <3> QED BY <2>1, <2>2, <3>1
    <2>4. PICK S : S = ResumesOf(q)
      OBVIOUS
    <2>5. PICK T : T = ResumesOf(q)'
      OBVIOUS
    <2>6. PICK m \in S : m = ResumeOf(q)
      BY <2>1, <2>4
    <2>7. (CHOOSE i \in T : \A j \in T : i <= j) = m
      <3>1. S \subseteq T /\ T \subseteq Nat /\ \A j \in T : m <= j
        BY <2>2, <2>3, <2>4, <2>5, <2>6
      <3> QED BY <3>1, StaysFirst
    <2>8. ResumeOf(q)' = m
      BY <2>5, <2>7 DEF ResumeOf
    <2>9. resumes'[m] = resumes[m]
      BY <1>7, <2>1, <2>6
    <2> QED BY <1>11, <2>2, <2>6, <2>8, <2>9 DEF FirstReady
  <1>12. RunsSound'
    BY <1>11 DEF EscalationInv, RunsSound, Quiet
  <1>13. StepsOwed'
    <2>1. ASSUME NEW i \in DOMAIN op' PROVE SoundAt(i)'
      <3>1. i + 1 \in DOMAIN op /\ op'[i] = op[i + 1] /\ SoundAt(i + 1) /\ i + 1 > 1
        BY <1>1, Follows
      <3>2. op'[i].do = "requests"
        BY <3>1, Behind DEF EscalationInv
      <3>3. op'[i].arg # "rejected" => \A q \in op'[i].reqs : request'[q] \in Open
        BY <3>1, <3>2 DEF SoundAt
      <3> QED BY <3>2, <3>3 DEF SoundAt
    <2> QED BY <2>1 DEF StepsOwed
  <1> QED BY <1>1, <1>8, <1>9, <1>10, <1>12, <1>13 DEF EscalationInv

LEMMA WriteResumesStep ==
    ASSUME EscalationInv, Quiet, WriteResumes
    PROVE  EscalationInv'
  <1>1. /\ op # <<>> /\ Head(op) = op[1] /\ Reqs = op[1].reqs /\ Arg = op[1].arg
        /\ op[1] \in Owed /\ op' = Tail(op)
        /\ UNCHANGED <<request, eligible, contexts, decisions, mandates>>
    BY HeadSound DEF WriteResumes, Done, Reqs, Arg, Quiet
  <1>2. resumes \in Seq(Resume)
    BY DEF EscalationInv, Types, TypeOK
  <1>3. CASE /\ op[1].do = "queue"
             /\ resumes' = Append(resumes, [req |-> CHOOSE q \in Reqs : TRUE,
                                            mandate |-> Len(mandates), status |-> Arg])
    <2>1. Arg = "ready"
      BY <1>1, <1>3, StepFacts
    <2> QED BY <1>1, <1>3, <2>1, QueueStep
  <1>4. CASE /\ op[1].do = "resumes"
             /\ resumes' = [i \in DOMAIN resumes |->
                   IF resumes[i].req \in Reqs /\ resumes[i].status = "ready"
                   THEN [resumes[i] EXCEPT !.status = Arg] ELSE resumes[i]]
    <2>1. Arg = "invalidated"
      BY <1>1, <1>4, StepFacts
    <2>2. Marked
      BY <1>2, <1>4, <2>1, EachMarked
    <2> QED BY <1>1, <1>4, <2>2, MarkStep
  <1>5. CASE op[1].do = "complete" /\ resumes' = [resumes EXCEPT ![Arg].status = "completed"]
    <2>1. Marked
      BY <1>2, <1>5, EachMarked
    <2> QED BY <1>1, <1>5, <2>1, MarkStep
  <1>6. CASE op[1].do = "fail" /\ resumes' = [resumes EXCEPT ![Arg].status = "failed"]
    <2>1. Marked
      BY <1>2, <1>6, EachMarked
    <2> QED BY <1>1, <1>6, <2>1, MarkStep
  <1>7. \/ /\ op[1].do = "queue"
           /\ resumes' = Append(resumes, [req |-> CHOOSE q \in Reqs : TRUE,
                                          mandate |-> Len(mandates), status |-> Arg])
        \/ /\ op[1].do = "resumes"
           /\ resumes' = [i \in DOMAIN resumes |->
                 IF resumes[i].req \in Reqs /\ resumes[i].status = "ready"
                 THEN [resumes[i] EXCEPT !.status = Arg] ELSE resumes[i]]
        \/ op[1].do = "complete" /\ resumes' = [resumes EXCEPT ![Arg].status = "completed"]
        \/ op[1].do = "fail" /\ resumes' = [resumes EXCEPT ![Arg].status = "failed"]
    BY <1>1 DEF WriteResumes, Doing
  <1> QED BY <1>3, <1>4, <1>5, <1>6, <1>7

\* The resume is executing before the executor can be called: once.
LEMMA BeginStep ==
    ASSUME EscalationInv, Quiet, Begin
    PROVE  EscalationInv'
  <1>1. /\ op # <<>> /\ op[1].do = "begin" /\ Arg = op[1].arg /\ SoundAt(1) /\ op[1] \in Owed
        /\ UNCHANGED <<request, eligible, contexts, decisions, mandates, cred, faults>>
        /\ \/ op' = <<>> /\ UNCHANGED resumes
           \/ op' = Tail(op) /\ resumes' = [resumes EXCEPT ![Arg].status = "executing"]
    BY HeadSound DEF Begin, Doing, Done, Arg
  <1>2. Moving' /\ TurnSound'
    BY QuietMoves
  <1>3. CASE op' = <<>> /\ UNCHANGED resumes
    <2>1. UNCHANGED <<files, runs>>
      BY <1>1, <1>3 DEF files, Quiet
    <2>2. RejectionsKept'
      BY <1>1, <1>2, RejectionsStay, NoRejection DEF Quiet
    <2> QED BY <1>2, <1>3, <2>1, <2>2, Rests, Begins
  <1>4. CASE op' = Tail(op) /\ resumes' = [resumes EXCEPT ![Arg].status = "executing"]
    <2>1. resumes \in Seq(Resume)
      BY DEF EscalationInv, Types, TypeOK
    <2>2. Marked
      BY <1>4, <2>1, EachMarked
    <2>3. \A q : ResumesOf(q)' = ResumesOf(q) /\ ResumeOf(q)' = ResumeOf(q)
      BY <1>1, <1>4, <2>2, ResumesMove
    <2>4. PICK p \in Requests : op[1].reqs = {p} /\ Resumable(p, op[1].arg)
      BY <1>1 DEF SoundAt
    <2>5. ~ FirstReady(p)'
      <3>1. ResumeOf(p) \in DOMAIN resumes /\ Arg = ResumeOf(p)
        BY <1>1, <2>1, <2>4, FirstResume DEF Resumable
      <3>2. PICK m \in DOMAIN resumes : m = ResumeOf(p)
        BY <3>1
      <3>3. resumes'[m] = [resumes[m] EXCEPT !.status = "executing"] /\ resumes[m] \in Resume
        BY <1>4, <2>1, <3>1, <3>2
      <3>4. resumes'[ResumeOf(p)].status = "executing"
        BY <3>2, <3>3 DEF Resume
      <3> QED BY <2>3, <3>4 DEF FirstReady
    <2>6. ASSUME NEW i \in DOMAIN op' PROVE SoundAt(i)'
      <3>1. /\ i \in Nat /\ i >= 1 /\ i + 1 \in DOMAIN op /\ op'[i] = op[i + 1] /\ SoundAt(i + 1)
            /\ i + 1 > 1 /\ (i + 1) - 1 = i /\ op[i + 1].reqs = {p}
        BY <1>1, <1>4, <2>4, Follows
      <3>2. op'[i].do \in {"execute", "complete", "consume", "record"}
        BY <1>1, <3>1, Behind DEF EscalationInv
      <3>3. op'[i].do # "execute" => \E q \in Requests : op'[i].reqs = {q} /\ ResumesOf(q)' # {}
        BY <2>3, <3>1, <3>2 DEF SoundAt
      <3>4. ASSUME op'[i].do = "execute"
            PROVE  /\ i = 1 /\ runs'[p] = 0 /\ Resumable(p, op[i].arg)' /\ ~ FirstReady(p)'
        <4>1. op[i].do = "begin" /\ Resumable(p, op[i + 1].arg) /\ runs[p] = 0
          BY <3>1, <3>4 DEF SoundAt, Quiet, Launching
        <4>2. ~ (i > 1)
          <5>1. i \in DOMAIN op
            BY <3>1, OpFacts DEF EscalationInv
          <5> QED BY <1>1, <4>1, <5>1, Behind DEF EscalationInv
        <4>3. OnQuorum(p)' <=> OnQuorum(p)
          BY <1>1 DEF OnQuorum, Approvals, Decisions
        <4>4. Resumable(p, op[i].arg)'
          BY <1>1, <2>3, <3>1, <4>1, <4>3 DEF Resumable
        <4> QED BY <2>5, <3>1, <4>1, <4>2, <4>4 DEF Quiet
      <3>5. op'[i].do = "execute" =>
               \E q \in Requests : /\ op'[i].reqs = {q} /\ Resumable(q, op[i].arg)'
                                   /\ i = 1 => ~ FirstReady(q)'
                                   /\ i > 1 => op'[i - 1].do = "begin"
                                   /\ runs'[q] = 0
        <4>1. op'[i].reqs = {p} /\ ~ (1 > 1)
          BY <3>1
        <4> QED BY <3>4, <4>1
      <3> QED BY <3>2, <3>3, <3>5 DEF SoundAt
    <2>7. StepsOwed'
      BY <2>6 DEF StepsOwed
    <2> QED BY <1>1, <1>4, <2>2, <2>7, ResumesMove DEF EscalationInv
  <1> QED BY <1>1, <1>3, <1>4

LEMMA StepStep ==
    ASSUME EscalationInv, Step
    PROVE  EscalationInv'
  <1>1. /\ up /\ UNCHANGED <<up, phase, runs, stops>>
        /\ turn' = IF Mine /\ Doing("context") THEN [turn EXCEPT !.at = "asked"] ELSE turn
        /\ \/ Check \/ Route \/ Frame \/ Sign \/ WriteRequests \/ WriteMandates \/ WriteResumes
           \/ Begin \/ RecordResume
    BY DEF Step
  <1>2. UNCHANGED <<cred, faults>> /\ op # <<>> /\ Head(op).do # "execute"
    <2>1. CASE Check \/ Route \/ Frame \/ Sign
      BY <2>1 DEF Check, Route, Frame, Sign, Doing
    <2>2. CASE WriteRequests \/ WriteMandates
      BY <2>2 DEF WriteRequests, WriteMandates, Doing
    <2>3. CASE WriteResumes \/ Begin \/ RecordResume
      BY <2>3 DEF WriteResumes, Begin, RecordResume, Doing
    <2> QED BY <1>1, <2>1, <2>2, <2>3
  <1>3. ~ Launching
    BY <1>2, HeadSound DEF EscalationInv, TurnSound
  <1>4. turn \in Turn
    BY DEF EscalationInv, Types, TypeOK
  <1>5. turn' \in Turn /\ ~ Launching'
    <2>1. CASE turn' = turn
      BY <1>3, <1>4, <2>1 DEF Launching
    <2>2. CASE turn.at = "routing" /\ turn' = [turn EXCEPT !.at = "asked"]
      BY <1>4, <2>2 DEF Turn, Launching
    <2>3. Mine => turn.at = "routing"
      BY DEF Mine, At
    <2> QED BY <1>1, <2>1, <2>2, <2>3
  <1>6. Quiet
    BY <1>1, <1>2, <1>3, <1>5 DEF Quiet
  <1> QED BY <1>1, <1>6, CheckStep, RouteStep, FrameStep, SignStep, WriteRequestsStep,
             WriteMandatesStep, WriteResumesStep, BeginStep, RecordStep

-----------------------------------------------------------------------------
(* The coordinator's own steps.                                             *)

LEMMA Reconciles ==
    ASSUME phase \in Phase
    PROVE  Reconciled \in Phase
  <1> DEFINE primary == StatusOf(phase.approval)
             rejection == StatusOf(phase.rejection)
  <1>1. \/ Reconciled = phase
        \/ Reconciled = [phase EXCEPT !.status = "completed-with-rejection"]
        \/ Reconciled = [phase EXCEPT !.status = "completed", !.rejection = None]
        \/ Reconciled = [phase EXCEPT !.status = "ready", !.approval = None]
        \/ Reconciled = [phase EXCEPT !.status = "approved"]
    BY DEF Reconciled
  <1> QED BY <1>1 DEF Phase, Status

LEMMA Turns ==
    ASSUME EscalationInv, UNCHANGED <<files, op, runs>>, Moving', TurnSound',
           turn.at \in {"launched", "waiting"} => turn'.at \in {"launched", "waiting"},
           faults' + stops' = 0 => faults + stops = 0
    PROVE  EscalationInv'
  <1>1. op' \in Seq(Owed) /\ Order'
    BY DEF EscalationInv, Types, Order
  <1>2. StepsOwed'
    <2>1. ASSUME NEW i \in DOMAIN op' PROVE SoundAt(i)'
      BY SoundKept DEF EscalationInv, StepsOwed
    <2> QED BY <2>1 DEF StepsOwed
  <1>3. RejectionsKept'
    <2>1. \A q : RejectionOwed(q) => RejectionOwed(q)'
      BY DEF RejectionOwed
    <2> QED BY <2>1, RejectionsStay DEF files
  <1> QED BY <1>1, <1>2, <1>3, Begins

\* The turn of what is not a resume.
LEMMA OwnTurn ==
    ASSUME EscalationInv, up, UNCHANGED <<files, cred, op, runs, up, stops>>, ~ Launching, ~ Launching',
           turn' \in Turn, phase' \in Phase, faults' \in Nat, faults' + stops <= MaxTroubles,
           faults' = faults \/ faults' = faults + 1
    PROVE  EscalationInv'
  <1>1. Moving'
    BY DEF EscalationInv, Moving, Types, TypeOK
  <1>2. faults' + stops' = 0 => faults + stops = 0
    BY DEF EscalationInv, Types, TypeOK
  <1> QED BY <1>1, <1>2, Turns DEF TurnSound, Launching

LEMMA TurnStep ==
    ASSUME EscalationInv,
           Poll \/ Answer \/ LookBefore \/ NoteRequest \/ NoteFails
           \/ \E q \in Requests, k \in Keys : Start(q, k)
    PROVE  EscalationInv'
  <1>1. phase \in Phase /\ turn \in Turn /\ faults \in Nat /\ stops \in Nat /\ faults + stops <= MaxTroubles
    BY DEF EscalationInv, Types, TypeOK
  <1>2. Idle \in Turn /\ Idle.at = "idle"
    BY DEF Idle, Turn
  <1>3. CASE Poll
    <2>1. /\ up /\ turn.at = "idle" /\ turn' = [Idle EXCEPT !.at = "polling"]
          /\ UNCHANGED <<files, cred, op, faults, up, phase, runs, stops>>
      BY <1>3 DEF Poll, At, serviceVars
    <2>2. turn' \in Turn /\ ~ Launching /\ ~ Launching'
      BY <2>1 DEF Turn, Idle, Launching
    <2> QED BY <1>1, <2>1, <2>2, OwnTurn
  <1>4. CASE Answer
    <2>1. /\ up /\ turn.at = "polling" /\ turn' = Idle /\ phase' = Reconciled
          /\ UNCHANGED <<files, cred, op, faults, up, runs, stops>>
      BY <1>4 DEF Answer, At, serviceVars
    <2>2. ~ Launching /\ ~ Launching' /\ phase' \in Phase
      BY <1>1, <1>2, <2>1, Reconciles DEF Launching
    <2> QED BY <1>1, <1>2, <2>1, <2>2, OwnTurn
  <1>5. CASE LookBefore
    <2>1. /\ up /\ turn.at = "starting" /\ turn' \in {[turn EXCEPT !.at = "asking"], Idle}
          /\ phase' = Reconciled /\ UNCHANGED <<files, cred, op, faults, up, runs, stops>>
      BY <1>5 DEF LookBefore, At, serviceVars
    <2>2. turn' \in Turn /\ ~ Launching /\ ~ Launching'
      BY <1>1, <1>2, <2>1 DEF Turn, Launching
    <2>3. phase' \in Phase
      BY <1>1, <2>1, Reconciles
    <2> QED BY <1>1, <2>1, <2>2, <2>3, OwnTurn
  <1>6. CASE NoteRequest
    <2>1. /\ up /\ turn.at = "asked" /\ turn' = Idle
          /\ phase' \in {[phase EXCEPT !.status = "approval-pending", !.approval = turn.req],
                         [phase EXCEPT !.status = "rejection-pending", !.rejection = turn.req]}
          /\ UNCHANGED <<files, cred, op, faults, up, runs, stops>>
      BY <1>6 DEF NoteRequest, At, serviceVars
    <2>2. phase' \in Phase
      BY <1>1, <2>1 DEF Phase, Turn, Status
    <2>3. ~ Launching /\ ~ Launching'
      BY <1>2, <2>1 DEF Launching
    <2> QED BY <1>1, <1>2, <2>1, <2>2, <2>3, OwnTurn
  <1>7. CASE NoteFails
    <2>1. /\ up /\ turn.at = "asked" /\ turn' = Idle /\ faults' = faults + 1
          /\ faults + stops < MaxTroubles /\ UNCHANGED <<files, cred, op, up, phase, runs, stops>>
      BY <1>7 DEF NoteFails, At
    <2>2. ~ Launching /\ ~ Launching'
      BY <1>2, <2>1 DEF Launching
    <2>3. faults' \in Nat /\ faults' + stops <= MaxTroubles
      BY <1>1, <2>1, TroublesAssumption
    <2> QED BY <1>1, <1>2, <2>1, <2>2, <2>3, OwnTurn
  <1>8. ASSUME NEW q \in Requests, NEW k \in Keys, Start(q, k) PROVE EscalationInv'
    <2>1. /\ up /\ turn.at = "idle" /\ turn' = [Idle EXCEPT !.at = "starting", !.req = q, !.key = k]
          /\ UNCHANGED <<files, cred, op, faults, up, phase, runs, stops>>
      BY <1>8 DEF Start, At, serviceVars
    <2>2. turn' \in Turn /\ ~ Launching /\ ~ Launching'
      BY <2>1 DEF Turn, Idle, Launching
    <2> QED BY <1>1, <2>1, <2>2, OwnTurn
  <1> QED BY <1>3, <1>4, <1>5, <1>6, <1>7, <1>8

LEMMA AskStep ==
    ASSUME EscalationInv, Ask
    PROVE  EscalationInv'
  <1>1. /\ up /\ turn.at = "asking" /\ UNCHANGED <<up, phase, runs, stops>>
        /\ \/ Request(turn.req, turn.key) /\ turn' = [turn EXCEPT !.at = "routing"]
           \/ turn' = Idle /\ UNCHANGED <<files, cred, op, faults>>
    BY DEF Ask, At, serviceVars
  <1>2. turn \in Turn /\ phase \in Phase /\ faults \in Nat /\ faults + stops <= MaxTroubles
    BY DEF EscalationInv, Types, TypeOK
  <1>3. ~ Launching /\ Idle \in Turn /\ Idle.at = "idle"
    BY <1>1 DEF Launching, Idle, Turn
  <1>4. CASE turn' = Idle /\ UNCHANGED <<files, cred, op, faults>>
    <2>1. ~ Launching'
      BY <1>3, <1>4 DEF Launching
    <2> QED BY <1>1, <1>2, <1>3, <1>4, <2>1, OwnTurn
  <1>5. CASE Request(turn.req, turn.key) /\ turn' = [turn EXCEPT !.at = "routing"]
    <2>1. turn' \in Turn /\ ~ Launching'
      BY <1>1, <1>2, <1>5 DEF Turn, Launching
    <2>2. PICK q : q = turn.req
      OBVIOUS
    <2>3. PICK k : k = turn.key
      OBVIOUS
    <2>4. Request(q, k)
      BY <1>5, <2>2, <2>3
    <2>5. q \in Requests /\ k \in Keys
      BY <1>1, <1>2, <2>2, <2>3 DEF Turn
    <2> QED BY <1>1, <2>1, <2>4, <2>5, RequestStep
  <1> QED BY <1>1, <1>4, <1>5

\* A run is started once: the resume that it is for is no longer ready, and stays so.
LEMMA StartRunStep ==
    ASSUME EscalationInv, StartRun
    PROVE  EscalationInv'
  <1>1. /\ up /\ turn.at = "launching" /\ runs' = [runs EXCEPT ![turn.req] = @ + 1]
        /\ turn' = [turn EXCEPT !.at = "launched"]
        /\ UNCHANGED <<files, cred, op, faults, up, phase, stops>>
    BY DEF StartRun, At, serviceVars
  <1>2. turn \in Turn /\ runs \in [Requests -> Nat]
    BY DEF EscalationInv, Types, TypeOK
  <1>3. PICK p \in Requests : p = turn.req
    BY <1>1, <1>2 DEF Turn
  <1>4. op # <<>> /\ op[1].do = "execute" /\ op[1].reqs = {p} /\ SoundAt(1)
    BY <1>1, <1>3, HeadSound DEF EscalationInv, TurnSound, Launching
  <1>5. Resumable(p, op[1].arg) /\ ~ FirstReady(p) /\ runs[p] = 0
    BY <1>1, <1>4 DEF SoundAt
  <1>6. runs' \in [Requests -> Nat] /\ runs'[p] = 1 /\ \A q \in Requests \ {p} : runs'[q] = runs[q]
    BY <1>1, <1>2, <1>3, <1>5
  <1>7. turn' \in Turn /\ turn'.at = "launched" /\ turn'.req = p
    BY <1>1, <1>2, <1>3 DEF Turn
  <1>8. Types'
    BY <1>1, <1>6, <1>7 DEF EscalationInv, Types, TypeOK, files
  <1>9. Order' /\ DecisionsSound' /\ KeysOnce'
    BY <1>1 DEF EscalationInv, Order, DecisionsSound, KeysOnce, files
  <1>10. RejectionsKept'
    BY <1>1 DEF EscalationInv, RejectionsKept, RejectionOwed, files
  <1>11. UNCHANGED <<request, eligible, contexts, decisions, mandates, resumes>>
    BY <1>1 DEF files
  <1>12. \A q : /\ ResumesOf(q)' = ResumesOf(q) /\ ResumeOf(q)' = ResumeOf(q)
                /\ FirstReady(q)' <=> FirstReady(q)
    BY <1>11, ResumesKept
  <1>13. RunsSound'
    <2>1. ASSUME NEW q \in Requests
          PROVE  /\ runs'[q] <= 1
                 /\ runs'[q] > 0 => contexts'[q] # None /\ ResumesOf(q)' # {} /\ ~ FirstReady(q)'
      <3>1. CASE q = p
        BY <1>5, <1>6, <1>11, <1>12, <3>1 DEF Resumable
      <3>2. CASE q # p
        BY <1>6, <1>11, <1>12, <3>2 DEF EscalationInv, RunsSound
      <3> QED BY <3>1, <3>2
    <2> QED BY <2>1 DEF RunsSound
  <1>14. StepsOwed'
    <2>1. \A q : OnQuorum(q)' <=> OnQuorum(q)
      BY <1>11 DEF OnQuorum, Approvals, Decisions
    <2>2. \A q : RejectionOwed(q)' <=> RejectionOwed(q)
      BY <1>1 DEF RejectionOwed
    <2>3. ASSUME NEW i \in DOMAIN op' PROVE SoundAt(i)'
      <3>1. SoundAt(i) /\ op' = op /\ i \in DOMAIN op
        BY <1>1 DEF EscalationInv, StepsOwed
      <3>2. Resumable(p, op[i].arg)' <=> Resumable(p, op[i].arg)
        BY <1>11, <1>12, <2>1, <3>1 DEF Resumable
      <3>3. \A q : Resumable(q, op[i].arg)' <=> Resumable(q, op[i].arg)
        BY <1>11, <1>12, <2>1, <3>1 DEF Resumable
      <3> QED BY <1>7, <1>11, <1>12, <2>2, <3>1, <3>3 DEF SoundAt
    <2> QED BY <2>3 DEF StepsOwed
  <1>15. TurnSound'
    BY <1>1, <1>4, <1>7 DEF TurnSound
  <1> QED BY <1>8, <1>9, <1>10, <1>13, <1>14, <1>15 DEF EscalationInv

LEMMA NoteRunStep ==
    ASSUME EscalationInv, NoteRun
    PROVE  EscalationInv'
  <1>1. /\ up /\ turn.at = "launched" /\ phase' = [phase EXCEPT !.status = "running"]
        /\ turn' = [turn EXCEPT !.at = "waiting"]
        /\ UNCHANGED <<files, cred, op, faults, up, runs, stops>>
    BY DEF NoteRun, At, serviceVars
  <1>2. turn \in Turn /\ phase \in Phase
    BY DEF EscalationInv, Types, TypeOK
  <1>3. turn' \in Turn /\ turn'.at = "waiting" /\ turn'.req = turn.req
    BY <1>1, <1>2 DEF Turn
  <1>4. phase' \in Phase
    BY <1>1, <1>2 DEF Phase, Status
  <1>5. Moving'
    BY <1>1, <1>3, <1>4 DEF EscalationInv, Moving, Types, TypeOK
  <1>6. TurnSound'
    BY <1>1, <1>3 DEF EscalationInv, TurnSound, Launching
  <1> QED BY <1>1, <1>3, <1>5, <1>6, Turns

LEMMA RunSucceedsStep ==
    ASSUME EscalationInv, RunSucceeds
    PROVE  EscalationInv'
  <1>1. /\ up /\ turn.at = "waiting" /\ phase' = [phase EXCEPT !.status = "completed"]
        /\ turn' = Idle /\ op' = Tail(op) /\ UNCHANGED <<files, cred, faults, up, runs, stops>>
    BY DEF RunSucceeds, At
  <1>2. op # <<>> /\ op[1].do = "execute"
    BY <1>1 DEF EscalationInv, TurnSound, Launching
  <1>3. phase' \in Phase /\ turn' \in Turn /\ ~ Launching'
    BY <1>1 DEF EscalationInv, Types, TypeOK, Phase, Status, Turn, Idle, Launching
  <1>4. op' \in Seq(Owed) /\ Order'
    BY <1>1, <1>2, Shifts DEF EscalationInv
  <1>5. Moving' /\ TurnSound'
    BY <1>1, <1>3 DEF EscalationInv, Moving, Types, TypeOK, TurnSound
  <1>6. RejectionsKept'
    BY <1>1, <1>2, <1>5, RejectionsStay, NoRejection DEF files
  <1>7. StepsOwed'
    <2>1. ASSUME NEW i \in DOMAIN op' PROVE SoundAt(i)'
      <3>1. i + 1 \in DOMAIN op /\ op'[i] = op[i + 1] /\ SoundAt(i + 1) /\ i + 1 > 1
        BY <1>1, <1>2, Follows
      <3>2. op'[i].do \in {"complete", "consume", "record"}
        BY <1>2, <3>1, Behind DEF EscalationInv
      <3>3. \E q \in Requests : op'[i].reqs = {q} /\ ResumesOf(q) # {}
        BY <3>1, <3>2 DEF SoundAt
      <3>4. \A q : ResumesOf(q)' = ResumesOf(q)
        BY <1>1 DEF ResumesOf, files
      <3> QED BY <3>2, <3>3, <3>4 DEF SoundAt
    <2> QED BY <2>1 DEF StepsOwed
  <1> QED BY <1>1, <1>4, <1>5, <1>6, <1>7, Begins

-----------------------------------------------------------------------------
(* Initialize and the organization.                                         *)

\* The resume of a run that was persisted is not made ready again.
LEMMA InitializeStep ==
    ASSUME EscalationInv, Initialize
    PROVE  EscalationInv'
  <1>1. /\ ~ up /\ up' = TRUE
        /\ resumes' = [i \in DOMAIN resumes |->
              IF resumes[i].req = phase.approval /\ resumes[i].status = "executing"
              THEN [resumes[i] EXCEPT !.status = IF runs[phase.approval] > 0 THEN "failed" ELSE "ready"]
              ELSE resumes[i]]
        /\ UNCHANGED <<request, eligible, contexts, decisions, mandates, cred, op, faults, phase, turn, runs, stops>>
    BY DEF Initialize
  <1>2. op = <<>> /\ turn = Idle /\ resumes \in Seq(Resume)
    BY <1>1 DEF EscalationInv, Types, TypeOK
  <1>3. ASSUME NEW i \in DOMAIN resumes
        PROVE  /\ resumes'[i] \in Resume /\ resumes'[i].req = resumes[i].req
               /\ resumes'[i].mandate = resumes[i].mandate
               /\ resumes'[i].status = "ready" =>
                     \/ resumes[i].status = "ready"
                     \/ ~ (runs[resumes[i].req] > 0)
    <2>1. resumes[i] \in Resume
      BY <1>2
    <2> DEFINE st == IF runs[phase.approval] > 0 THEN "failed" ELSE "ready"
    <2>2. CASE resumes'[i] = resumes[i]
      BY <2>1, <2>2
    <2>3. CASE resumes[i].req = phase.approval /\ resumes'[i] = [resumes[i] EXCEPT !.status = st]
      <3>1. st \in {"failed", "ready"} /\ (st = "ready" => ~ (runs[phase.approval] > 0))
        OBVIOUS
      <3> HIDE DEF st
      <3> QED BY <2>1, <2>3, <3>1 DEF Resume
    <2> QED BY <1>1, <2>2, <2>3
  <1>4. resumes' \in Seq(Resume) /\ DOMAIN resumes' = DOMAIN resumes
    <2>1. Len(resumes) \in Nat /\ DOMAIN resumes = 1..Len(resumes)
      BY <1>2
    <2>2. DOMAIN resumes' = DOMAIN resumes /\ resumes' = [i \in DOMAIN resumes |-> resumes'[i]]
      BY <1>1
    <2>3. resumes' \in [1..Len(resumes) -> Resume]
      BY <1>3, <2>1, <2>2
    <2> QED BY <2>1, <2>2, <2>3, SeqDef
  <1>5. Types'
    BY <1>1, <1>2, <1>3, <1>4 DEF EscalationInv, Types, TypeOK
  <1>6. Order' /\ DecisionsSound' /\ KeysOnce'
    BY <1>1 DEF EscalationInv, Order, DecisionsSound, KeysOnce
  <1>7. RejectionsKept'
    BY <1>1 DEF EscalationInv, RejectionsKept, RejectionOwed
  <1>8. RunsSound'
    <2>1. \A q : ResumesOf(q)' = ResumesOf(q) /\ ResumeOf(q)' = ResumeOf(q)
      BY <1>2, <1>3, <1>4, ResumesMarked
    <2>2. ASSUME NEW q \in Requests, runs[q] > 0 PROVE ~ FirstReady(q)'
      <3>1. ResumesOf(q) # {} /\ ~ FirstReady(q)
        BY <2>2 DEF EscalationInv, RunsSound
      <3>2. ResumeOf(q) \in DOMAIN resumes /\ resumes[ResumeOf(q)].req = q
        BY <1>2, <3>1, FirstResume
      <3>3. resumes'[ResumeOf(q)].status # "ready"
        BY <1>3, <2>2, <3>1, <3>2 DEF FirstReady
      <3> QED BY <2>1, <3>3 DEF FirstReady
    <2> QED BY <1>1, <2>1, <2>2 DEF EscalationInv, RunsSound
  <1>9. StepsOwed' /\ TurnSound'
    <2>1. op' = <<>> /\ ~ Launching'
      BY <1>1, <1>2 DEF Launching, Idle
    <2> QED BY <2>1, Rests DEF TurnSound
  <1> QED BY <1>5, <1>6, <1>7, <1>8, <1>9 DEF EscalationInv

\* A decision of the membership whose credential is issued anew has aged.
AgedBy(m, d) == IF d.by = m THEN [d EXCEPT !.newest = FALSE] ELSE d

LEMMA AgedFacts ==
    ASSUME NEW m \in Members, NEW d \in Decision
    PROVE  /\ AgedBy(m, d) \in Decision /\ AgedBy(m, d).req = d.req /\ AgedBy(m, d).by = d.by
           /\ AgedBy(m, d).verdict = d.verdict
  <1>1. CASE d.by = m
    BY <1>1 DEF AgedBy, Decision
  <1>2. CASE d.by # m
    BY <1>2 DEF AgedBy
  <1> QED BY <1>1, <1>2

\* The list has the same steps, but for the decision that is being signed.
LEMMA IssueList ==
    ASSUME EscalationInv, NEW m \in Members, IssueCredential(m),
           op = <<>> \/ Doing("check") \/ Doing("decide")
    PROVE  /\ op' \in Seq(Owed) /\ DOMAIN op' = DOMAIN op
           /\ \A i \in DOMAIN op :
                 /\ op'[i].do = op[i].do /\ op'[i].reqs = op[i].reqs
                 /\ op[i].do # "decide" => op'[i] = op[i]
                 /\ op[i].do = "decide" => op[i].arg \in Decision /\ op'[i].arg = AgedBy(m, op[i].arg)
  <1>1. op' = IF Doing("decide") THEN <<Do("decide", Reqs, AgedBy(m, Arg))>> \o Tail(op) ELSE op
    BY DEF IssueCredential, AgedBy
  <1>2. CASE ~ Doing("decide")
    <2>1. op' = op /\ op \in Seq(Owed)
      BY <1>1, <1>2 DEF EscalationInv, Types
    <2>2. ASSUME NEW i \in DOMAIN op, op[i].do = "decide" PROVE FALSE
      <3>1. op # <<>> /\ op[1].do = "check"
        BY <1>2, <2>2, HeadSound DEF Doing
      <3>2. ~ (i > 1)
        BY <2>2, <3>1, Behind DEF EscalationInv
      <3>3. i = 1
        BY <3>2, OpFacts DEF EscalationInv
      <3> QED BY <2>2, <3>1, <3>3
    <2> QED BY <2>1, <2>2
  <1>3. CASE Doing("decide")
    <2>1. /\ op # <<>> /\ op[1].do = "decide" /\ op[1] \in Owed /\ Arg = op[1].arg /\ Reqs = op[1].reqs
          /\ op[1].arg \in Decision /\ op[1].reqs \in SUBSET Requests
      BY <1>3, HeadSound, StepFacts DEF Doing, Arg, Reqs
    <2>2. PICK w \in Owed : w = Do("decide", Reqs, AgedBy(m, Arg))
      BY <2>1, AgedFacts, NewStep
    <2>3. w.do = "decide" /\ w.reqs = op[1].reqs /\ w.arg = AgedBy(m, op[1].arg)
      BY <2>1, <2>2, DoFacts
    <2>4. PICK t \in Seq(Owed) : t = Tail(op)
      <3>1. op \in Seq(Owed) /\ op # <<>>
        BY <2>1 DEF EscalationInv, Types
      <3>2. Tail(op) \in Seq(Owed)
        BY <3>1
      <3> QED BY <3>2
    <2>5. op' = <<w>> \o t
      BY <1>1, <1>3, <2>2, <2>4
    <2>6. /\ <<w>> \in Seq(Owed) /\ Len(<<w>>) = 1 /\ <<w>>[1] = w
      BY One
    <2>7. /\ op \in Seq(Owed) /\ Len(op) \in Nat /\ DOMAIN op = 1..Len(op) /\ Len(t) = Len(op) - 1
          /\ \A i \in 1..Len(t) : t[i] = op[i + 1]
      BY <2>1, <2>4 DEF EscalationInv, Types
    <2>8. PICK u \in Seq(Owed) : u = <<w>>
      BY <2>6
    <2>9. /\ u \o t \in Seq(Owed) /\ DOMAIN (u \o t) = 1..(Len(u) + Len(t))
          /\ \A i \in 1..Len(u) : (u \o t)[i] = u[i]
          /\ \A i \in 1..Len(t) : (u \o t)[Len(u) + i] = t[i]
      BY Joins
    <2>10. op' \in Seq(Owed) /\ DOMAIN op' = DOMAIN op /\ op'[1] = w
           /\ \A i \in 1..Len(t) : op'[1 + i] = t[i]
      <3>1. Len(u) = 1 /\ u[1] = w /\ op' = u \o t
        BY <2>5, <2>6, <2>8
      <3>2. 1 + Len(t) = Len(op)
        BY <2>7
      <3>3. op' \in Seq(Owed) /\ DOMAIN op' = DOMAIN op
        BY <2>7, <2>9, <3>1, <3>2
      <3>4. op'[1] = w
        <4>1. 1 \in 1..Len(u)
          BY <3>1
        <4> QED BY <2>9, <3>1, <4>1
      <3>5. \A i \in 1..Len(t) : op'[1 + i] = t[i]
        BY <2>9, <3>1
      <3> QED BY <3>3, <3>4, <3>5
    <2>11. ASSUME NEW i \in DOMAIN op, i # 1 PROVE op'[i] = op[i] /\ op[i].do # "decide"
      <3>1. i - 1 \in 1..Len(t) /\ 1 + (i - 1) = i /\ (i - 1) + 1 = i /\ i > 1
        BY <2>7, <2>11
      <3>2. op[i].do # "decide"
        BY <2>1, <3>1, Behind DEF EscalationInv
      <3> QED BY <2>7, <2>10, <3>1, <3>2
    <2>12. /\ op'[1].do = op[1].do /\ op'[1].reqs = op[1].reqs /\ op'[1].arg = AgedBy(m, op[1].arg)
      BY <2>1, <2>3, <2>10
    <2> QED BY <2>1, <2>10, <2>11, <2>12
  <1> QED BY <1>2, <1>3

\* The decisions age, and stay who took them, of what, and how.
LEMMA IssueStep ==
    ASSUME EscalationInv, NEW m \in Members, IssueCredential(m),
           op = <<>> \/ Doing("check") \/ Doing("decide"), UNCHANGED <<up, phase, turn, runs, stops>>
    PROVE  EscalationInv'
  <1> DEFINE Aged(d) == AgedBy(m, d)
  <1>1. /\ cred' = cred \cup {m} /\ decisions' = {Aged(d) : d \in decisions}
        /\ op' = IF Doing("decide") THEN <<Do("decide", Reqs, Aged(Arg))>> \o Tail(op) ELSE op
        /\ UNCHANGED <<request, eligible, contexts, mandates, resumes, faults>>
    BY DEF IssueCredential, AgedBy
  <1>2. ASSUME NEW d \in Decision
        PROVE  /\ Aged(d) \in Decision /\ Aged(d).req = d.req /\ Aged(d).by = d.by
               /\ Aged(d).verdict = d.verdict
    BY AgedFacts
  <1>3. decisions \subseteq Decision /\ IsFiniteSet(decisions)
    BY DEF EscalationInv, Types, TypeOK
  <1> HIDE DEF Aged
  <1>4. /\ decisions' \subseteq Decision
        /\ \A e \in decisions' : \E d \in decisions : /\ e = Aged(d) /\ e.req = d.req /\ e.by = d.by
                                                      /\ e.verdict = d.verdict
        /\ \A d \in decisions : \E e \in decisions' : /\ e = Aged(d) /\ e.req = d.req /\ e.by = d.by
                                                      /\ e.verdict = d.verdict
    BY <1>1, <1>2, <1>3
  <1>5. IsFiniteSet(decisions')
    <2> DEFINE g == [d \in decisions |-> Aged(d)]
    <2>1. PICK D : D = decisions'
      OBVIOUS
    <2>2. PICK C : C = decisions
      OBVIOUS
    <2>3. PICK h : h = g
      OBVIOUS
    <2>4. h \in [C -> D] /\ \A e \in D : \E d \in C : h[d] = e
      BY <1>1, <2>1, <2>2, <2>3
    <2>5. h \in Surjection(C, D)
      BY <2>4 DEF Surjection
    <2>6. IsFiniteSet(D)
      BY <1>3, <2>2, <2>5, FS_Surjection
    <2> QED BY <2>1, <2>6
  <1>6. DecisionsSound'
    <2>1. ASSUME NEW e \in decisions', NEW f \in decisions', e.req = f.req, e.by = f.by PROVE e = f
      <3>1. PICK d \in decisions : e = Aged(d) /\ e.req = d.req /\ e.by = d.by
        BY <1>4
      <3>2. PICK c \in decisions : f = Aged(c) /\ f.req = c.req /\ f.by = c.by
        BY <1>4
      <3>3. c = d
        BY <2>1, <3>1, <3>2 DEF EscalationInv, DecisionsSound
      <3> QED BY <3>1, <3>2, <3>3
    <2>2. ASSUME NEW e \in decisions' PROVE request'[e.req] # "none" /\ e.by \in eligible'[e.req] \ {Requester}
      <3>1. PICK d \in decisions : e.req = d.req /\ e.by = d.by
        BY <1>4
      <3> QED BY <1>1, <3>1 DEF EscalationInv, DecisionsSound
    <2> QED BY <2>1, <2>2 DEF DecisionsSound
  <1>7. \A q : OnQuorum(q)' <=> OnQuorum(q)
    <2>1. ASSUME NEW q PROVE By(Approvals(q))' = By(Approvals(q))
      BY <1>4 DEF By, Approvals, Decisions
    <2> QED BY <1>1, <2>1 DEF OnQuorum
  <1>8. /\ op' \in Seq(Owed) /\ DOMAIN op' = DOMAIN op
        /\ \A i \in DOMAIN op :
              /\ op'[i].do = op[i].do /\ op'[i].reqs = op[i].reqs
              /\ op[i].do # "decide" => op'[i] = op[i]
              /\ op[i].do = "decide" => op[i].arg \in Decision /\ op'[i].arg = Aged(op[i].arg)
    BY IssueList DEF Aged
  <1>9. Order'
    BY <1>8 DEF EscalationInv, Order
  <1>10. ~ Launching
    <2>1. op = <<>> \/ (op # <<>> /\ op[1].do \in {"check", "decide"})
      BY HeadSound DEF Doing
    <2> QED BY <2>1 DEF EscalationInv, TurnSound
  <1>11. Types'
    BY <1>1, <1>4, <1>5, <1>8 DEF EscalationInv, Types, TypeOK, Idle
  <1>12. \A q : RejectionOwed(q)' <=> RejectionOwed(q)
    BY <1>8 DEF RejectionOwed
  <1>13. RejectionsKept'
    <2>1. ASSUME NEW e \in decisions', e.verdict = "reject", faults + stops = 0
          PROVE  request'[e.req] = "rejected" \/ RejectionOwed(e.req)
      <3>1. PICK d \in decisions : e.req = d.req /\ e.verdict = d.verdict
        BY <1>4
      <3> QED BY <1>1, <2>1, <3>1 DEF EscalationInv, RejectionsKept
    <2>2. ASSUME NEW e \in decisions', e.verdict = "reject", faults + stops = 0
          PROVE  request'[e.req] = "rejected" \/ RejectionOwed(e.req)'
      BY <1>12, <2>1, <2>2
    <2> QED BY <1>1, <2>2 DEF RejectionsKept
  <1>14. KeysOnce' /\ RunsSound'
    BY <1>1, ResumesKept DEF EscalationInv, KeysOnce, RunsSound
  <1>15. StepsOwed'
    <2>1. \A q : /\ ResumesOf(q)' = ResumesOf(q) /\ ResumeOf(q)' = ResumeOf(q)
                 /\ FirstReady(q)' <=> FirstReady(q)
      BY <1>1, ResumesKept
    <2>2. ASSUME NEW i \in DOMAIN op' PROVE SoundAt(i)'
      <3>1. i \in DOMAIN op /\ SoundAt(i) /\ op'[i].do = op[i].do /\ op'[i].reqs = op[i].reqs
        BY <1>8 DEF EscalationInv, StepsOwed
      <3>2. CASE op[i].do = "decide"
        <4>1. PICK d \in Decision : d = op[i].arg
          BY <1>8, <3>1, <3>2
        <4>2. PICK a \in Decision : a = Aged(d) /\ a.req = d.req /\ a.by = d.by /\ a.verdict = d.verdict
          BY <1>2
        <4>3. op'[i].arg = a /\ op'[i].do = "decide"
          BY <1>8, <3>1, <3>2, <4>1, <4>2
        <4>4. /\ request[d.req] # "none" /\ d.by \in eligible[d.req] \ {Requester}
              /\ \A e \in decisions : ~ (e.req = d.req /\ e.by = d.by)
              /\ d.verdict = "reject" => RejectionOwed(d.req)
          BY <3>1, <3>2, <4>1 DEF SoundAt
        <4>5. \A e \in decisions' : ~ (e.req = a.req /\ e.by = a.by)
          BY <1>4, <4>2, <4>4
        <4>6. a.verdict = "reject" => RejectionOwed(a.req)'
          BY <1>12, <4>2, <4>4
        <4>7. a = op[i].arg'
          BY <4>3
        <4> QED BY <1>1, <4>2, <4>3, <4>4, <4>5, <4>6 DEF SoundAt
      <3>3. CASE op[i].do # "decide"
        <4>1. op'[i] = op[i] /\ turn' = turn /\ runs' = runs
          BY <1>8, <3>1, <3>3
        <4>2. \A q : Resumable(q, op[i].arg)' <=> Resumable(q, op[i].arg)
          BY <1>1, <1>7, <2>1, <4>1 DEF Resumable
        <4>3. op[i].do = "route" => \A e \in decisions' : e.req \notin op[i].reqs
          BY <1>4, <3>1 DEF SoundAt
        <4>4. (\E j \in DOMAIN op : op[j].do = "grant") => \E j \in DOMAIN op' : op'[j].do = "grant"
          BY <1>8
        <4>5. i > 1 => op'[i - 1].do = op[i - 1].do
          <5>1. ASSUME i > 1 PROVE i - 1 \in DOMAIN op
            BY <3>1, <5>1, OpFacts DEF EscalationInv
          <5> QED BY <1>8, <5>1
        <4>6. op[i].do = "execute" =>
                 \E q \in Requests : /\ op'[i].reqs = {q} /\ Resumable(q, op[i].arg)'
                                     /\ i = 1 => ~ FirstReady(q)'
                                     /\ i > 1 => op'[i - 1].do = "begin"
                                     /\ runs'[q] = 0 \/ turn'.at \in {"launched", "waiting"}
          BY <2>1, <3>1, <4>1, <4>2, <4>5 DEF SoundAt
        <4>7. op[i].do = "begin" =>
                 \E q \in Requests : op'[i].reqs = {q} /\ Resumable(q, op[i].arg)' /\ FirstReady(q)'
          BY <2>1, <3>1, <4>2 DEF SoundAt
        <4>8. op[i].do \in {"complete", "consume", "record"} =>
                 \E q \in Requests : op'[i].reqs = {q} /\ ResumesOf(q)' # {}
          BY <2>1, <3>1 DEF SoundAt
        <4>9. /\ op[i].do = "context" =>
                    /\ \A r \in Requests : contexts'[r] # op[i].arg
                    /\ \A q, r \in op[i].reqs : q = r
              /\ op[i].do \in {"grant", "queue"} => \E q \in Requests : op[i].reqs = {q}
              /\ op[i].do = "queue" => mandates' # <<>> \/ \E j \in DOMAIN op' : op'[j].do = "grant"
          BY <1>1, <3>1, <4>4 DEF SoundAt
        <4>10. /\ op[i].do = "requests" /\ op[i].arg # "rejected" => \A q \in op[i].reqs : request'[q] \in Open
               /\ op[i].do = "check" => \A q \in op[i].reqs : request'[q] = "approved"
          BY <1>1, <3>1 DEF SoundAt
        <4> QED BY <3>3, <4>1, <4>3, <4>6, <4>7, <4>8, <4>9, <4>10 DEF SoundAt
      <3> QED BY <3>2, <3>3
    <2> QED BY <2>2 DEF StepsOwed
  <1>16. TurnSound'
    BY <1>10 DEF TurnSound, Launching
  <1> QED BY <1>6, <1>9, <1>11, <1>13, <1>14, <1>15, <1>16 DEF EscalationInv

LEMMA OrganizationStep ==
    ASSUME EscalationInv, Organization
    PROVE  EscalationInv'
  <1>1. /\ op = <<>> \/ Doing("check") \/ Doing("decide")
        /\ UNCHANGED <<up, phase, turn, runs, stops>>
        /\ \E m \in Members : ChangeStanding(m) \/ IssueCredential(m)
    BY DEF Organization
  <1>2. PICK m \in Members : ChangeStanding(m) \/ IssueCredential(m)
    BY <1>1
  <1>3. CASE ChangeStanding(m)
    <2>1. /\ cred' \in {cred \ {m}, cred \cup {m}} /\ UNCHANGED <<files, op, faults>>
      BY <1>3 DEF ChangeStanding
    <2>2. Moving' /\ TurnSound'
      BY <1>1, <2>1 DEF EscalationInv, Moving, Types, TypeOK, TurnSound, Launching
    <2> QED BY <1>1, <2>1, <2>2, Turns
  <1> QED BY <1>1, <1>2, <1>3, IssueStep

LEMMA OperateStep ==
    ASSUME EscalationInv, Operate
    PROVE  EscalationInv'
  <1>1. /\ up /\ UNCHANGED <<up, phase, turn, runs, stops>>
        /\ \/ Expire
           \/ \E q \in Requests : \/ Withdraw(q) \/ ConsumeResume(q)
                 \/ \E m \in Members, v \in {"approve", "reject"} : SubmitDecision(q, m, v)
    BY DEF Operate
  <1>2. CASE Expire
    BY <1>1, <1>2, ExpireStep
  <1>3. ASSUME NEW q \in Requests, Withdraw(q) PROVE EscalationInv'
    BY <1>1, <1>3, WithdrawStep
  <1>4. ASSUME NEW q \in Requests, ConsumeResume(q) PROVE EscalationInv'
    BY <1>1, <1>4, ConsumeStep
  <1>5. ASSUME NEW q \in Requests, NEW m \in Members, NEW v \in {"approve", "reject"}, SubmitDecision(q, m, v)
        PROVE  EscalationInv'
    BY <1>1, <1>5, DecideStep
  <1> QED BY <1>1, <1>2, <1>3, <1>4, <1>5

-----------------------------------------------------------------------------
(* The invariant.                                                           *)

LEMMA EscalationInit ==
    ASSUME Init
    PROVE  EscalationInv
  <1>1. /\ request = [q \in Requests |-> "none"] /\ eligible = [q \in Requests |-> {}]
        /\ contexts = [q \in Requests |-> None] /\ decisions = {} /\ mandates = <<>> /\ resumes = <<>>
        /\ cred = Members /\ op = <<>> /\ faults = 0 /\ up = TRUE /\ runs = [q \in Requests |-> 0]
        /\ phase = [status |-> "ready", approval |-> None, rejection |-> None] /\ turn = Idle /\ stops = 0
    BY DEF Init, ServiceInit
  <1>2. DOMAIN op = {} /\ op \in Seq(Owed) /\ mandates \in Seq(Mandate) /\ resumes \in Seq(Resume)
        /\ DOMAIN resumes = {}
    BY <1>1
  <1>3. phase \in Phase /\ turn \in Turn
    BY <1>1 DEF Phase, Status, Turn, Idle
  <1>4. Types
    <2>1. IsFiniteSet(decisions)
      BY <1>1, FS_EmptySet
    <2> QED BY <1>1, <1>2, <1>3, <2>1, TroublesAssumption DEF Types, TypeOK
  <1>5. Order /\ DecisionsSound /\ RejectionsKept /\ StepsOwed
    BY <1>1, <1>2 DEF Order, DecisionsSound, RejectionsKept, StepsOwed
  <1>6. KeysOnce /\ RunsSound /\ TurnSound
    BY <1>1 DEF KeysOnce, RunsSound, TurnSound, Launching, Idle
  <1> QED BY <1>4, <1>5, <1>6 DEF EscalationInv

LEMMA EscalationNext ==
    ASSUME EscalationInv, [Next]_vars
    PROVE  EscalationInv'
  <1>1. CASE Next
    BY <1>1, OperateStep, StepStep, FailStep, OrganizationStep, TurnStep, AskStep, LaunchStep,
       StartRunStep, NoteRunStep, RunSucceedsStep, ResumeFailsStep, StopStep, InitializeStep DEF Next
  <1>2. CASE UNCHANGED vars
    <2>1. /\ UNCHANGED <<files, cred, op, faults, up, phase, turn, runs, stops>>
      BY <1>2 DEF vars, serviceVars
    <2>2. Moving' /\ TurnSound'
      BY <2>1 DEF EscalationInv, Moving, Types, TypeOK, TurnSound, Launching
    <2> QED BY <2>1, <2>2, Turns
  <1> QED BY <1>1, <1>2

\* The requests, decisions, mandates and resumes are what the services take them to be,
\* and the list of writes that is left is one that an operation of theirs makes, for any
\* number of requests, members and troubles.
THEOREM EscalationCorrect == Spec => []EscalationInv
  <1>1. Init => EscalationInv
    BY EscalationInit
  <1>2. EscalationInv /\ [Next]_vars => EscalationInv'
    BY EscalationNext
  <1> QED BY <1>1, <1>2, PTL DEF Spec

\* The requests of one key cause one provider run, however often the application stops,
\* a write fails, or the approval is asked for again.
THEOREM EffectIsOnce == Spec => []EffectOnce
  <1>1. EscalationInv => EffectOnce
    <2> SUFFICES ASSUME EscalationInv PROVE EffectOnce
      OBVIOUS
    <2>1. runs \in [Requests -> Nat]
      BY DEF EscalationInv, Types, TypeOK
    <2> QED BY <2>1 DEF EscalationInv, RunsSound, KeysOnce, EffectOnce
  <1> QED BY <1>1, EscalationCorrect, PTL

\* A provider run starts only on an approved request, of a quorum of its members that
\* does not count the requester, which nobody has rejected, and under its mandate.
THEOREM QuorumHolds == Spec => RunsStandOnQuorum
  <1> DEFINE Stands(q) ==
         /\ request[q] = "approved"
         /\ Cardinality(By(Approvals(q)) \cap (eligible[q] \ {Requester})) >= Quorum
         /\ faults + stops = 0 => Decisions(q, "reject") = {}
         /\ \E i \in DOMAIN mandates : mandates[i] = [req |-> q, status |-> "active"]
  <1>1. ASSUME EscalationInv, StartRun, NEW q \in Requests, runs'[q] # runs[q] PROVE Stands(q)
    <2>1. /\ turn.at = "launching" /\ runs' = [runs EXCEPT ![turn.req] = @ + 1]
          /\ \E i \in DOMAIN mandates : mandates[i] = [req |-> turn.req, status |-> "active"]
      BY <1>1 DEF StartRun, At
    <2>2. q = turn.req /\ runs \in [Requests -> Nat]
      BY <1>1, <2>1 DEF EscalationInv, Types, TypeOK
    <2>3. op # <<>> /\ op[1].do = "execute" /\ op[1].reqs = {q} /\ SoundAt(1)
      BY <1>1, <2>1, <2>2, HeadSound DEF EscalationInv, TurnSound, Launching
    <2>4. Resumable(q, op[1].arg)
      BY <2>3 DEF SoundAt
    <2>5. request[q] = "approved" /\ OnQuorum(q)
      BY <2>4 DEF Resumable
    <2>6. ASSUME faults + stops = 0, NEW d \in Decisions(q, "reject") PROVE FALSE
      <3>1. d \in decisions /\ d.req = q /\ d.verdict = "reject"
        BY <2>6 DEF Decisions
      <3>2. request[q] = "rejected" \/ RejectionOwed(q)
        BY <1>1, <2>6, <3>1 DEF EscalationInv, RejectionsKept
      <3> QED BY <1>1, <2>3, <2>5, <3>2, NoRejection
    <2> QED BY <2>1, <2>2, <2>5, <2>6 DEF OnQuorum
  <1>2. ASSUME EscalationInv, [Next]_vars
        PROVE  [\A q \in Requests : runs'[q] # runs[q] => Stands(q)]_vars
    <2>1. CASE UNCHANGED vars
      BY <2>1
    <2>2. CASE StartRun
      BY <1>1, <1>2, <2>2
    <2>3. CASE Next /\ ~ StartRun
      <3>1. runs' = runs
        BY <2>3 DEF Next, Operate, Step, Fail, Organization, Poll, Answer, LookBefore, Ask, NoteRequest,
                    NoteFails, Start, Launch, NoteRun, RunSucceeds, ResumeFails, Stop, Initialize
      <3> QED BY <3>1
    <2> QED BY <1>2, <2>1, <2>2, <2>3
  <1>3. RunsStandOnQuorum <=> [][\A q \in Requests : runs'[q] # runs[q] => Stands(q)]_vars
    BY DEF RunsStandOnQuorum
  <1> QED BY <1>2, EscalationCorrect, PTL DEF Spec, RunsStandOnQuorum

-----------------------------------------------------------------------------
(* The files agree: what each step of a list leaves to the next one.        *)

Then(i, what) == i + 1 \in DOMAIN op /\ op[i + 1].do = what
Last(i) == i + 1 \notin DOMAIN op

\* No write of an operation is left out.
SuccessorOf(i) ==
    /\ op[i].do = "route" => Then(i, "context")
    /\ op[i].do = "decide" => \/ Last(i) \/ Then(i, "grant")
                              \/ Then(i, "requests") /\ op[i + 1].arg = "rejected"
    /\ op[i].do = "grant" => Then(i, "queue")
    /\ op[i].do = "queue" => Then(i, "requests") /\ op[i + 1].arg = "approved"
    /\ op[i].do = "requests" => IF op[i].arg = "closed" THEN Then(i, "mandates") ELSE Last(i)
    /\ op[i].do = "mandates" => Then(i, "resumes")
    /\ op[i].do = "check" => Then(i, "check") \/ Then(i, "begin")
    /\ op[i].do = "begin" => Then(i, "execute")
    /\ op[i].do = "execute" => Then(i, "complete")
    /\ op[i].do = "complete" => Then(i, "consume")
    /\ op[i].do = "consume" => Then(i, "record")

Successors == \A i \in DOMAIN op : SuccessorOf(i)

\* A write is of the resume, or the mandate, of its request.
Fits(w) ==
    /\ w.do \in {"complete", "fail"} =>
          \E q \in Requests : w.reqs = {q} /\ ResumesOf(q) # {} /\ w.arg = ResumeOf(q)
    /\ w.do = "consume" =>
          \E q \in Requests : /\ w.reqs = {q} /\ ResumesOf(q) # {}
                              /\ w.arg = resumes[ResumeOf(q)].mandate
    /\ w.do \in {"decide", "grant", "queue"} => \A q \in w.reqs : request[q] # "none"
    /\ w.do = "decide" => w.reqs = {w.arg.req}

Arguments == \A i \in DOMAIN op : Fits(op[i])

Known == \A i \in DOMAIN resumes : request[resumes[i].req] # "none"

\* A request has neither a mandate nor a resume, or one of each, of those statuses.
Granted(q) == {m \in DOMAIN mandates : mandates[m].req = q}
Bare(q) == Granted(q) = {} /\ ResumesOf(q) = {}
Pair(q, S) ==
    \E m \in DOMAIN mandates, r \in DOMAIN resumes :
       /\ Granted(q) = {m} /\ ResumesOf(q) = {r} /\ resumes[r].mandate = m
       /\ <<mandates[m].status, resumes[r].status>> \in S

Standing == {<<"active", "ready">>, <<"active", "failed">>, <<"consumed", "completed">>}
Over == {<<"ended", "invalidated">>, <<"ended", "failed">>, <<"consumed", "completed">>}
Ending == Over \cup {<<"ended", "ready">>}

\* A request that no operation is at.
Calm(q) ==
    \/ request[q] # "approved" /\ Bare(q)
    \/ request[q] = "approved" /\ Pair(q, Standing)
    \/ request[q] = "closed" /\ Pair(q, Over)

\* A request of the step that is next.
Midway(q, w) ==
    /\ w.do \in {"route", "context", "check", "record", "begin", "decide", "grant"} => Calm(q)
    /\ w.do = "route" => request[q] = "none"
    /\ w.do \in {"decide", "grant", "queue"} => request[q] = "pending"
    /\ w.do = "queue" =>
          /\ mandates # <<>> /\ Granted(q) = {Len(mandates)} /\ ResumesOf(q) = {}
          /\ mandates[Len(mandates)].status = "active"
    /\ w.do = "requests" =>
          /\ w.arg = "approved" => request[q] = "pending" /\ Pair(q, {<<"active", "ready">>})
          /\ w.arg = "rejected" => request[q] = "pending" /\ Calm(q)
          /\ w.arg = "closed" => request[q] \in Open /\ Calm(q)
    /\ w.do = "mandates" => request[q] = "closed" /\ (Bare(q) \/ Pair(q, Standing))
    /\ w.do = "resumes" => request[q] = "closed" /\ (Bare(q) \/ Pair(q, Ending))
    /\ w.do \in {"execute", "complete", "fail"} =>
          request[q] = "approved" /\ Pair(q, {<<"active", "executing">>})
    /\ w.do = "consume" => request[q] = "approved" /\ Pair(q, {<<"active", "completed">>})

Agrees(q) == IF op # <<>> /\ q \in op[1].reqs THEN Midway(q, op[1]) ELSE Calm(q)

Agreeing == faults + stops = 0 => \A q \in Requests : Agrees(q)

\* Only a request that the phase has lost track of, or has not noted yet, is left
\* executing.
Beginning(i) == op # <<>> /\ op[1].do \in {"execute", "complete", "fail"} /\ op[1].arg = i
Mentioned(q) == q = phase.approval \/ (turn.at \in {"routing", "asked"} /\ turn.req = q)
Held ==
    up /\ faults = 0 =>
       \A i \in DOMAIN resumes :
          resumes[i].status = "executing" => Beginning(i) \/ ~ Mentioned(resumes[i].req)

Stopped == ~ up => stops # 0

FilesSound == Successors /\ Arguments /\ Known /\ Agreeing /\ Held /\ Stopped

-----------------------------------------------------------------------------
(* What stays of a request when the files change.                           *)

LEMMA PairMoves ==
    ASSUME NEW q, NEW S, NEW T, Granted(q)' = Granted(q), ResumesOf(q)' = ResumesOf(q),
           \A r \in ResumesOf(q) : resumes'[r].mandate = resumes[r].mandate,
           \A m \in Granted(q), r \in ResumesOf(q) :
              <<mandates[m].status, resumes[r].status>> \in S =>
                 <<mandates'[m].status, resumes'[r].status>> \in T,
           Pair(q, S)
    PROVE  Pair(q, T)'
  <1>1. PICK m \in DOMAIN mandates, r \in DOMAIN resumes :
           /\ Granted(q) = {m} /\ ResumesOf(q) = {r} /\ resumes[r].mandate = m
           /\ <<mandates[m].status, resumes[r].status>> \in S
    BY DEF Pair
  <1>2. m \in Granted(q)' /\ r \in ResumesOf(q)'
    BY <1>1
  <1>3. m \in DOMAIN mandates' /\ r \in DOMAIN resumes'
    BY <1>2 DEF Granted, ResumesOf
  <1>4. <<mandates'[m].status, resumes'[r].status>> \in T /\ resumes'[r].mandate = m
    BY <1>1
  <1> QED BY <1>1, <1>3, <1>4 DEF Pair

\* What another request has is not written.
LEMMA PairStays ==
    ASSUME NEW q, Granted(q)' = Granted(q), ResumesOf(q)' = ResumesOf(q),
           \A r \in ResumesOf(q) : resumes'[r] = resumes[r],
           \A m \in Granted(q) : mandates'[m] = mandates[m]
    PROVE  /\ Bare(q) => Bare(q)'
           /\ \A S : Pair(q, S) => Pair(q, S)'
  <1>1. Bare(q) => Bare(q)'
    BY DEF Bare
  <1>2. ASSUME NEW S, Pair(q, S) PROVE Pair(q, S)'
    BY <1>2, PairMoves
  <1> QED BY <1>1, <1>2

LEMMA PairsKept ==
    ASSUME UNCHANGED <<mandates, resumes>>
    PROVE  \A q : /\ Granted(q)' = Granted(q) /\ ResumesOf(q)' = ResumesOf(q)
                  /\ Bare(q) => Bare(q)'
                  /\ \A S : Pair(q, S) => Pair(q, S)'
  <1>1. ASSUME NEW q PROVE Granted(q)' = Granted(q) /\ ResumesOf(q)' = ResumesOf(q)
    BY DEF Granted, ResumesOf
  <1> QED BY <1>1, PairStays

LEMMA CalmStays ==
    ASSUME NEW q, request'[q] = request[q], Bare(q) => Bare(q)', \A S : Pair(q, S) => Pair(q, S)', Calm(q)
    PROVE  Calm(q)'
  BY DEF Calm, Standing, Over

LEMMA MidwayStays ==
    ASSUME NEW q, NEW w, UNCHANGED <<request, mandates, resumes>>
    PROVE  /\ Calm(q) => Calm(q)'
           /\ Midway(q, w) => Midway(q, w)'
  <1>1. /\ Granted(q)' = Granted(q) /\ ResumesOf(q)' = ResumesOf(q)
        /\ Bare(q) => Bare(q)'
        /\ \A S : Pair(q, S) => Pair(q, S)'
    BY PairsKept
  <1>2. Calm(q) => Calm(q)'
    BY <1>1, CalmStays
  <1> QED BY <1>1, <1>2 DEF Midway, Standing, Ending, Over

\* The pairs that a request may have, by its status.
LEMMA CalmFacts ==
    ASSUME NEW q, Calm(q)
    PROVE  /\ request[q] \in {"none", "pending", "rejected"} => Bare(q)
           /\ request[q] = "approved" => Pair(q, Standing)
           /\ request[q] \in Open => Bare(q) \/ Pair(q, Standing)
  BY DEF Calm, Open

-----------------------------------------------------------------------------
(* What stays of a list.                                                    *)

\* No request is forgotten, and the first resume of one stays what it is.
Lasting ==
    \A q \in Requests :
       /\ request[q] # "none" => request'[q] # "none"
       /\ ResumesOf(q) # {} =>
             /\ ResumesOf(q)' # {} /\ ResumeOf(q)' = ResumeOf(q)
             /\ resumes'[ResumeOf(q)].mandate = resumes[ResumeOf(q)].mandate

LEMMA FitsStays ==
    ASSUME NEW w \in Owed, Fits(w), Lasting
    PROVE  Fits(w)'
  <1>1. w.reqs \in SUBSET Requests
    BY StepFacts
  <1>2. ASSUME w.do \in {"complete", "fail"}
        PROVE  \E q \in Requests : w.reqs = {q} /\ ResumesOf(q)' # {} /\ w.arg = ResumeOf(q)'
    BY <1>2 DEF Fits, Lasting
  <1>3. ASSUME w.do = "consume"
        PROVE  \E q \in Requests : /\ w.reqs = {q} /\ ResumesOf(q)' # {}
                                   /\ w.arg = resumes'[ResumeOf(q)'].mandate
    BY <1>3 DEF Fits, Lasting
  <1>4. ASSUME w.do \in {"decide", "grant", "queue"}, NEW q \in w.reqs PROVE request'[q] # "none"
    BY <1>1, <1>4 DEF Fits, Lasting
  <1>5. w.do = "decide" => w.reqs = {w.arg.req}
    BY DEF Fits
  <1> QED BY <1>2, <1>3, <1>4, <1>5 DEF Fits

LEMMA LastingKept ==
    ASSUME UNCHANGED <<request, resumes>>
    PROVE  Lasting
  <1>1. \A q : ResumesOf(q)' = ResumesOf(q) /\ ResumeOf(q)' = ResumeOf(q)
    BY ResumesKept
  <1> QED BY <1>1 DEF Lasting

LEMMA LastingMarked ==
    ASSUME resumes \in Seq(Resume), Marked, UNCHANGED request
    PROVE  Lasting
  <1>1. \A q : ResumesOf(q)' = ResumesOf(q) /\ ResumeOf(q)' = ResumeOf(q)
    BY ResumesMarked DEF Marked
  <1>2. \A q : ResumesOf(q) # {} => ResumeOf(q) \in DOMAIN resumes
    BY FirstResume
  <1> QED BY <1>1, <1>2 DEF Lasting, Marked

LEMMA ListMoves ==
    ASSUME Types, Order, Successors, Arguments, op # <<>>, op' = Tail(op), Lasting
    PROVE  Successors' /\ Arguments'
  <1>1. ASSUME NEW i \in DOMAIN op'
        PROVE  /\ i + 1 \in DOMAIN op /\ op'[i] = op[i + 1] /\ op[i + 1] \in Owed
               /\ i + 1 \in DOMAIN op' <=> (i + 1) + 1 \in DOMAIN op
               /\ i + 1 \in DOMAIN op' => op'[i + 1] = op[(i + 1) + 1]
    <2>1. i \in Nat /\ i >= 1 /\ i + 1 \in DOMAIN op /\ op'[i] = op[i + 1] /\ op[i + 1] \in Owed
      BY Shifts, OpFacts
    <2>2. ASSUME i + 1 \in DOMAIN op'
          PROVE  (i + 1) + 1 \in DOMAIN op /\ op'[i + 1] = op[(i + 1) + 1]
      BY <2>2, Shifts
    <2>3. ASSUME (i + 1) + 1 \in DOMAIN op PROVE i + 1 \in DOMAIN op'
      <3>1. PICK j \in DOMAIN op : j = (i + 1) + 1
        BY <2>3
      <3>2. j > 1 /\ j - 1 = i + 1
        BY <2>1, <3>1
      <3>3. j - 1 \in DOMAIN op'
        BY <3>2, Shifts
      <3> QED BY <3>2, <3>3
    <2> QED BY <2>1, <2>2, <2>3
  <1>2. Successors'
    <2>1. ASSUME NEW i \in DOMAIN op', NEW j \in DOMAIN op, j = i + 1
          PROVE  /\ (j + 1 \in DOMAIN op <=> i + 1 \in DOMAIN op')
                 /\ (i + 1 \in DOMAIN op' => op'[i + 1] = op[j + 1]) /\ op'[i] = op[j]
      BY <1>1, <2>1
    <2>2. ASSUME NEW i \in DOMAIN op' PROVE SuccessorOf(i)'
      <3>1. PICK j \in DOMAIN op : j = i + 1
        BY <1>1
      <3>2. SuccessorOf(j)
        BY DEF Successors
      <3> QED BY <2>1, <3>1, <3>2 DEF SuccessorOf, Then, Last
    <2> QED BY <2>2 DEF Successors
  <1>3. Arguments'
    <2>1. ASSUME NEW i \in DOMAIN op', NEW w \in Owed, w = op'[i] PROVE Fits(w)'
      <3>1. Fits(w)
        BY <1>1, <2>1 DEF Arguments
      <3> QED BY <3>1, FitsStays
    <2>2. ASSUME NEW i \in DOMAIN op' PROVE Fits(op[i])'
      <3>1. PICK w \in Owed : w = op'[i]
        BY <1>1
      <3>2. Fits(w)'
        BY <2>1, <3>1
      <3> QED BY <3>1, <3>2 DEF Fits
    <2> QED BY <2>2 DEF Arguments
  <1> QED BY <1>2, <1>3

LEMMA NextOne ==
    ASSUME Types, Order, op # <<>>, op' = Tail(op)
    PROVE  /\ 1 \in DOMAIN op /\ op[1] \in Owed /\ op[1].reqs \subseteq Requests
           /\ Last(1) => op' = <<>>
           /\ ~ Last(1) => /\ 2 \in DOMAIN op /\ op' # <<>> /\ op'[1] = op[2]
                           /\ op[2] \in Owed /\ op[2].reqs = op[1].reqs
  <1>1. 1 \in DOMAIN op /\ op[1] \in Owed /\ op[1].reqs \subseteq Requests
    BY OpFacts, StepFacts
  <1>2. ASSUME Last(1) PROVE op' = <<>>
    <2>1. ASSUME NEW i \in DOMAIN op' PROVE FALSE
      <3>1. i \in Nat /\ i >= 1 /\ i + 1 \in DOMAIN op
        BY Shifts
      <3>2. Len(op) \in Nat /\ DOMAIN op = 1..Len(op)
        BY OpFacts
      <3>3. 2 \in DOMAIN op
        BY <3>1, <3>2
      <3> QED BY <1>2, <3>3 DEF Last
    <2>2. op' \in Seq(Owed)
      BY Shifts
    <2> QED BY <2>1, <2>2
  <1>3. ASSUME ~ Last(1)
        PROVE  /\ 2 \in DOMAIN op /\ op' # <<>> /\ op'[1] = op[2]
               /\ op[2] \in Owed /\ op[2].reqs = op[1].reqs
    <2>1. 2 \in DOMAIN op
      BY <1>3 DEF Last
    <2>2. 1 \in DOMAIN op' /\ op'[1] = op[2]
      BY <2>1, Shifts
    <2>3. op' # <<>>
      BY <2>2
    <2>4. op[2] \in Owed /\ op[2].reqs = op[1].reqs
      BY <2>1, Behind, OpFacts
    <2> QED BY <2>1, <2>2, <2>3, <2>4
  <1> QED BY <1>1, <1>2, <1>3

LEMMA NoneBehind ==
    ASSUME Types, Order, op # <<>>, op[1].do \in {"context", "resumes", "record", "fail"}
    PROVE  Last(1)
  <1>1. ASSUME 2 \in DOMAIN op PROVE FALSE
    BY <1>1, Behind
  <1> QED BY <1>1 DEF Last

LEMMA FirstSuccessor ==
    ASSUME EscalationInv, FilesSound, op # <<>>
    PROVE  SuccessorOf(1) /\ Fits(op[1])
  BY OpFacts DEF EscalationInv, FilesSound, Successors, Arguments

LEMMA Idly ==
    ASSUME op' = <<>>, faults' + stops' = 0 => \A q \in Requests : Calm(q)'
    PROVE  Agreeing'
  BY DEF Agreeing, Agrees

LEMMA AtFirst ==
    ASSUME Agreeing, op # <<>>, faults + stops = 0
    PROVE  /\ \A q \in op[1].reqs \cap Requests : Midway(q, op[1])
           /\ \A q \in Requests \ op[1].reqs : Calm(q)
  BY DEF Agreeing, Agrees

LEMMA AtLast ==
    ASSUME Types, Order, Agreeing, op # <<>>, op' = Tail(op), UNCHANGED <<faults, stops>>, Last(1),
           \A q \in Requests \ op[1].reqs : Calm(q) => Calm(q)',
           \A q \in Requests \cap op[1].reqs : Midway(q, op[1]) => Calm(q)'
    PROVE  Agreeing'
  <1>1. op' = <<>>
    BY NextOne
  <1>2. faults' + stops' = 0 => \A q \in Requests : Calm(q)'
    BY AtFirst
  <1> QED BY <1>1, <1>2, Idly

LEMMA GoesOn ==
    ASSUME Types, Order, Agreeing, op # <<>>, op' = Tail(op), UNCHANGED <<faults, stops>>, ~ Last(1),
           NEW w \in Owed, w = op[2],
           \A q \in Requests \ op[1].reqs : Calm(q) => Calm(q)',
           \A q \in Requests \cap op[1].reqs : Midway(q, op[1]) => Midway(q, w)'
    PROVE  Agreeing'
  <1>1. op' # <<>> /\ op'[1] = w /\ w.reqs = op[1].reqs
    BY NextOne
  <1>2. ASSUME faults' + stops' = 0, NEW q \in Requests PROVE Agrees(q)'
    <2>1. faults + stops = 0
      BY <1>2
    <2>2. CASE q \in w.reqs
      <3>1. Midway(q, w)'
        BY <1>1, <2>1, <2>2, AtFirst
      <3>2. Midway(q, op[1])'
        BY <1>1, <3>1 DEF Midway
      <3> QED BY <1>1, <2>2, <3>2 DEF Agrees
    <2>3. CASE q \notin w.reqs
      <3>1. Calm(q)'
        BY <1>1, <2>1, <2>3, AtFirst
      <3> QED BY <1>1, <2>3, <3>1 DEF Agrees
    <2> QED BY <2>2, <2>3
  <1> QED BY <1>2 DEF Agreeing

-----------------------------------------------------------------------------
(* The rest of the invariant, at such a step.                               *)

SameTurn ==
    /\ up' = up /\ phase'.approval = phase.approval
    /\ turn'.at \in {"routing", "asked"} => turn.at \in {"routing", "asked"} /\ turn'.req = turn.req

LEMMA HeldStays ==
    ASSUME Held, SameTurn, faults' = 0 => faults = 0,
           \A i \in DOMAIN resumes' :
              resumes'[i].status = "executing" =>
                 /\ i \in DOMAIN resumes /\ resumes[i].status = "executing"
                 /\ resumes'[i].req = resumes[i].req
                 /\ Beginning(i) => Beginning(i)'
    PROVE  Held'
  <1>1. \A q : Mentioned(q)' => Mentioned(q)
    BY DEF Mentioned, SameTurn
  <1>2. ASSUME up', faults' = 0, NEW i \in DOMAIN resumes', resumes'[i].status = "executing"
        PROVE  Beginning(i)' \/ ~ Mentioned(resumes[i].req)'
    <2>1. /\ i \in DOMAIN resumes /\ resumes[i].status = "executing"
          /\ resumes'[i].req = resumes[i].req /\ (Beginning(i) => Beginning(i)')
      BY <1>2
    <2>2. Beginning(i) \/ ~ Mentioned(resumes[i].req)
      BY <1>2, <2>1 DEF Held, SameTurn
    <2>3. PICK q : q = resumes[i].req
      OBVIOUS
    <2>4. Beginning(i)' \/ ~ Mentioned(q)'
      BY <1>1, <2>1, <2>2, <2>3
    <2> QED BY <2>1, <2>3, <2>4 DEF Mentioned
  <1> QED BY <1>2 DEF Held

LEMMA KnownStays ==
    ASSUME Types, Known, Lasting, DOMAIN resumes' = DOMAIN resumes,
           \A i \in DOMAIN resumes : resumes'[i].req = resumes[i].req
    PROVE  Known'
  <1>1. ASSUME NEW i \in DOMAIN resumes PROVE resumes[i].req \in Requests
    <2>1. resumes \in Seq(Resume)
      BY DEF Types, TypeOK
    <2>2. resumes[i] \in Resume
      BY <2>1
    <2> QED BY <2>2 DEF Resume
  <1> QED BY <1>1 DEF Known, Lasting

\* A step of the approvals that is not about what is executed.
LEMMA QuietSound ==
    ASSUME EscalationInv, FilesSound, op # <<>>, op' = Tail(op), UNCHANGED <<up, stops>>,
           Lasting, Known', Agreeing', Held'
    PROVE  FilesSound'
  <1>1. Successors' /\ Arguments'
    BY ListMoves DEF EscalationInv, FilesSound
  <1> QED BY <1>1 DEF FilesSound, Stopped

LEMMA UnwrittenStep ==
    ASSUME EscalationInv, FilesSound, op # <<>>, op' = Tail(op), UNCHANGED <<stops, faults, resumes>>,
           SameTurn, Lasting, Agreeing', op[1].do \notin {"execute", "complete", "fail"}
    PROVE  FilesSound'
  <1>1. Known'
    BY KnownStays DEF EscalationInv, FilesSound
  <1>2. \A i : ~ Beginning(i)
    BY DEF Beginning
  <1>3. Held'
    BY <1>2, HeldStays DEF FilesSound
  <1> QED BY <1>1, <1>3, QuietSound DEF SameTurn

\* Check, and the event of a resume that completed.
LEMMA ReadStep ==
    ASSUME EscalationInv, FilesSound, op # <<>>, op' = Tail(op), UNCHANGED <<files, stops, faults>>,
           SameTurn, op[1].do \in {"check", "record"}
    PROVE  FilesSound'
  <1>1. UNCHANGED <<request, mandates, resumes>>
    BY DEF files
  <1>2. \A q : Calm(q) => Calm(q)'
    BY <1>1, MidwayStays
  <1>3. \A q : Midway(q, op[1]) => Calm(q)'
    BY <1>2 DEF Midway
  <1>4. Agreeing'
    <2>1. CASE Last(1)
      BY <1>2, <1>3, <2>1, AtLast DEF EscalationInv, FilesSound
    <2>2. CASE ~ Last(1)
      <3>1. PICK w \in Owed : w = op[2]
        BY <2>2, NextOne DEF EscalationInv
      <3>2. op[1].do = "check"
        BY <2>2, NoneBehind DEF EscalationInv
      <3>3. w.do \in {"check", "begin"}
        BY <3>1, <3>2, FirstSuccessor DEF SuccessorOf, Then
      <3>4. \A q : Calm(q)' => Midway(q, w)'
        BY <3>3 DEF Midway
      <3> QED BY <1>2, <1>3, <2>2, <3>1, <3>4, GoesOn DEF EscalationInv, FilesSound
    <2> QED BY <2>1, <2>2
  <1> QED BY <1>1, <1>4, LastingKept, UnwrittenStep

-----------------------------------------------------------------------------
(* The operations.                                                          *)

\* A new list, of requests that no operation is at.
LEMMA Opens ==
    ASSUME FilesSound, UNCHANGED <<request, mandates, resumes>>, Successors', Arguments', Held', Stopped',
           op' # <<>>, NEW w, w = op'[1], faults' + stops' = 0 => faults + stops = 0,
           faults + stops = 0 => \A q \in Requests : Calm(q),
           faults + stops = 0 => \A q \in Requests \cap w.reqs : Calm(q) => Midway(q, w)
    PROVE  FilesSound'
  <1>1. ASSUME faults' + stops' = 0, NEW q \in Requests PROVE Agrees(q)'
    <2>1. CASE q \in w.reqs
      <3>1. Midway(q, w)'
        BY <1>1, <2>1, MidwayStays
      <3>2. Midway(q, op[1])'
        BY <3>1 DEF Midway
      <3> QED BY <2>1, <3>2 DEF Agrees
    <2>2. CASE q \notin w.reqs
      <3>1. Calm(q)'
        BY <1>1, MidwayStays
      <3> QED BY <2>2, <3>1 DEF Agrees
    <2> QED BY <2>1, <2>2
  <1>2. Agreeing'
    BY <1>1 DEF Agreeing
  <1>3. Known'
    BY DEF FilesSound, Known
  <1> QED BY <1>2, <1>3 DEF FilesSound

LEMMA EndsSound ==
    ASSUME FilesSound, NEW Q \in SUBSET Requests, op' = End(Q), UNCHANGED <<request, mandates, resumes>>,
           UNCHANGED <<faults, stops, up>>, Held', \A q \in Q : request[q] \in Open,
           faults + stops = 0 => \A q \in Requests : Calm(q)
    PROVE  FilesSound'
  <1>1. PICK a, b, c : /\ a = Do("requests", Q, "closed") /\ b = Do("mandates", Q, "ended")
                       /\ c = Do("resumes", Q, "invalidated")
    OBVIOUS
  <1>2. /\ a.do = "requests" /\ a.reqs = Q /\ a.arg = "closed"
        /\ b.do = "mandates" /\ c.do = "resumes"
    BY <1>1, DoFacts
  <1>3. op' = <<a, b, c>>
    BY <1>1 DEF End
  <1>4. op' # <<>> /\ DOMAIN op' = 1..3 /\ op'[1] = a /\ op'[2] = b /\ op'[3] = c
    BY <1>3, Three
  <1>5. Successors'
    <2>1. ASSUME NEW i \in DOMAIN op' PROVE SuccessorOf(i)'
      <3>1. i = 1 \/ i = 2 \/ i = 3
        BY <1>4
      <3>2. CASE i = 1
        BY <1>2, <1>4, <3>2 DEF SuccessorOf, Then
      <3>3. CASE i = 2
        BY <1>2, <1>4, <3>3 DEF SuccessorOf, Then
      <3>4. CASE i = 3
        BY <1>2, <1>4, <3>4 DEF SuccessorOf
      <3> QED BY <3>1, <3>2, <3>3, <3>4
    <2> QED BY <2>1 DEF Successors
  <1>6. Arguments'
    <2>1. ASSUME NEW i \in DOMAIN op' PROVE op'[i].do \in {"requests", "mandates", "resumes"}
      BY <1>2, <1>4
    <2> QED BY <2>1 DEF Arguments, Fits
  <1>7. \A q \in Q : Calm(q) => Midway(q, a)
    BY <1>2 DEF Midway
  <1>8. Stopped'
    BY DEF FilesSound, Stopped
  <1> QED BY <1>2, <1>4, <1>5, <1>6, <1>7, <1>8, Opens

\* Nothing that is executing is the approvals' when they begin.
LEMMA IdleFacts ==
    ASSUME FilesSound, op = <<>>
    PROVE  /\ faults + stops = 0 => \A q \in Requests : Calm(q)
           /\ \A i : ~ Beginning(i)
  BY DEF FilesSound, Agreeing, Agrees, Beginning

LEMMA IdleHeld ==
    ASSUME FilesSound, op = <<>>, UNCHANGED <<resumes, faults>>, SameTurn
    PROVE  Held'
  BY IdleFacts, HeldStays DEF FilesSound

LEMMA CloseSound ==
    ASSUME EscalationInv, FilesSound, UNCHANGED stops, SameTurn,
           Expire \/ \E q \in Requests : Withdraw(q)
    PROVE  FilesSound'
  <1>1. PICK Q \in SUBSET Requests :
           /\ op = <<>> /\ op' = End(Q) /\ \A q \in Q : request[q] \in Open
           /\ UNCHANGED <<files, cred, faults>>
    <2>1. CASE Expire
      BY <2>1 DEF Expire
    <2>2. ASSUME NEW q \in Requests, Withdraw(q)
          PROVE  \E Q \in SUBSET Requests :
                    /\ op = <<>> /\ op' = End(Q) /\ \A r \in Q : request[r] \in Open
                    /\ UNCHANGED <<files, cred, faults>>
      <3>1. /\ op = <<>> /\ op' = End({q}) /\ \A r \in {q} : request[r] \in Open
            /\ UNCHANGED <<files, cred, faults>>
        BY <2>2 DEF Withdraw
      <3> QED BY <3>1
    <2> QED BY <2>1, <2>2
  <1>2. UNCHANGED <<request, mandates, resumes>>
    BY <1>1 DEF files
  <1>3. Held'
    BY <1>1, <1>2, IdleHeld
  <1> QED BY <1>1, <1>2, <1>3, IdleFacts, EndsSound DEF SameTurn

LEMMA RequestSound ==
    ASSUME EscalationInv, FilesSound, NEW q \in Requests, NEW k \in Keys, Request(q, k), Held',
           UNCHANGED <<up, stops>>
    PROVE  FilesSound'
  <1>1. /\ op = <<>> /\ UNCHANGED <<files, cred, faults>> /\ request[q] = "none"
        /\ op' = <<Do("route", {q}, EligibleNow), Do("context", {q}, k)>>
    BY DEF Request, MayRoute
  <1>2. PICK a, b : a = Do("route", {q}, EligibleNow) /\ b = Do("context", {q}, k)
    OBVIOUS
  <1>3. a.do = "route" /\ a.reqs = {q} /\ b.do = "context"
    BY <1>2, DoFacts
  <1>4. op' # <<>> /\ DOMAIN op' = 1..2 /\ op'[1] = a /\ op'[2] = b
    <2>1. op' = <<a, b>>
      BY <1>1, <1>2
    <2> QED BY <2>1, Two
  <1>5. Successors'
    <2>1. ASSUME NEW i \in DOMAIN op' PROVE SuccessorOf(i)'
      <3>1. i = 1 \/ i = 2
        BY <1>4
      <3>2. CASE i = 1
        BY <1>3, <1>4, <3>2 DEF SuccessorOf, Then
      <3>3. CASE i = 2
        BY <1>3, <1>4, <3>3 DEF SuccessorOf
      <3> QED BY <3>1, <3>2, <3>3
    <2> QED BY <2>1 DEF Successors
  <1>6. Arguments'
    <2>1. ASSUME NEW i \in DOMAIN op' PROVE op'[i].do \in {"route", "context"}
      BY <1>3, <1>4
    <2> QED BY <2>1 DEF Arguments, Fits
  <1>7. \A r \in Requests \cap a.reqs : Calm(r) => Midway(r, a)
    BY <1>1, <1>3 DEF Midway
  <1>8. Stopped' /\ UNCHANGED <<request, mandates, resumes>>
    BY <1>1 DEF FilesSound, Stopped, files
  <1> QED BY <1>1, <1>3, <1>4, <1>5, <1>6, <1>7, <1>8, IdleFacts, Opens

LEMMA DecideSound ==
    ASSUME EscalationInv, FilesSound, NEW q \in Requests, NEW m \in Members, NEW v \in {"approve", "reject"},
           SubmitDecision(q, m, v), UNCHANGED stops, SameTurn
    PROVE  FilesSound'
  <1>1. op = <<>> /\ request[q] = "pending" /\ UNCHANGED <<files, cred, faults>> /\ Decides(q, m, v)
    BY DEF SubmitDecision
  <1>2. UNCHANGED <<request, mandates, resumes>>
    BY <1>1 DEF files
  <1> DEFINE d == [req |-> q, by |-> m, verdict |-> v, newest |-> TRUE]
  <1>3. PICK a, b, c, e, n :
           /\ a = Do("decide", {q}, d) /\ b = Do("grant", {q}, "active")
           /\ c = Do("queue", {q}, "ready") /\ e = Do("requests", {q}, "approved")
           /\ n = Do("requests", {q}, "rejected")
    OBVIOUS
  <1>4. /\ a.do = "decide" /\ a.reqs = {q} /\ a.arg.req = q
        /\ b.do = "grant" /\ b.reqs = {q} /\ c.do = "queue" /\ c.reqs = {q}
        /\ e.do = "requests" /\ e.arg = "approved" /\ n.do = "requests" /\ n.arg = "rejected"
    BY <1>3, DoFacts
  <1>5. \/ op' = <<a, n>>
        \/ op' = <<a, b, c, e>>
        \/ op' = <<a>>
    BY <1>1, <1>3 DEF Decides
  <1>6. \A w \in {a, b, c} : w.reqs = {q}
    BY <1>4
  <1>7. op' # <<>> /\ op'[1] = a /\ Successors' /\ \A i \in DOMAIN op' : op'[i] \in {a, b, c, e, n}
    <2>1. CASE op' = <<a, n>>
      <3>1. op' # <<>> /\ DOMAIN op' = 1..2 /\ op'[1] = a /\ op'[2] = n
        BY <2>1, Two
      <3>2. ASSUME NEW i \in DOMAIN op' PROVE SuccessorOf(i)' /\ op'[i] \in {a, n}
        <4>1. i = 1 \/ i = 2
          BY <3>1
        <4>2. CASE i = 1
          BY <1>4, <3>1, <4>2 DEF SuccessorOf, Then
        <4>3. CASE i = 2
          BY <1>4, <3>1, <4>3 DEF SuccessorOf, Last
        <4> QED BY <4>1, <4>2, <4>3
      <3> QED BY <3>1, <3>2 DEF Successors
    <2>2. CASE op' = <<a>>
      <3>1. op' # <<>> /\ DOMAIN op' = {1} /\ op'[1] = a
        BY <2>2, One
      <3>2. SuccessorOf(1)'
        BY <1>4, <3>1 DEF SuccessorOf, Last
      <3> QED BY <3>1, <3>2 DEF Successors
    <2>3. CASE op' = <<a, b, c, e>>
      <3>1. op' # <<>> /\ DOMAIN op' = 1..4 /\ op'[1] = a /\ op'[2] = b /\ op'[3] = c /\ op'[4] = e
        BY <2>3, Four
      <3>2. ASSUME NEW i \in DOMAIN op' PROVE SuccessorOf(i)' /\ op'[i] \in {a, b, c, e}
        <4>1. i = 1 \/ i = 2 \/ i = 3 \/ i = 4
          BY <3>1
        <4>2. CASE i = 1
          BY <1>4, <3>1, <4>2 DEF SuccessorOf, Then
        <4>3. CASE i = 2
          BY <1>4, <3>1, <4>3 DEF SuccessorOf, Then
        <4>4. CASE i = 3
          BY <1>4, <3>1, <4>4 DEF SuccessorOf, Then
        <4>5. CASE i = 4
          BY <1>4, <3>1, <4>5 DEF SuccessorOf, Last
        <4> QED BY <4>1, <4>2, <4>3, <4>4, <4>5
      <3> QED BY <3>1, <3>2 DEF Successors
    <2> QED BY <1>5, <2>1, <2>2, <2>3
  <1>8. Arguments'
    <2>1. \A w \in {a, b, c, e, n} : Fits(w)'
      BY <1>1, <1>2, <1>4 DEF Fits
    <2>2. ASSUME NEW i \in DOMAIN op' PROVE Fits(op[i])'
      <3>1. PICK w \in {a, b, c, e, n} : w = op'[i]
        BY <1>7
      <3>2. Fits(w)'
        BY <2>1
      <3> QED BY <3>1, <3>2 DEF Fits
    <2> QED BY <2>2 DEF Arguments
  <1>9. \A r \in Requests \cap a.reqs : Calm(r) => Midway(r, a)
    BY <1>1, <1>4 DEF Midway
  <1>10. Held' /\ Stopped'
    BY <1>1, <1>2, IdleHeld DEF FilesSound, Stopped, SameTurn
  <1> QED BY <1>1, <1>2, <1>7, <1>8, <1>9, <1>10, IdleFacts, Opens

-----------------------------------------------------------------------------
(* The writes.                                                              *)

\* A write of the requests of the first step, and of no others.
Written(Q, status) ==
    request' = [q \in Requests |-> IF q \in Q THEN status ELSE request[q]]

LEMMA WrittenElsewhere ==
    ASSUME NEW Q, NEW status, Written(Q, status), UNCHANGED <<mandates, resumes>>
    PROVE  /\ \A q \in Requests \ Q : Calm(q) => Calm(q)'
           /\ \A q \in Requests \cap Q : request'[q] = status
           /\ \A q : Bare(q) => Bare(q)'
           /\ \A q : \A S : Pair(q, S) => Pair(q, S)'
           /\ status # "none" => Lasting
  <1>1. \A q : /\ ResumesOf(q)' = ResumesOf(q)
               /\ Bare(q) => Bare(q)'
               /\ \A S : Pair(q, S) => Pair(q, S)'
    BY PairsKept
  <1>2. \A q \in Requests \ Q : request'[q] = request[q]
    BY DEF Written
  <1>3. \A q \in Requests \cap Q : request'[q] = status
    BY DEF Written
  <1>4. ASSUME NEW q \in Requests \ Q, Calm(q) PROVE Calm(q)'
    <2>1. request'[q] = request[q] /\ (Bare(q) => Bare(q)') /\ \A S : Pair(q, S) => Pair(q, S)'
      BY <1>1, <1>2
    <2> QED BY <1>4, <2>1, CalmStays
  <1>5. ASSUME status # "none" PROVE Lasting
    <2>1. \A q \in Requests : request[q] # "none" => request'[q] # "none"
      BY <1>2, <1>3, <1>5
    <2>2. \A q : ResumesOf(q)' = ResumesOf(q) /\ ResumeOf(q)' = ResumeOf(q)
      BY ResumesKept
    <2> QED BY <2>1, <2>2 DEF Lasting
  <1> QED BY <1>1, <1>3, <1>4, <1>5

LEMMA RouteSound ==
    ASSUME EscalationInv, FilesSound, Route, UNCHANGED stops, SameTurn
    PROVE  FilesSound'
  <1>1. /\ op # <<>> /\ op' = Tail(op) /\ op[1].do = "route" /\ Written(op[1].reqs, "pending")
        /\ UNCHANGED <<contexts, decisions, mandates, resumes, cred, faults>>
    BY HeadSound DEF Route, Doing, Done, Reqs, Written
  <1>2. ~ Last(1) /\ op[2] \in Owed /\ op[2].do = "context"
    BY <1>1, FirstSuccessor, NextOne DEF EscalationInv, SuccessorOf, Then, Last
  <1>3. PICK w \in Owed : w = op[2]
    BY <1>2
  <1>4. ASSUME NEW q \in Requests \cap op[1].reqs, Midway(q, op[1]) PROVE Midway(q, w)'
    <2>1. Bare(q) /\ request'[q] = "pending"
      BY <1>1, <1>4, CalmFacts, WrittenElsewhere DEF Midway
    <2>2. Bare(q)'
      BY <1>1, <2>1, WrittenElsewhere
    <2>3. Calm(q)'
      BY <2>1, <2>2 DEF Calm
    <2> QED BY <1>2, <1>3, <2>3 DEF Midway
  <1>5. \A q \in Requests \ op[1].reqs : Calm(q) => Calm(q)'
    BY <1>1, WrittenElsewhere
  <1>6. Agreeing' /\ Lasting
    BY <1>1, <1>2, <1>3, <1>4, <1>5, GoesOn, WrittenElsewhere DEF EscalationInv, FilesSound
  <1> QED BY <1>1, <1>6, UnwrittenStep

LEMMA WriteRequestsSound ==
    ASSUME EscalationInv, FilesSound, WriteRequests, UNCHANGED stops, SameTurn
    PROVE  FilesSound'
  <1>1. /\ op # <<>> /\ op' = Tail(op) /\ op[1].do = "requests" /\ Written(op[1].reqs, op[1].arg)
        /\ UNCHANGED <<contexts, decisions, mandates, resumes, cred, faults>>
    BY HeadSound DEF WriteRequests, Doing, Done, Reqs, Arg, Written
  <1>2. op[1] \in Owed /\ op[1].arg \in {"approved", "rejected", "closed"}
    BY <1>1, HeadSound, StepFacts DEF Closed
  <1>3. \A q \in Requests \ op[1].reqs : Calm(q) => Calm(q)'
    BY <1>1, WrittenElsewhere
  <1>4. /\ Lasting
        /\ \A q \in Requests \cap op[1].reqs : request'[q] = op[1].arg
        /\ \A q : Bare(q) => Bare(q)'
        /\ \A q : \A S : Pair(q, S) => Pair(q, S)'
    BY <1>1, <1>2, WrittenElsewhere
  <1>5. CASE op[1].arg = "closed"
    <2>1. ~ Last(1) /\ op[2] \in Owed /\ op[2].do = "mandates"
      BY <1>1, <1>5, FirstSuccessor, NextOne DEF EscalationInv, SuccessorOf, Then, Last
    <2>2. PICK w \in Owed : w = op[2]
      BY <2>1
    <2>3. ASSUME NEW q \in Requests \cap op[1].reqs, Midway(q, op[1]) PROVE Midway(q, w)'
      <3>1. Bare(q) \/ Pair(q, Standing)
        BY <1>1, <1>5, <2>3, CalmFacts DEF Midway
      <3>2. Bare(q)' \/ Pair(q, Standing)'
        BY <1>4, <3>1
      <3> QED BY <1>4, <1>5, <2>1, <2>2, <3>2 DEF Midway, Standing
    <2>4. Agreeing'
      BY <1>1, <1>3, <2>1, <2>2, <2>3, GoesOn DEF EscalationInv, FilesSound
    <2> QED BY <1>1, <1>4, <2>4, UnwrittenStep
  <1>6. CASE op[1].arg # "closed"
    <2>1. Last(1)
      BY <1>1, <1>6, FirstSuccessor DEF SuccessorOf
    <2>2. ASSUME NEW q \in Requests \cap op[1].reqs, Midway(q, op[1]) PROVE Calm(q)'
      <3>1. CASE op[1].arg = "approved"
        <4>1. Pair(q, {<<"active", "ready">>})
          BY <1>1, <2>2, <3>1 DEF Midway
        <4>2. Pair(q, Standing)
          BY <4>1 DEF Pair, Standing
        <4>3. Pair(q, Standing)' /\ request'[q] = "approved"
          BY <1>4, <3>1, <4>2
        <4> QED BY <4>3 DEF Calm, Standing
      <3>2. CASE op[1].arg = "rejected"
        <4>1. Bare(q)
          BY <1>1, <2>2, <3>2, CalmFacts DEF Midway
        <4> QED BY <1>4, <3>2, <4>1 DEF Calm
      <3> QED BY <1>2, <1>6, <3>1, <3>2
    <2>3. Agreeing'
      BY <1>1, <1>3, <2>1, <2>2, AtLast DEF EscalationInv, FilesSound
    <2> QED BY <1>1, <1>4, <2>3, UnwrittenStep
  <1> QED BY <1>5, <1>6

\* The context of a request, and a decision.
LEMMA FrameSound ==
    ASSUME EscalationInv, FilesSound, Frame, UNCHANGED stops, SameTurn
    PROVE  FilesSound'
  <1>1. /\ op # <<>> /\ op' = Tail(op) /\ op[1].do = "context"
        /\ UNCHANGED <<request, decisions, mandates, resumes, cred, faults>>
    BY HeadSound DEF Frame, Doing, Done
  <1>2. Last(1)
    BY <1>1, NoneBehind DEF EscalationInv
  <1>3. \A q : Calm(q) => Calm(q)'
    BY <1>1, MidwayStays
  <1>4. \A q : Midway(q, op[1]) => Calm(q)'
    BY <1>1, <1>3 DEF Midway
  <1>5. Agreeing'
    BY <1>1, <1>2, <1>3, <1>4, AtLast DEF EscalationInv, FilesSound
  <1> QED BY <1>1, <1>5, LastingKept, UnwrittenStep

LEMMA SignSound ==
    ASSUME EscalationInv, FilesSound, Sign, UNCHANGED stops, SameTurn
    PROVE  FilesSound'
  <1>1. /\ op # <<>> /\ op' = Tail(op) /\ op[1].do = "decide"
        /\ UNCHANGED <<request, eligible, contexts, mandates, resumes, cred, faults>>
    BY HeadSound DEF Sign, Doing, Done
  <1>2. \A q : Calm(q) => Calm(q)'
    BY <1>1, MidwayStays
  <1>3. \A q : Midway(q, op[1]) => Calm(q)' /\ request'[q] = "pending"
    BY <1>1, <1>2 DEF Midway
  <1>4. Agreeing'
    <2>1. CASE Last(1)
      BY <1>1, <1>2, <1>3, <2>1, AtLast DEF EscalationInv, FilesSound
    <2>2. CASE ~ Last(1)
      <3>1. PICK w \in Owed : w = op[2]
        BY <1>1, <2>2, NextOne DEF EscalationInv
      <3>2. w.do = "grant" \/ (w.do = "requests" /\ w.arg = "rejected")
        BY <1>1, <2>2, <3>1, FirstSuccessor DEF SuccessorOf, Then
      <3>3. \A q : Calm(q)' /\ request'[q] = "pending" => Midway(q, w)'
        BY <3>2 DEF Midway
      <3> QED BY <1>1, <1>2, <1>3, <2>2, <3>1, <3>3, GoesOn DEF EscalationInv, FilesSound
    <2> QED BY <2>1, <2>2
  <1> QED BY <1>1, <1>4, LastingKept, UnwrittenStep

-----------------------------------------------------------------------------
(* The mandates.                                                            *)

LEMMA GrantSound ==
    ASSUME EscalationInv, FilesSound, op # <<>>, op' = Tail(op), op[1].do = "grant",
           mandates' = Append(mandates, [req |-> CHOOSE q \in op[1].reqs : TRUE, status |-> op[1].arg]),
           UNCHANGED <<request, resumes, faults, stops>>, SameTurn
    PROVE  FilesSound'
  <1>1. ~ Last(1) /\ op[2] \in Owed /\ op[2].do = "queue" /\ op[1] \in Owed
    BY FirstSuccessor, NextOne DEF EscalationInv, SuccessorOf, Then, Last
  <1>2. PICK w \in Owed : w = op[2]
    BY <1>1
  <1>3. PICK p \in Requests : op[1].reqs = {p}
    BY HeadSound DEF SoundAt
  <1>4. op[1].arg = "active" /\ mandates' = Append(mandates, [req |-> p, status |-> "active"])
    <2>1. op[1].arg = "active"
      BY <1>1, StepFacts
    <2>2. (CHOOSE q \in op[1].reqs : TRUE) = p
      BY <1>3
    <2> QED BY <2>1, <2>2
  <1>5. mandates \in Seq(Mandate) /\ Len(mandates) \in Nat /\ DOMAIN mandates = 1..Len(mandates)
    BY DEF EscalationInv, Types, TypeOK
  <1>6. /\ Len(mandates') = Len(mandates) + 1 /\ DOMAIN mandates' = 1..(Len(mandates) + 1)
        /\ mandates' # <<>>
        /\ \A i \in DOMAIN mandates : i \in DOMAIN mandates' /\ mandates'[i] = mandates[i]
        /\ mandates'[Len(mandates) + 1] = [req |-> p, status |-> "active"]
    BY <1>4, <1>5
  <1>7. \A q : ResumesOf(q)' = ResumesOf(q)
    BY DEF ResumesOf
  <1>8. ASSUME NEW q \in Requests \ op[1].reqs, Calm(q) PROVE Calm(q)'
    <2>1. Granted(q)' = Granted(q)
      BY <1>3, <1>5, <1>6, <1>8 DEF Granted
    <2>2. (Bare(q) => Bare(q)') /\ \A S : Pair(q, S) => Pair(q, S)'
      <3>1. \A m \in Granted(q) : mandates'[m] = mandates[m]
        BY <1>6 DEF Granted
      <3> QED BY <1>7, <2>1, <3>1, PairStays
    <2> QED BY <1>8, <2>2, CalmStays
  <1>9. ASSUME NEW q \in Requests \cap op[1].reqs, Midway(q, op[1]) PROVE Midway(q, w)'
    <2>1. q = p /\ request[q] = "pending" /\ Bare(q)
      BY <1>3, <1>9, CalmFacts DEF Midway
    <2>2. Granted(q)' = {Len(mandates')}
      BY <1>5, <1>6, <2>1 DEF Granted, Bare
    <2>3. ResumesOf(q)' = {}
      BY <1>7, <2>1 DEF Bare
    <2> QED BY <1>1, <1>2, <1>6, <2>1, <2>2, <2>3 DEF Midway
  <1>10. Agreeing'
    BY <1>1, <1>2, <1>8, <1>9, GoesOn DEF EscalationInv, FilesSound
  <1> QED BY <1>10, LastingKept, UnwrittenStep

LEMMA MandatesKept ==
    ASSUME DOMAIN mandates' = DOMAIN mandates, UNCHANGED resumes,
           \A i \in DOMAIN mandates : mandates'[i].req = mandates[i].req
    PROVE  \A q : /\ Granted(q)' = Granted(q) /\ ResumesOf(q)' = ResumesOf(q)
                  /\ Bare(q) => Bare(q)'
  <1>1. \A q : Granted(q)' = Granted(q) /\ ResumesOf(q)' = ResumesOf(q)
    BY DEF Granted, ResumesOf
  <1> QED BY <1>1 DEF Bare

\* The active mandates of closed requests end.
LEMMA MandatesEnd ==
    ASSUME EscalationInv, FilesSound, op # <<>>, op' = Tail(op), op[1].do = "mandates",
           mandates' = [i \in DOMAIN mandates |->
              IF mandates[i].req \in op[1].reqs /\ mandates[i].status = "active"
              THEN [mandates[i] EXCEPT !.status = op[1].arg] ELSE mandates[i]],
           UNCHANGED <<request, resumes, faults, stops>>, SameTurn
    PROVE  FilesSound'
  <1>1. ~ Last(1) /\ op[2] \in Owed /\ op[2].do = "resumes" /\ op[1] \in Owed
    BY FirstSuccessor, NextOne DEF EscalationInv, SuccessorOf, Then, Last
  <1>2. PICK w \in Owed : w = op[2]
    BY <1>1
  <1>3. op[1].arg = "ended"
    BY <1>1, StepFacts
  <1>4. ASSUME NEW i \in DOMAIN mandates
        PROVE  /\ mandates'[i].req = mandates[i].req
               /\ mandates[i].req \notin op[1].reqs => mandates'[i] = mandates[i]
               /\ mandates[i].req \in op[1].reqs =>
                     mandates'[i].status = IF mandates[i].status = "active" THEN "ended"
                                           ELSE mandates[i].status
    <2>1. mandates \in Seq(Mandate)
      BY DEF EscalationInv, Types, TypeOK
    <2>2. mandates[i] \in Mandate
      BY <2>1
    <2> QED BY <1>3, <2>2 DEF Mandate
  <1>5. DOMAIN mandates' = DOMAIN mandates
    OBVIOUS
  <1>6. \A q : Granted(q)' = Granted(q) /\ ResumesOf(q)' = ResumesOf(q) /\ (Bare(q) => Bare(q)')
    BY <1>4, <1>5, MandatesKept
  <1>7. ASSUME NEW q \in Requests \ op[1].reqs, Calm(q) PROVE Calm(q)'
    <2>1. \A m \in Granted(q) : mandates'[m] = mandates[m]
      BY <1>4, <1>7 DEF Granted
    <2>2. \A S : Pair(q, S) => Pair(q, S)'
      BY <1>6, <2>1, PairStays
    <2> QED BY <1>6, <1>7, <2>2, CalmStays
  <1>8. ASSUME NEW q \in Requests \cap op[1].reqs, Midway(q, op[1]) PROVE Midway(q, w)'
    <2>1. request[q] = "closed" /\ (Bare(q) \/ Pair(q, Standing))
      BY <1>8 DEF Midway
    <2>2. ASSUME Pair(q, Standing) PROVE Pair(q, Ending)'
      <3>1. ASSUME NEW m \in Granted(q), NEW r \in ResumesOf(q),
                   <<mandates[m].status, resumes[r].status>> \in Standing
            PROVE  <<mandates'[m].status, resumes'[r].status>> \in Ending
        <4>1. mandates'[m].status = IF mandates[m].status = "active" THEN "ended" ELSE mandates[m].status
          BY <1>4, <1>8 DEF Granted
        <4> QED BY <3>1, <4>1 DEF Standing, Ending, Over
      <3> QED BY <1>6, <2>2, <3>1, PairMoves
    <2>3. Bare(q)' \/ Pair(q, Ending)'
      BY <1>6, <2>1, <2>2
    <2> QED BY <1>1, <1>2, <2>1, <2>3 DEF Midway, Ending, Over
  <1>9. Agreeing'
    BY <1>1, <1>2, <1>7, <1>8, GoesOn DEF EscalationInv, FilesSound
  <1> QED BY <1>9, LastingKept, UnwrittenStep

\* The mandate of the resume that completed is consumed.
LEMMA ConsumeSound ==
    ASSUME EscalationInv, FilesSound, op # <<>>, op' = Tail(op), op[1].do = "consume",
           mandates' = [mandates EXCEPT ![op[1].arg].status = "consumed"],
           UNCHANGED <<request, resumes, faults, stops>>, SameTurn
    PROVE  FilesSound'
  <1>1. ~ Last(1) /\ op[2] \in Owed /\ op[2].do = "record"
    BY FirstSuccessor, NextOne DEF EscalationInv, SuccessorOf, Then, Last
  <1>2. PICK w \in Owed : w = op[2]
    BY <1>1
  <1>3. PICK p \in Requests : /\ op[1].reqs = {p} /\ ResumesOf(p) # {}
                              /\ op[1].arg = resumes[ResumeOf(p)].mandate
    BY FirstSuccessor DEF Fits
  <1>4. ASSUME faults + stops = 0, Midway(p, op[1])
        PROVE  Granted(p) = {op[1].arg} /\ Pair(p, {<<"active", "completed">>}) /\ request[p] = "approved"
    <2>1. Pair(p, {<<"active", "completed">>}) /\ request[p] = "approved"
      BY <1>4 DEF Midway
    <2>2. PICK m \in DOMAIN mandates, r \in DOMAIN resumes :
             Granted(p) = {m} /\ ResumesOf(p) = {r} /\ resumes[r].mandate = m
      BY <2>1 DEF Pair
    <2>3. resumes \in Seq(Resume)
      BY DEF EscalationInv, Types, TypeOK
    <2>4. ResumeOf(p) = r
      BY <1>3, <2>2, <2>3, FirstResume
    <2> QED BY <1>3, <2>1, <2>2, <2>4
  <1>5. ASSUME NEW i \in DOMAIN mandates
        PROVE  /\ mandates'[i].req = mandates[i].req
               /\ i # op[1].arg => mandates'[i] = mandates[i]
               /\ i = op[1].arg => mandates'[i].status = "consumed"
    <2>1. mandates \in Seq(Mandate)
      BY DEF EscalationInv, Types, TypeOK
    <2>2. mandates[i] \in Mandate
      BY <2>1
    <2> QED BY <2>2 DEF Mandate
  <1>6. DOMAIN mandates' = DOMAIN mandates
    OBVIOUS
  <1>7. \A q : Granted(q)' = Granted(q) /\ ResumesOf(q)' = ResumesOf(q) /\ (Bare(q) => Bare(q)')
    BY <1>5, <1>6, MandatesKept
  <1>8. ASSUME faults + stops = 0, NEW q \in Requests \ {p}, Calm(q) PROVE Calm(q)'
    <2>1. Granted(p) = {op[1].arg}
      BY <1>3, <1>4, <1>8, AtFirst DEF FilesSound
    <2>2. \A m \in Granted(q) : mandates'[m] = mandates[m]
      BY <1>5, <1>8, <2>1 DEF Granted
    <2>3. \A S : Pair(q, S) => Pair(q, S)'
      BY <1>7, <2>2, PairStays
    <2> QED BY <1>7, <1>8, <2>3, CalmStays
  <1>9. ASSUME faults + stops = 0, Midway(p, op[1]) PROVE Midway(p, w)'
    <2>1. Granted(p) = {op[1].arg} /\ Pair(p, {<<"active", "completed">>}) /\ request[p] = "approved"
      BY <1>4, <1>9
    <2>2. ASSUME NEW m \in Granted(p), NEW r \in ResumesOf(p),
                 <<mandates[m].status, resumes[r].status>> \in {<<"active", "completed">>}
          PROVE  <<mandates'[m].status, resumes'[r].status>> \in Standing
      <3>1. mandates'[m].status = "consumed"
        BY <1>5, <2>1 DEF Granted
      <3> QED BY <2>2, <3>1 DEF Standing
    <2>3. Pair(p, Standing)'
      BY <1>7, <2>1, <2>2, PairMoves
    <2>4. Calm(p)'
      BY <2>1, <2>3 DEF Calm, Standing
    <2> QED BY <1>1, <1>2, <2>4 DEF Midway
  <1>10. Agreeing'
    <2>1. CASE faults + stops = 0
      <3>1. \A q \in Requests \ op[1].reqs : Calm(q) => Calm(q)'
        BY <1>3, <1>8, <2>1
      <3>2. \A q \in Requests \cap op[1].reqs : Midway(q, op[1]) => Midway(q, w)'
        BY <1>3, <1>9, <2>1
      <3> QED BY <1>1, <1>2, <3>1, <3>2, GoesOn DEF EscalationInv, FilesSound
    <2>2. CASE faults + stops # 0
      BY <2>2 DEF Agreeing
    <2> QED BY <2>1, <2>2
  <1> QED BY <1>10, LastingKept, UnwrittenStep

-----------------------------------------------------------------------------
(* The resumes.                                                             *)

LEMMA QueueSound ==
    ASSUME EscalationInv, FilesSound, op # <<>>, op' = Tail(op), op[1].do = "queue",
           resumes' = Append(resumes, [req |-> CHOOSE q \in op[1].reqs : TRUE,
                                       mandate |-> Len(mandates), status |-> op[1].arg]),
           UNCHANGED <<request, mandates, faults, stops>>, SameTurn
    PROVE  FilesSound'
  <1>1. ~ Last(1) /\ op[2] \in Owed /\ op[2].do = "requests" /\ op[2].arg = "approved" /\ op[1] \in Owed
    BY FirstSuccessor, NextOne DEF EscalationInv, SuccessorOf, Then, Last
  <1>2. PICK w \in Owed : w = op[2]
    BY <1>1
  <1>3. PICK p \in Requests : op[1].reqs = {p}
    BY HeadSound DEF SoundAt
  <1> DEFINE new == [req |-> p, mandate |-> Len(mandates), status |-> "ready"]
  <1>4. resumes' = Append(resumes, new)
    <2>1. op[1].arg = "ready"
      BY <1>1, StepFacts
    <2>2. (CHOOSE q \in op[1].reqs : TRUE) = p
      BY <1>3
    <2> QED BY <2>1, <2>2
  <1>5. resumes \in Seq(Resume) /\ Len(resumes) \in Nat /\ DOMAIN resumes = 1..Len(resumes)
    BY DEF EscalationInv, Types, TypeOK
  <1>6. /\ DOMAIN resumes' = 1..(Len(resumes) + 1)
        /\ \A i \in DOMAIN resumes : i \in DOMAIN resumes' /\ resumes'[i] = resumes[i]
        /\ resumes'[Len(resumes) + 1] = new
    <2> HIDE DEF new
    <2> QED BY <1>4, <1>5
  <1>7. \A q : Granted(q)' = Granted(q)
    BY DEF Granted
  <1>8. Lasting
    <2>1. ASSUME NEW q \in Requests, ResumesOf(q) # {}
          PROVE  /\ ResumesOf(q)' # {} /\ ResumeOf(q)' = ResumeOf(q)
                 /\ resumes'[ResumeOf(q)].mandate = resumes[ResumeOf(q)].mandate
      <3>1. /\ ResumeOf(q) \in ResumesOf(q) /\ ResumeOf(q) \in DOMAIN resumes
            /\ \A j \in ResumesOf(q) : ResumeOf(q) <= j
        BY <1>5, <2>1, FirstResume
      <3>2. ResumesOf(q) \subseteq ResumesOf(q)' /\ ResumesOf(q)' \subseteq Nat
        BY <1>5, <1>6 DEF ResumesOf
      <3>3. PICK m \in ResumesOf(q) : m = ResumeOf(q) /\ m \in DOMAIN resumes
        BY <3>1
      <3>4. \A j \in ResumesOf(q)' : m <= j
        BY <1>5, <1>6, <3>1, <3>3 DEF ResumesOf
      <3>5. (CHOOSE i \in ResumesOf(q)' : \A j \in ResumesOf(q)' : i <= j) = m
        <4>1. PICK S, T : S = ResumesOf(q) /\ T = ResumesOf(q)'
          OBVIOUS
        <4> QED BY <3>2, <3>3, <3>4, <4>1, StaysFirst
      <3>6. ResumeOf(q)' = m
        BY <3>5 DEF ResumeOf
      <3> QED BY <1>6, <3>2, <3>3, <3>6
    <2> QED BY <2>1 DEF Lasting
  <1>9. ASSUME NEW q \in Requests \ op[1].reqs, Calm(q) PROVE Calm(q)'
    <2>1. ResumesOf(q)' = ResumesOf(q)
      BY <1>3, <1>5, <1>6, <1>9 DEF ResumesOf
    <2>2. \A r \in ResumesOf(q) : resumes'[r] = resumes[r]
      BY <1>6 DEF ResumesOf
    <2>3. (Bare(q) => Bare(q)') /\ \A S : Pair(q, S) => Pair(q, S)'
      BY <1>7, <2>1, <2>2, PairStays
    <2> QED BY <1>9, <2>3, CalmStays
  <1>10. ASSUME NEW q \in Requests \cap op[1].reqs, Midway(q, op[1]) PROVE Midway(q, w)'
    <2>1. /\ q = p /\ request[q] = "pending" /\ Granted(q) = {Len(mandates)} /\ ResumesOf(q) = {}
          /\ mandates # <<>> /\ mandates[Len(mandates)].status = "active"
      BY <1>3, <1>10 DEF Midway
    <2>2. ResumesOf(q)' = {Len(resumes) + 1}
      BY <1>5, <1>6, <2>1 DEF ResumesOf
    <2>3. Len(mandates) \in DOMAIN mandates /\ Granted(q)' = {Len(mandates)}
      BY <1>7, <2>1 DEF Granted
    <2>4. Pair(q, {<<"active", "ready">>})'
      <3>1. /\ Len(resumes) + 1 \in DOMAIN resumes' /\ resumes'[Len(resumes) + 1].status = "ready"
            /\ resumes'[Len(resumes) + 1].mandate = Len(mandates)
        BY <1>5, <1>6
      <3> QED BY <2>1, <2>2, <2>3, <3>1 DEF Pair
    <2> QED BY <1>1, <1>2, <2>1, <2>4 DEF Midway
  <1>11. Agreeing'
    BY <1>1, <1>2, <1>9, <1>10, GoesOn DEF EscalationInv, FilesSound
  <1>12. Known'
    <2>1. request[p] # "none"
      BY <1>3, FirstSuccessor DEF Fits
    <2>2. ASSUME NEW i \in DOMAIN resumes' PROVE request'[resumes'[i].req] # "none"
      <3>1. i \in DOMAIN resumes \/ i = Len(resumes) + 1
        BY <1>5, <1>6
      <3>2. CASE i \in DOMAIN resumes
        BY <1>6, <3>2 DEF FilesSound, Known
      <3>3. CASE i = Len(resumes) + 1
        <4>1. resumes'[i].req = p
          BY <1>6, <3>3
        <4> QED BY <2>1, <4>1
      <3> QED BY <3>1, <3>2, <3>3
    <2> QED BY <2>2 DEF Known
  <1>13. Held'
    <2>1. ASSUME NEW i \in DOMAIN resumes', resumes'[i].status = "executing"
          PROVE  i \in DOMAIN resumes /\ resumes'[i] = resumes[i]
      BY <1>5, <1>6, <2>1
    <2>2. \A i : ~ Beginning(i)
      BY DEF Beginning
    <2> QED BY <2>1, <2>2, HeldStays DEF FilesSound
  <1> QED BY <1>8, <1>11, <1>12, <1>13, QuietSound DEF SameTurn

LEMMA MarkedKeeps ==
    ASSUME EscalationInv, FilesSound, Marked, UNCHANGED <<request, mandates>>
    PROVE  /\ Lasting /\ Known'
           /\ \A q : /\ Granted(q)' = Granted(q) /\ ResumesOf(q)' = ResumesOf(q)
                     /\ Bare(q) => Bare(q)'
                     /\ \A r \in ResumesOf(q) : resumes'[r].mandate = resumes[r].mandate
  <1>1. resumes \in Seq(Resume)
    BY DEF EscalationInv, Types, TypeOK
  <1>2. Lasting
    BY <1>1, LastingMarked
  <1>3. Known'
    BY <1>2, KnownStays DEF EscalationInv, FilesSound, Marked
  <1>4. \A q : Granted(q)' = Granted(q) /\ ResumesOf(q)' = ResumesOf(q)
    BY <1>1, ResumesMarked DEF Granted, Marked
  <1>5. \A q : \A r \in ResumesOf(q) : resumes'[r].mandate = resumes[r].mandate
    BY DEF Marked, ResumesOf
  <1> QED BY <1>2, <1>3, <1>4, <1>5 DEF Bare

\* The resumes of closed requests that are ready are invalidated.
LEMMA ResumesEnd ==
    ASSUME EscalationInv, FilesSound, op # <<>>, op' = Tail(op), op[1].do = "resumes",
           resumes' = [i \in DOMAIN resumes |->
              IF resumes[i].req \in op[1].reqs /\ resumes[i].status = "ready"
              THEN [resumes[i] EXCEPT !.status = op[1].arg] ELSE resumes[i]],
           UNCHANGED <<request, mandates, faults, stops>>, SameTurn
    PROVE  FilesSound'
  <1>1. Last(1)
    BY NoneBehind DEF EscalationInv
  <1>2. op[1].arg = "invalidated"
    BY HeadSound, StepFacts
  <1>3. resumes \in Seq(Resume)
    BY DEF EscalationInv, Types, TypeOK
  <1>4. Marked
    BY <1>2, <1>3, EachMarked
  <1>5. ASSUME NEW i \in DOMAIN resumes
        PROVE  /\ resumes[i].req \notin op[1].reqs => resumes'[i] = resumes[i]
               /\ resumes[i].req \in op[1].reqs =>
                     resumes'[i].status = IF resumes[i].status = "ready" THEN "invalidated"
                                          ELSE resumes[i].status
    <2>1. resumes[i] \in Resume
      BY <1>3
    <2> QED BY <1>2, <2>1 DEF Resume
  <1>6. /\ Lasting /\ Known'
        /\ \A q : /\ Granted(q)' = Granted(q) /\ ResumesOf(q)' = ResumesOf(q)
                  /\ Bare(q) => Bare(q)'
                  /\ \A r \in ResumesOf(q) : resumes'[r].mandate = resumes[r].mandate
    BY <1>4, MarkedKeeps
  <1>7. ASSUME NEW q \in Requests \ op[1].reqs, Calm(q) PROVE Calm(q)'
    <2>1. \A r \in ResumesOf(q) : resumes'[r] = resumes[r]
      BY <1>5, <1>7 DEF ResumesOf
    <2>2. \A S : Pair(q, S) => Pair(q, S)'
      BY <1>6, <2>1, PairStays
    <2> QED BY <1>6, <1>7, <2>2, CalmStays
  <1>8. ASSUME NEW q \in Requests \cap op[1].reqs, Midway(q, op[1]) PROVE Calm(q)'
    <2>1. request[q] = "closed" /\ (Bare(q) \/ Pair(q, Ending))
      BY <1>8 DEF Midway
    <2>2. ASSUME Pair(q, Ending) PROVE Pair(q, Over)'
      <3>1. ASSUME NEW m \in Granted(q), NEW r \in ResumesOf(q),
                   <<mandates[m].status, resumes[r].status>> \in Ending
            PROVE  <<mandates'[m].status, resumes'[r].status>> \in Over
        <4>1. resumes'[r].status = IF resumes[r].status = "ready" THEN "invalidated" ELSE resumes[r].status
          BY <1>5, <1>8 DEF ResumesOf
        <4> QED BY <3>1, <4>1 DEF Ending, Over
      <3> QED BY <1>6, <2>2, <3>1, PairMoves
    <2>3. Bare(q)' \/ Pair(q, Over)'
      BY <1>6, <2>1, <2>2
    <2> QED BY <2>1, <2>3 DEF Calm, Over
  <1>9. Agreeing'
    BY <1>1, <1>7, <1>8, AtLast DEF EscalationInv, FilesSound
  <1>10. Held'
    <2>1. \A i \in DOMAIN resumes' : resumes'[i].status = "executing" =>
             /\ i \in DOMAIN resumes /\ resumes[i].status = "executing"
             /\ resumes'[i].req = resumes[i].req
      BY <1>4, <1>5 DEF Marked
    <2>2. \A i : ~ Beginning(i)
      BY DEF Beginning
    <2> QED BY <2>1, <2>2, HeldStays DEF FilesSound
  <1> QED BY <1>6, <1>9, <1>10, QuietSound DEF SameTurn

\* The resume that is written is the one of its request.
LEMMA OneMarked ==
    ASSUME EscalationInv, FilesSound, op # <<>>,
           NEW p \in Requests, op[1].reqs = {p}, ResumesOf(p) # {}, op[1].arg = ResumeOf(p),
           NEW status \in {"executing", "completed", "failed"},
           resumes' = [resumes EXCEPT ![op[1].arg].status = status], UNCHANGED <<request, mandates>>
    PROVE  /\ Marked /\ op[1].arg \in DOMAIN resumes /\ resumes'[op[1].arg].status = status
           /\ resumes[op[1].arg].req = p
           /\ \A i \in DOMAIN resumes \ {op[1].arg} : resumes'[i] = resumes[i]
           /\ \A q \in Requests \ op[1].reqs : Calm(q) => Calm(q)'
           /\ \A S, T : (\A st : st \in S => <<st[1], status>> \in T) /\ Pair(p, S) => Pair(p, T)'
  <1>1. resumes \in Seq(Resume)
    BY DEF EscalationInv, Types, TypeOK
  <1>2. PICK a \in DOMAIN resumes : a = op[1].arg /\ resumes[a].req = p
    BY <1>1, FirstResume
  <1>3. resumes' = [resumes EXCEPT ![a].status = status]
    BY <1>2
  <1>4. Marked
    <2>1. \A i \in DOMAIN resumes : \/ resumes'[i] = resumes[i]
                                    \/ resumes'[i] = [resumes[i] EXCEPT !.status = status]
      BY <1>3
    <2> QED BY <1>1, <1>3, <2>1, EachMarked
  <1>5. resumes'[a].status = status /\ \A i \in DOMAIN resumes \ {a} : resumes'[i] = resumes[i]
    <2>1. resumes[a] \in Resume
      BY <1>1
    <2> QED BY <1>3, <2>1 DEF Resume
  <1>6. \A q : /\ Granted(q)' = Granted(q) /\ ResumesOf(q)' = ResumesOf(q)
               /\ Bare(q) => Bare(q)'
               /\ \A r \in ResumesOf(q) : resumes'[r].mandate = resumes[r].mandate
    BY <1>4, MarkedKeeps
  <1>7. ASSUME NEW q \in Requests \ op[1].reqs, Calm(q) PROVE Calm(q)'
    <2>1. \A r \in ResumesOf(q) : resumes'[r] = resumes[r]
      BY <1>2, <1>5, <1>7 DEF ResumesOf
    <2>2. \A S : Pair(q, S) => Pair(q, S)'
      BY <1>6, <2>1, PairStays
    <2> QED BY <1>6, <1>7, <2>2, CalmStays
  <1>8. ASSUME NEW S, NEW T, \A st : st \in S => <<st[1], status>> \in T, Pair(p, S) PROVE Pair(p, T)'
    <2>1. \A r \in ResumesOf(p) : r = a
      <3>1. PICK r \in DOMAIN resumes : ResumesOf(p) = {r}
        BY <1>8 DEF Pair
      <3> QED BY <1>2, <3>1 DEF ResumesOf
    <2>2. ASSUME NEW m \in Granted(p), NEW r \in ResumesOf(p),
                 <<mandates[m].status, resumes[r].status>> \in S
          PROVE  <<mandates'[m].status, resumes'[r].status>> \in T
      <3>1. resumes'[r].status = status
        BY <1>5, <2>1
      <3>2. <<mandates[m].status, resumes[r].status>>[1] = mandates[m].status
        OBVIOUS
      <3> QED BY <1>8, <2>2, <3>1, <3>2
    <2> QED BY <1>6, <1>8, <2>2, PairMoves
  <1> QED BY <1>2, <1>4, <1>5, <1>7, <1>8

LEMMA CompleteSound ==
    ASSUME EscalationInv, FilesSound, op # <<>>, op' = Tail(op), op[1].do \in {"complete", "fail"},
           resumes' = [resumes EXCEPT ![op[1].arg].status =
                          IF op[1].do = "complete" THEN "completed" ELSE "failed"],
           UNCHANGED <<request, mandates, faults, stops>>, SameTurn
    PROVE  FilesSound'
  <1>1. PICK p \in Requests : op[1].reqs = {p} /\ ResumesOf(p) # {} /\ op[1].arg = ResumeOf(p)
    BY FirstSuccessor DEF Fits
  <1>2. PICK status \in {"completed", "failed"} :
           status = IF op[1].do = "complete" THEN "completed" ELSE "failed"
    OBVIOUS
  <1>3. /\ Marked /\ resumes'[op[1].arg].status = status
        /\ \A i \in DOMAIN resumes \ {op[1].arg} : resumes'[i] = resumes[i]
        /\ \A q \in Requests \ op[1].reqs : Calm(q) => Calm(q)'
        /\ \A S, T : (\A st : st \in S => <<st[1], status>> \in T) /\ Pair(p, S) => Pair(p, T)'
    BY <1>1, <1>2, OneMarked
  <1>4. Lasting /\ Known'
    BY <1>3, MarkedKeeps
  <1>5. ASSUME Midway(p, op[1]) PROVE request[p] = "approved" /\ Pair(p, {<<"active", status>>})'
    <2>1. request[p] = "approved" /\ Pair(p, {<<"active", "executing">>})
      BY <1>5 DEF Midway
    <2>2. \A st : st \in {<<"active", "executing">>} => <<st[1], status>> \in {<<"active", status>>}
      OBVIOUS
    <2> QED BY <1>3, <2>1, <2>2
  <1>6. Agreeing'
    <2>1. CASE op[1].do = "complete"
      <3>1. ~ Last(1) /\ op[2] \in Owed /\ op[2].do = "consume"
        BY <2>1, FirstSuccessor, NextOne DEF EscalationInv, SuccessorOf, Then, Last
      <3>2. PICK w \in Owed : w = op[2]
        BY <3>1
      <3>3. \A q \in Requests \cap op[1].reqs : Midway(q, op[1]) => Midway(q, w)'
        <4>1. Midway(p, op[1]) => Midway(p, w)'
          BY <1>2, <1>5, <2>1, <3>1, <3>2 DEF Midway
        <4> QED BY <1>1, <4>1
      <3> QED BY <1>3, <3>1, <3>2, <3>3, GoesOn DEF EscalationInv, FilesSound
    <2>2. CASE op[1].do = "fail"
      <3>1. Last(1)
        BY <2>2, NoneBehind DEF EscalationInv
      <3>2. ASSUME Midway(p, op[1]) PROVE Calm(p)'
        <4>1. request'[p] = "approved" /\ Pair(p, {<<"active", "failed">>})'
          BY <1>2, <1>5, <2>2, <3>2
        <4>2. Pair(p, Standing)'
          BY <4>1 DEF Pair, Standing
        <4> QED BY <4>1, <4>2 DEF Calm, Standing
      <3>3. \A q \in Requests \cap op[1].reqs : Midway(q, op[1]) => Calm(q)'
        BY <1>1, <3>2
      <3> QED BY <1>3, <3>1, <3>3, AtLast DEF EscalationInv, FilesSound
    <2> QED BY <2>1, <2>2
  <1>7. Held'
    <2>1. ASSUME NEW i \in DOMAIN resumes', resumes'[i].status = "executing"
          PROVE  i \in DOMAIN resumes /\ resumes'[i] = resumes[i] /\ i # op[1].arg
      BY <1>2, <1>3, <2>1 DEF Marked
    <2>2. \A i : i # op[1].arg => ~ Beginning(i)
      BY DEF Beginning
    <2> QED BY <2>1, <2>2, HeldStays DEF FilesSound
  <1> QED BY <1>4, <1>6, <1>7, QuietSound DEF SameTurn

\* The list is given up.
LEMMA GivenUp ==
    ASSUME FilesSound, op' = <<>>, UNCHANGED <<request, mandates, resumes>>, Stopped', Held',
           faults' + stops' = 0 => \A q \in Requests : Calm(q)
    PROVE  FilesSound'
  <1>1. Successors' /\ Arguments'
    BY DEF Successors, Arguments
  <1>2. Agreeing'
    <2>1. \A q : Calm(q) => Calm(q)'
      BY MidwayStays
    <2> QED BY <2>1, Idly
  <1>3. Known'
    BY DEF FilesSound, Known
  <1> QED BY <1>1, <1>2, <1>3 DEF FilesSound

LEMMA BeginSound ==
    ASSUME EscalationInv, FilesSound, Begin, UNCHANGED stops, SameTurn
    PROVE  FilesSound'
  <1>1. /\ op # <<>> /\ op[1].do = "begin" /\ SoundAt(1) /\ op[1] \in Owed
        /\ UNCHANGED <<request, eligible, contexts, decisions, mandates, cred, faults>>
        /\ \/ op' = <<>> /\ UNCHANGED resumes
           \/ op' = Tail(op) /\ resumes' = [resumes EXCEPT ![op[1].arg].status = "executing"]
    BY HeadSound DEF Begin, Doing, Done, Arg
  <1>2. \A i : ~ Beginning(i)
    BY <1>1 DEF Beginning
  <1>3. CASE op' = <<>> /\ UNCHANGED resumes
    <2>1. faults + stops = 0 => \A q \in Requests : Calm(q)
      BY <1>1, AtFirst DEF FilesSound, Midway
    <2>2. Held'
      BY <1>1, <1>2, <1>3, HeldStays DEF FilesSound
    <2>3. Stopped'
      BY DEF SameTurn, FilesSound, Stopped
    <2> QED BY <1>1, <1>3, <2>1, <2>2, <2>3, GivenUp
  <1>4. CASE op' = Tail(op) /\ resumes' = [resumes EXCEPT ![op[1].arg].status = "executing"]
    <2>1. PICK p \in Requests : op[1].reqs = {p} /\ Resumable(p, op[1].arg) /\ FirstReady(p)
      BY <1>1 DEF SoundAt
    <2>2. ResumesOf(p) # {} /\ op[1].arg = ResumeOf(p) /\ request[p] = "approved"
      BY <2>1 DEF Resumable
    <2>3. /\ Marked /\ op[1].arg \in DOMAIN resumes
          /\ resumes[op[1].arg].req = p
          /\ \A i \in DOMAIN resumes \ {op[1].arg} : resumes'[i] = resumes[i]
          /\ \A q \in Requests \ op[1].reqs : Calm(q) => Calm(q)'
          /\ \A S, T : (\A st : st \in S => <<st[1], "executing">> \in T) /\ Pair(p, S) => Pair(p, T)'
      BY <1>1, <1>4, <2>1, <2>2, OneMarked
    <2>4. ~ Last(1) /\ 2 \in DOMAIN op /\ op[2] \in Owed /\ op[2].do = "execute" /\ op[2].reqs = {p}
      BY <1>1, <1>4, <2>1, FirstSuccessor, NextOne DEF EscalationInv, SuccessorOf, Then, Last
    <2>5. PICK w \in Owed : w = op[2]
      BY <2>4
    <2>6. ASSUME Midway(p, op[1]) PROVE Midway(p, w)'
      <3>1. Pair(p, Standing)
        BY <1>1, <2>2, <2>6, CalmFacts DEF Midway
      <3>2. Pair(p, {<<"active", "ready">>})
        <4>1. PICK m \in DOMAIN mandates, r \in DOMAIN resumes :
                 /\ Granted(p) = {m} /\ ResumesOf(p) = {r} /\ resumes[r].mandate = m
                 /\ <<mandates[m].status, resumes[r].status>> \in Standing
          BY <3>1 DEF Pair
        <4>2. resumes \in Seq(Resume)
          BY DEF EscalationInv, Types, TypeOK
        <4>3. r = ResumeOf(p)
          BY <2>2, <4>1, <4>2, FirstResume
        <4>4. resumes[r].status = "ready"
          BY <2>1, <4>3 DEF FirstReady
        <4>5. mandates[m].status = "active"
          BY <4>1, <4>4 DEF Standing
        <4> QED BY <4>1, <4>4, <4>5 DEF Pair
      <3>3. \A st : st \in {<<"active", "ready">>} => <<st[1], "executing">> \in {<<"active", "executing">>}
        OBVIOUS
      <3>4. Pair(p, {<<"active", "executing">>})'
        BY <2>3, <3>2, <3>3
      <3> QED BY <1>1, <2>2, <2>4, <2>5, <3>4 DEF Midway
    <2>7. Agreeing'
      <3>1. \A q \in Requests \cap op[1].reqs : Midway(q, op[1]) => Midway(q, w)'
        BY <2>1, <2>6
      <3> QED BY <1>1, <1>4, <2>3, <2>4, <2>5, <3>1, GoesOn DEF EscalationInv, FilesSound
    <2>8. Lasting /\ Known'
      BY <1>1, <2>3, MarkedKeeps
    <2>9. Held'
      <3>1. op[2].arg = op[1].arg
        <4>1. SoundAt(2)
          BY <2>4 DEF EscalationInv, StepsOwed
        <4> QED BY <2>2, <2>4, <4>1 DEF SoundAt, Resumable
      <3>2. PICK a : a = op[1].arg
        OBVIOUS
      <3>3. op' # <<>> /\ op'[1].do = "execute" /\ op'[1].arg = a
        BY <1>1, <1>4, <2>4, <3>1, <3>2, NextOne DEF EscalationInv
      <3>4. ASSUME up', faults' = 0, NEW i \in DOMAIN resumes', resumes'[i].status = "executing"
            PROVE  Beginning(i)' \/ ~ Mentioned(resumes[i].req)'
        <4>1. CASE i = a
          BY <3>3, <4>1 DEF Beginning
        <4>2. CASE i # a
          <5>1. i \in DOMAIN resumes /\ resumes'[i] = resumes[i]
            BY <2>3, <3>2, <4>2 DEF Marked
          <5>2. ~ Mentioned(resumes[i].req)
            BY <1>1, <1>2, <3>4, <5>1 DEF FilesSound, Held, SameTurn
          <5> QED BY <5>1, <5>2 DEF Mentioned, SameTurn
        <4> QED BY <4>1, <4>2
      <3> QED BY <3>4 DEF Held
    <2> QED BY <1>1, <1>4, <2>7, <2>8, <2>9, QuietSound DEF SameTurn
  <1> QED BY <1>1, <1>3, <1>4

LEMMA CheckSound ==
    ASSUME EscalationInv, FilesSound, Check, UNCHANGED stops, SameTurn
    PROVE  FilesSound'
  <1>1. /\ op # <<>> /\ op[1].do = "check" /\ SoundAt(1) /\ op[1] \in Owed
        /\ UNCHANGED <<files, cred, faults>>
        /\ op' = Tail(op) \/ op' = End(op[1].reqs) \/ op' = <<>>
    BY HeadSound DEF Check, Doing, Done, Reqs
  <1>2. UNCHANGED <<request, mandates, resumes>>
    BY <1>1 DEF files
  <1>3. faults + stops = 0 => \A q \in Requests : Calm(q)
    BY <1>1, AtFirst DEF FilesSound, Midway
  <1>4. Held'
    <2>1. \A i : ~ Beginning(i)
      BY <1>1 DEF Beginning
    <2> QED BY <1>1, <1>2, <2>1, HeldStays DEF FilesSound
  <1>5. CASE op' = Tail(op)
    BY <1>1, <1>5, ReadStep
  <1>6. CASE op' = End(op[1].reqs)
    <2>1. PICK Q \in SUBSET Requests : Q = op[1].reqs
      BY <1>1, StepFacts
    <2>2. \A q \in Q : request[q] \in Open
      BY <1>1, <2>1 DEF SoundAt, Open
    <2> QED BY <1>1, <1>2, <1>3, <1>4, <1>6, <2>1, <2>2, EndsSound DEF SameTurn
  <1>7. CASE op' = <<>>
    <2>1. Stopped'
      BY DEF SameTurn, FilesSound, Stopped
    <2> QED BY <1>1, <1>2, <1>3, <1>4, <1>7, <2>1, GivenUp
  <1> QED BY <1>1, <1>5, <1>6, <1>7

LEMMA WriteMandatesSound ==
    ASSUME EscalationInv, FilesSound, WriteMandates, UNCHANGED stops, SameTurn
    PROVE  FilesSound'
  <1>1. /\ op # <<>> /\ Head(op) = op[1] /\ Reqs = op[1].reqs /\ Arg = op[1].arg /\ op' = Tail(op)
        /\ UNCHANGED <<request, resumes, faults, stops>>
    BY HeadSound DEF WriteMandates, Doing, Done, Reqs, Arg
  <1>2. \/ /\ op[1].do = "grant"
           /\ mandates' = Append(mandates, [req |-> CHOOSE q \in Reqs : TRUE, status |-> Arg])
        \/ /\ op[1].do = "mandates"
           /\ mandates' = [i \in DOMAIN mandates |->
                 IF mandates[i].req \in Reqs /\ mandates[i].status = "active"
                 THEN [mandates[i] EXCEPT !.status = Arg] ELSE mandates[i]]
        \/ op[1].do = "consume" /\ mandates' = [mandates EXCEPT ![Arg].status = "consumed"]
    BY <1>1 DEF WriteMandates, Doing
  <1> QED BY <1>1, <1>2, GrantSound, MandatesEnd, ConsumeSound

LEMMA WriteResumesSound ==
    ASSUME EscalationInv, FilesSound, WriteResumes, UNCHANGED stops, SameTurn
    PROVE  FilesSound'
  <1>1. /\ op # <<>> /\ Head(op) = op[1] /\ Reqs = op[1].reqs /\ Arg = op[1].arg /\ op' = Tail(op)
        /\ UNCHANGED <<request, mandates, faults, stops>>
    BY HeadSound DEF WriteResumes, Doing, Done, Reqs, Arg
  <1>2. \/ /\ op[1].do = "queue"
           /\ resumes' = Append(resumes, [req |-> CHOOSE q \in Reqs : TRUE,
                                          mandate |-> Len(mandates), status |-> Arg])
        \/ /\ op[1].do = "resumes"
           /\ resumes' = [i \in DOMAIN resumes |->
                 IF resumes[i].req \in Reqs /\ resumes[i].status = "ready"
                 THEN [resumes[i] EXCEPT !.status = Arg] ELSE resumes[i]]
        \/ op[1].do = "complete" /\ resumes' = [resumes EXCEPT ![Arg].status = "completed"]
        \/ op[1].do = "fail" /\ resumes' = [resumes EXCEPT ![Arg].status = "failed"]
    BY <1>1 DEF WriteResumes, Doing
  <1> QED BY <1>1, <1>2, QueueSound, ResumesEnd, CompleteSound

LEMMA StepSound ==
    ASSUME EscalationInv, FilesSound, Step
    PROVE  FilesSound'
  <1>1. /\ UNCHANGED <<up, phase, runs, stops>>
        /\ turn' = IF Mine /\ Doing("context") THEN [turn EXCEPT !.at = "asked"] ELSE turn
        /\ \/ Check \/ Route \/ Frame \/ Sign \/ WriteRequests \/ WriteMandates \/ WriteResumes
           \/ Begin \/ RecordResume
    BY DEF Step
  <1>2. SameTurn
    <2>1. turn \in Turn
      BY DEF EscalationInv, Types, TypeOK
    <2>2. CASE turn' = turn
      BY <1>1, <2>2 DEF SameTurn
    <2>3. CASE turn.at = "routing" /\ turn' = [turn EXCEPT !.at = "asked"]
      <3>1. turn'.req = turn.req
        BY <2>1, <2>3 DEF Turn
      <3> QED BY <1>1, <2>3, <3>1 DEF SameTurn
    <2> QED BY <1>1, <2>2, <2>3 DEF Mine, At
  <1>3. CASE RecordResume
    <2>1. op # <<>> /\ op[1].do = "record" /\ op' = Tail(op) /\ UNCHANGED <<files, faults>>
      BY <1>3, HeadSound DEF RecordResume, Doing, Done
    <2> QED BY <1>1, <1>2, <2>1, ReadStep
  <1> QED BY <1>1, <1>2, <1>3, CheckSound, RouteSound, FrameSound, SignSound, WriteRequestsSound,
             WriteMandatesSound, WriteResumesSound, BeginSound

LEMMA ResumeSound ==
    ASSUME EscalationInv, FilesSound, NEW q \in Requests, ConsumeResume(q), UNCHANGED stops, SameTurn
    PROVE  FilesSound'
  <1>1. op = <<>> /\ ResumesOf(q) # {} /\ UNCHANGED <<files, cred, faults>>
    BY DEF ConsumeResume
  <1>2. UNCHANGED <<request, mandates, resumes>>
    BY <1>1 DEF files
  <1>3. PICK n \in Nat :
           /\ DOMAIN op' = 1..(n + 5)
           /\ \A j \in DOMAIN op' :
                 /\ j \in Nat /\ op'[j].reqs = {q}
                 /\ \/ j <= n /\ op'[j].do = "check"
                    \/ j = n + 1 /\ op'[j].do = "begin" /\ op'[j].arg = ResumeOf(q)
                    \/ j = n + 2 /\ op'[j].do = "execute" /\ op'[j].arg = ResumeOf(q)
                    \/ j = n + 3 /\ op'[j].do = "complete" /\ op'[j].arg = ResumeOf(q)
                    \/ /\ j = n + 4 /\ op'[j].do = "consume"
                       /\ op'[j].arg = resumes[ResumeOf(q)].mandate
                    \/ j = n + 5 /\ op'[j].do = "record"
    BY ConsumeList
  <1>4. 1 \in DOMAIN op' /\ op' # <<>> /\ op'[1].do \in {"check", "begin"}
    <2>1. 1 \in DOMAIN op' /\ (1 <= n \/ 1 = n + 1)
      BY <1>3
    <2>2. op'[1].do \in {"check", "begin"}
      BY <1>3, <2>1
    <2> QED BY <2>1, <2>2
  <1>5. Successors'
    <2>1. ASSUME NEW i \in DOMAIN op', i + 1 \in DOMAIN op'
          PROVE  /\ op'[i].do = "check" => op'[i + 1].do \in {"check", "begin"}
                 /\ op'[i].do = "begin" => op'[i + 1].do = "execute"
                 /\ op'[i].do = "execute" => op'[i + 1].do = "complete"
                 /\ op'[i].do = "complete" => op'[i + 1].do = "consume"
                 /\ op'[i].do = "consume" => op'[i + 1].do = "record"
      <3>1. i \in Nat
        BY <1>3
      <3>2. PICK j \in DOMAIN op' : j = i + 1
        BY <2>1
      <3>3. \/ i <= n /\ op'[i].do = "check"
            \/ i = n + 1 /\ op'[i].do = "begin"
            \/ i = n + 2 /\ op'[i].do = "execute"
            \/ i = n + 3 /\ op'[i].do = "complete"
            \/ i = n + 4 /\ op'[i].do = "consume"
            \/ i = n + 5 /\ op'[i].do = "record"
        BY <1>3
      <3>4. \/ j <= n /\ op'[j].do = "check"
            \/ j = n + 1 /\ op'[j].do = "begin"
            \/ j = n + 2 /\ op'[j].do = "execute"
            \/ j = n + 3 /\ op'[j].do = "complete"
            \/ j = n + 4 /\ op'[j].do = "consume"
            \/ j = n + 5 /\ op'[j].do = "record"
        BY <1>3
      <3>5. PICK u, v : u = op'[i].do /\ v = op'[j].do
        OBVIOUS
      <3>6. /\ u = "check" => v \in {"check", "begin"}
            /\ u = "begin" => v = "execute"
            /\ u = "execute" => v = "complete"
            /\ u = "complete" => v = "consume"
            /\ u = "consume" => v = "record"
        BY <3>1, <3>2, <3>3, <3>4, <3>5
      <3> QED BY <3>2, <3>5, <3>6
    <2>2. ASSUME NEW i \in DOMAIN op', op'[i].do # "record" PROVE i + 1 \in DOMAIN op'
      BY <1>3, <2>2
    <2>3. ASSUME NEW i \in DOMAIN op'
          PROVE  op'[i].do \in {"check", "begin", "execute", "complete", "consume", "record"}
      BY <1>3
    <2>4. ASSUME NEW i \in DOMAIN op' PROVE SuccessorOf(i)'
      BY <2>1, <2>2, <2>3 DEF SuccessorOf, Then
    <2> QED BY <2>4 DEF Successors
  <1>6. Arguments'
    <2>1. ResumesOf(q)' = ResumesOf(q) /\ ResumeOf(q)' = ResumeOf(q)
      BY <1>2, ResumesKept
    <2>2. ASSUME NEW i \in DOMAIN op'
          PROVE  /\ op'[i].do \in {"check", "begin", "execute", "complete", "consume", "record"}
                 /\ op'[i].reqs = {q}
                 /\ op'[i].do = "complete" => op'[i].arg = ResumeOf(q)
                 /\ op'[i].do = "consume" => op'[i].arg = resumes[ResumeOf(q)].mandate
      BY <1>3
    <2>3. ASSUME NEW i \in DOMAIN op' PROVE Fits(op[i])'
      BY <1>1, <1>2, <2>1, <2>2 DEF Fits
    <2> QED BY <2>3 DEF Arguments
  <1>7. PICK w : w = op'[1]
    OBVIOUS
  <1>8. \A r \in Requests \cap w.reqs : Calm(r) => Midway(r, w)
    BY <1>4, <1>7 DEF Midway
  <1>9. Held' /\ Stopped'
    BY <1>1, <1>2, IdleHeld DEF FilesSound, Stopped, SameTurn
  <1> QED BY <1>1, <1>2, <1>4, <1>5, <1>6, <1>7, <1>8, <1>9, IdleFacts, Opens

LEMMA OperateSound ==
    ASSUME EscalationInv, FilesSound, Operate
    PROVE  FilesSound'
  <1>1. /\ UNCHANGED <<up, phase, turn, runs, stops>>
        /\ \/ Expire
           \/ \E q \in Requests : \/ Withdraw(q) \/ ConsumeResume(q)
                 \/ \E m \in Members, v \in {"approve", "reject"} : SubmitDecision(q, m, v)
    BY DEF Operate
  <1>2. SameTurn
    BY <1>1 DEF SameTurn
  <1>3. CASE Expire
    BY <1>1, <1>2, <1>3, CloseSound
  <1>4. ASSUME NEW q \in Requests, Withdraw(q) PROVE FilesSound'
    BY <1>1, <1>2, <1>4, CloseSound
  <1>5. ASSUME NEW q \in Requests, ConsumeResume(q) PROVE FilesSound'
    BY <1>1, <1>2, <1>5, ResumeSound
  <1>6. ASSUME NEW q \in Requests, NEW m \in Members, NEW v \in {"approve", "reject"}, SubmitDecision(q, m, v)
        PROVE  FilesSound'
    BY <1>1, <1>2, <1>6, DecideSound
  <1> QED BY <1>1, <1>3, <1>4, <1>5, <1>6

-----------------------------------------------------------------------------
(* The coordinator, faults and stops.                                       *)

\* A step that leaves the list and the files alone.
LEMMA TurnsSound ==
    ASSUME FilesSound, UNCHANGED <<request, mandates, resumes, op>>, Held', Stopped',
           faults' + stops' = 0 => faults + stops = 0
    PROVE  FilesSound'
  <1>1. Successors'
    BY DEF FilesSound, Successors, SuccessorOf, Then, Last
  <1>2. Arguments'
    <2>1. \A q : ResumesOf(q)' = ResumesOf(q) /\ ResumeOf(q)' = ResumeOf(q)
      BY ResumesKept
    <2>2. ASSUME NEW i \in DOMAIN op' PROVE Fits(op[i])'
      BY <2>1 DEF FilesSound, Arguments, Fits
    <2> QED BY <2>2 DEF Arguments
  <1>3. Known'
    BY DEF FilesSound, Known
  <1>4. Agreeing'
    <2>1. PICK w : w = op[1]
      OBVIOUS
    <2>2. ASSUME faults' + stops' = 0, NEW q \in Requests PROVE Agrees(q)'
      <3>1. Agrees(q)
        BY <2>2 DEF FilesSound, Agreeing
      <3>2. CASE op # <<>> /\ q \in op[1].reqs
        <4>1. Midway(q, w)'
          BY <2>1, <3>1, <3>2, MidwayStays DEF Agrees
        <4>2. Midway(q, op[1])'
          BY <2>1, <4>1 DEF Midway
        <4> QED BY <3>2, <4>2 DEF Agrees
      <3>3. CASE ~ (op # <<>> /\ q \in op[1].reqs)
        <4>1. Calm(q)'
          BY <3>1, <3>3, MidwayStays DEF Agrees
        <4> QED BY <3>3, <4>1 DEF Agrees
      <3> QED BY <3>2, <3>3
    <2> QED BY <2>2 DEF Agreeing
  <1> QED BY <1>1, <1>2, <1>3, <1>4 DEF FilesSound

\* The phase and the turn come to mention no other request.
LEMMA MentionsStay ==
    ASSUME FilesSound, UNCHANGED <<resumes, op>>, up, faults' = 0 => faults = 0,
           \A q \in Requests : Mentioned(q)' => Mentioned(q), EscalationInv
    PROVE  Held'
  <1>1. ASSUME up', faults' = 0, NEW i \in DOMAIN resumes', resumes'[i].status = "executing"
        PROVE  Beginning(i)' \/ ~ Mentioned(resumes[i].req)'
    <2>1. Beginning(i) \/ ~ Mentioned(resumes[i].req)
      BY <1>1 DEF FilesSound, Held
    <2>2. PICK q : q = resumes[i].req
      OBVIOUS
    <2>3. q \in Requests
      <3>1. resumes \in Seq(Resume)
        BY DEF EscalationInv, Types, TypeOK
      <3>2. resumes[i] \in Resume
        BY <3>1
      <3> QED BY <2>2, <3>2 DEF Resume
    <2>4. Beginning(i)' \/ ~ Mentioned(q)'
      BY <2>1, <2>2, <2>3 DEF Beginning
    <2> QED BY <2>2, <2>4 DEF Mentioned
  <1> QED BY <1>1 DEF Held

LEMMA TurnSteps ==
    ASSUME EscalationInv, FilesSound,
           Poll \/ Answer \/ LookBefore \/ NoteRequest \/ NoteFails \/ StartRun \/ NoteRun
           \/ \E q \in Requests, k \in Keys : Start(q, k)
    PROVE  FilesSound'
  <1>1. turn \in Turn /\ phase \in Phase /\ faults \in Nat /\ stops \in Nat
    BY DEF EscalationInv, Types, TypeOK
  <1>2. CASE Poll
    <2>1. /\ up /\ turn.at = "idle" /\ turn' = [Idle EXCEPT !.at = "polling"]
          /\ UNCHANGED <<files, op, faults, up, phase, stops>>
      BY <1>2 DEF Poll, At, serviceVars
    <2>2. turn'.at = "polling" /\ UNCHANGED <<request, mandates, resumes>>
      BY <2>1 DEF Idle, files
    <2>3. Held'
      BY <2>1, <2>2, MentionsStay DEF Mentioned
    <2> QED BY <2>1, <2>2, <2>3, TurnsSound DEF FilesSound, Stopped
  <1>3. CASE Answer \/ LookBefore
    <2>1. /\ up /\ phase' = Reconciled /\ turn' \in {[turn EXCEPT !.at = "asking"], Idle}
          /\ UNCHANGED <<files, op, faults, up, stops>>
      BY <1>3 DEF Answer, LookBefore, At, serviceVars
    <2>2. turn'.at \in {"asking", "idle"} /\ UNCHANGED <<request, mandates, resumes>>
      BY <1>1, <2>1 DEF Idle, Turn, files
    <2>3. phase'.approval \in {phase.approval, None}
      <3>1. \/ Reconciled = phase
            \/ Reconciled = [phase EXCEPT !.status = "completed-with-rejection"]
            \/ Reconciled = [phase EXCEPT !.status = "completed", !.rejection = None]
            \/ Reconciled = [phase EXCEPT !.status = "ready", !.approval = None]
            \/ Reconciled = [phase EXCEPT !.status = "approved"]
        BY DEF Reconciled
      <3> QED BY <1>1, <2>1, <3>1 DEF Phase
    <2>4. Held'
      BY <2>1, <2>2, <2>3, NoneAssumption, MentionsStay DEF Mentioned
    <2> QED BY <2>1, <2>2, <2>4, TurnsSound DEF FilesSound, Stopped
  <1>4. CASE NoteRequest
    <2>1. /\ up /\ turn.at = "asked" /\ turn' = Idle
          /\ phase' \in {[phase EXCEPT !.status = "approval-pending", !.approval = turn.req],
                         [phase EXCEPT !.status = "rejection-pending", !.rejection = turn.req]}
          /\ UNCHANGED <<files, op, faults, up, stops>>
      BY <1>4 DEF NoteRequest, At, serviceVars
    <2>2. turn'.at = "idle" /\ UNCHANGED <<request, mandates, resumes>>
      BY <2>1 DEF Idle, files
    <2>3. phase'.approval \in {phase.approval, turn.req}
      BY <1>1, <2>1 DEF Phase
    <2>4. Held'
      BY <2>1, <2>2, <2>3, MentionsStay DEF Mentioned
    <2> QED BY <2>1, <2>2, <2>4, TurnsSound DEF FilesSound, Stopped
  <1>5. CASE NoteFails
    <2>1. faults' = faults + 1 /\ UNCHANGED <<files, op, up, stops>>
      BY <1>5 DEF NoteFails
    <2>2. Held' /\ faults' + stops' # 0
      BY <1>1, <2>1 DEF Held
    <2>3. UNCHANGED <<request, mandates, resumes>>
      BY <2>1 DEF files
    <2> QED BY <2>1, <2>2, <2>3, TurnsSound DEF FilesSound, Stopped
  <1>6. CASE StartRun
    <2>1. /\ up /\ turn.at = "launching" /\ turn' = [turn EXCEPT !.at = "launched"]
          /\ UNCHANGED <<files, op, faults, up, phase, stops>>
      BY <1>6 DEF StartRun, At, serviceVars
    <2>2. turn'.at = "launched" /\ UNCHANGED <<request, mandates, resumes>>
      BY <1>1, <2>1 DEF Turn, files
    <2>3. Held'
      BY <2>1, <2>2, MentionsStay DEF Mentioned
    <2> QED BY <2>1, <2>2, <2>3, TurnsSound DEF FilesSound, Stopped
  <1>7. CASE NoteRun
    <2>1. /\ up /\ turn.at = "launched" /\ turn' = [turn EXCEPT !.at = "waiting"]
          /\ phase' = [phase EXCEPT !.status = "running"]
          /\ UNCHANGED <<files, op, faults, up, stops>>
      BY <1>7 DEF NoteRun, At, serviceVars
    <2>2. turn'.at = "waiting" /\ UNCHANGED <<request, mandates, resumes>> /\ phase'.approval = phase.approval
      BY <1>1, <2>1 DEF Turn, Phase, files
    <2>3. Held'
      BY <2>1, <2>2, MentionsStay DEF Mentioned
    <2> QED BY <2>1, <2>2, <2>3, TurnsSound DEF FilesSound, Stopped
  <1>8. ASSUME NEW q \in Requests, NEW k \in Keys, Start(q, k) PROVE FilesSound'
    <2>1. /\ up /\ turn' = [Idle EXCEPT !.at = "starting", !.req = q, !.key = k]
          /\ UNCHANGED <<files, op, faults, up, phase, stops>>
      BY <1>8 DEF Start, At, serviceVars
    <2>2. turn'.at = "starting" /\ UNCHANGED <<request, mandates, resumes>>
      BY <2>1 DEF Idle, files
    <2>3. Held'
      BY <2>1, <2>2, MentionsStay DEF Mentioned
    <2> QED BY <2>1, <2>2, <2>3, TurnsSound DEF FilesSound, Stopped
  <1> QED BY <1>2, <1>3, <1>4, <1>5, <1>6, <1>7, <1>8

\* What is asked for is new: nothing of it can be executing.
LEMMA AskSound ==
    ASSUME EscalationInv, FilesSound, Ask
    PROVE  FilesSound'
  <1>1. /\ up /\ UNCHANGED <<up, phase, runs, stops>> /\ turn.at = "asking" /\ turn \in Turn
        /\ \/ Request(turn.req, turn.key) /\ turn' = [turn EXCEPT !.at = "routing"]
           \/ turn' = Idle /\ UNCHANGED <<files, cred, op, faults>>
    BY DEF Ask, At, serviceVars, EscalationInv, Types, TypeOK
  <1>2. CASE turn' = Idle /\ UNCHANGED <<files, cred, op, faults>>
    <2>1. turn'.at = "idle" /\ UNCHANGED <<request, mandates, resumes>>
      BY <1>2 DEF Idle, files
    <2>2. Held'
      BY <1>1, <1>2, <2>1, MentionsStay DEF Mentioned
    <2> QED BY <1>1, <1>2, <2>1, <2>2, TurnsSound DEF FilesSound, Stopped
  <1>3. CASE Request(turn.req, turn.key) /\ turn' = [turn EXCEPT !.at = "routing"]
    <2>1. PICK q, k : q = turn.req /\ k = turn.key
      OBVIOUS
    <2>2. q \in Requests /\ k \in Keys /\ turn'.at = "routing" /\ turn'.req = q
      BY <1>1, <1>3, <2>1 DEF Turn
    <2>3. Request(q, k)
      BY <1>3, <2>1
    <2>4. op = <<>> /\ request[q] = "none" /\ UNCHANGED <<files, faults>>
      BY <2>3 DEF Request, MayRoute
    <2>5. UNCHANGED resumes
      BY <2>4 DEF files
    <2>6. Held'
      <3>1. ASSUME faults' = 0, NEW i \in DOMAIN resumes', resumes'[i].status = "executing"
            PROVE  ~ Mentioned(resumes[i].req)'
        <4>1. ~ Mentioned(resumes[i].req)
          BY <1>1, <2>4, <2>5, <3>1, IdleFacts DEF FilesSound, Held
        <4>2. resumes[i].req # q
          BY <2>4, <2>5, <3>1 DEF FilesSound, Known
        <4> QED BY <1>1, <2>2, <2>5, <4>1, <4>2 DEF Mentioned
      <3> QED BY <3>1 DEF Held
    <2> QED BY <1>1, <2>2, <2>3, <2>6, RequestSound
  <1> QED BY <1>1, <1>2, <1>3

-----------------------------------------------------------------------------
(* What fails.                                                              *)

LEMMA ThrownList ==
    ASSUME EscalationInv, op # <<>>, op[1].do \in {"execute", "complete", "consume", "record"}, op' = Thrown
    PROVE  \E q \in Requests :
              /\ op[1].reqs = {q} /\ ResumesOf(q) # {}
              /\ op' # <<>> /\ DOMAIN op' = {1}
              /\ op'[1].do = "fail" /\ op'[1].reqs = {q} /\ op'[1].arg = ResumeOf(q)
  <1>1. Head(op) = op[1] /\ SoundAt(1)
    BY HeadSound
  <1>2. PICK q \in Requests : op[1].reqs = {q} /\ ResumesOf(q) # {}
    BY <1>1 DEF SoundAt, Resumable
  <1>3. Reqs = {q} /\ (CHOOSE r \in Reqs : TRUE) = q
    BY <1>1, <1>2 DEF Reqs
  <1>4. PICK w : w = Do("fail", {q}, ResumeOf(q))
    OBVIOUS
  <1>5. op' = <<w>>
    BY <1>1, <1>3, <1>4 DEF Thrown, Tried
  <1>6. op' # <<>> /\ DOMAIN op' = {1} /\ op'[1] = w
    BY <1>5, One
  <1>7. w.do = "fail" /\ w.reqs = {q} /\ w.arg = ResumeOf(q)
    BY <1>4, DoFacts
  <1> QED BY <1>2, <1>6, <1>7

LEMMA ThrownSound ==
    ASSUME EscalationInv, FilesSound, op' = Thrown, UNCHANGED <<request, mandates, resumes, up>>,
           Held', Stopped', op # <<>>,
           faults' + stops' = 0 => faults + stops = 0 /\ op[1].do = "execute"
    PROVE  FilesSound'
  <1>1. CASE op[1].do \in {"execute", "complete", "consume", "record"}
    <2>1. PICK q \in Requests :
             /\ op[1].reqs = {q} /\ ResumesOf(q) # {}
             /\ op' # <<>> /\ DOMAIN op' = {1}
             /\ op'[1].do = "fail" /\ op'[1].reqs = {q} /\ op'[1].arg = ResumeOf(q)
      BY <1>1, ThrownList
    <2>2. Successors'
      BY <2>1 DEF Successors, SuccessorOf
    <2>3. Arguments'
      <3>1. ResumesOf(q)' = ResumesOf(q) /\ ResumeOf(q)' = ResumeOf(q)
        BY ResumesKept
      <3>2. Fits(op[1])'
        BY <2>1, <3>1 DEF Fits
      <3> QED BY <2>1, <3>2 DEF Arguments
    <2>4. PICK w : w = op'[1]
      OBVIOUS
    <2>5. Agreeing'
      <3>1. ASSUME faults' + stops' = 0, NEW r \in Requests PROVE Agrees(r)'
        <4>1. CASE r = q
          <5>1. Midway(r, op[1])
            BY <2>1, <3>1, <4>1, AtFirst DEF FilesSound
          <5>2. Midway(r, w)
            BY <2>1, <2>4, <3>1, <5>1 DEF Midway
          <5>3. Midway(r, w)'
            BY <5>2, MidwayStays
          <5>4. Midway(r, op[1])'
            BY <2>4, <5>3 DEF Midway
          <5> QED BY <2>1, <4>1, <5>4 DEF Agrees
        <4>2. CASE r # q
          <5>1. Calm(r)'
            BY <2>1, <3>1, <4>2, AtFirst, MidwayStays DEF FilesSound
          <5> QED BY <2>1, <4>2, <5>1 DEF Agrees
        <4> QED BY <4>1, <4>2
      <3> QED BY <3>1 DEF Agreeing
    <2>6. Known'
      BY DEF FilesSound, Known
    <2> QED BY <2>2, <2>3, <2>5, <2>6 DEF FilesSound
  <1>2. CASE op[1].do \notin {"execute", "complete", "consume", "record"}
    <2>1. op' = <<>> /\ faults' + stops' # 0
      BY <1>2, HeadSound DEF Thrown, Tried
    <2> QED BY <2>1, GivenUp
  <1> QED BY <1>1, <1>2

LEMMA FailSound ==
    ASSUME EscalationInv, FilesSound, Fail
    PROVE  FilesSound'
  <1>1. /\ op # <<>> /\ faults' = faults + 1 /\ op' = Thrown /\ UNCHANGED <<files, up, stops>>
    BY DEF Fail, StepFails
  <1>2. UNCHANGED <<request, mandates, resumes>> /\ faults \in Nat /\ stops \in Nat
    BY <1>1 DEF files, EscalationInv, Types, TypeOK
  <1>3. Held' /\ faults' + stops' # 0
    BY <1>1, <1>2 DEF Held
  <1> QED BY <1>1, <1>2, <1>3, ThrownSound DEF FilesSound, Stopped

LEMMA ExecutionFails ==
    ASSUME EscalationInv, FilesSound, op # <<>>, op[1].do = "execute", op' = Thrown, SameTurn,
           UNCHANGED <<files, faults, stops>>
    PROVE  FilesSound'
  <1>1. UNCHANGED <<request, mandates, resumes>>
    BY DEF files
  <1>2. PICK q \in Requests :
           /\ op[1].reqs = {q} /\ op' # <<>> /\ op'[1].do = "fail" /\ op'[1].arg = ResumeOf(q)
    BY ThrownList
  <1>3. op[1].arg = ResumeOf(q)
    BY <1>2, HeadSound DEF SoundAt, Resumable
  <1>4. Held'
    <2>1. \A i : Beginning(i) => Beginning(i)'
      BY <1>2, <1>3 DEF Beginning
    <2> QED BY <1>1, <2>1, HeldStays DEF FilesSound
  <1>5. Stopped'
    BY DEF SameTurn, FilesSound, Stopped
  <1> QED BY <1>1, <1>4, <1>5, ThrownSound DEF SameTurn

LEMMA LaunchSound ==
    ASSUME EscalationInv, FilesSound, Launch \/ ResumeFails
    PROVE  FilesSound'
  <1>1. CASE ResumeFails
    <2>1. /\ Launching /\ turn' = Idle /\ op' = Thrown /\ UNCHANGED <<files, faults, up, phase, stops>>
      BY <1>1 DEF ResumeFails, Launching
    <2>2. op # <<>> /\ op[1].do = "execute"
      BY <2>1 DEF EscalationInv, TurnSound
    <2>3. SameTurn
      BY <2>1 DEF SameTurn, Idle
    <2> QED BY <2>1, <2>2, <2>3, ExecutionFails
  <1>2. CASE Launch
    <2>1. /\ up /\ turn.at = "idle" /\ op # <<>> /\ Head(op).do = "execute"
          /\ UNCHANGED <<files, faults, up, phase, stops>>
          /\ \E q \in Reqs : \/ turn' = [Idle EXCEPT !.at = "launching", !.req = q] /\ op' = op
                             \/ op' = Thrown /\ turn' = turn
      BY <1>2 DEF Launch, At, Doing
    <2>2. op[1].do = "execute" /\ UNCHANGED <<request, mandates, resumes>>
      BY <2>1, HeadSound DEF files
    <2>3. CASE op' = Thrown /\ turn' = turn
      <3>1. SameTurn
        BY <2>1, <2>3 DEF SameTurn
      <3> QED BY <2>1, <2>2, <2>3, <3>1, ExecutionFails
    <2>4. ASSUME NEW q, turn' = [Idle EXCEPT !.at = "launching", !.req = q], op' = op PROVE FilesSound'
      <3>1. turn'.at = "launching"
        BY <2>4 DEF Idle
      <3>2. Held'
        BY <2>1, <2>2, <2>4, <3>1, MentionsStay DEF Mentioned
      <3> QED BY <2>1, <2>2, <2>4, <3>2, TurnsSound DEF FilesSound, Stopped
    <2> QED BY <2>1, <2>3, <2>4
  <1> QED BY <1>1, <1>2

LEMMA RunSucceedsSound ==
    ASSUME EscalationInv, FilesSound, RunSucceeds
    PROVE  FilesSound'
  <1>1. /\ up /\ turn.at = "waiting" /\ phase' = [phase EXCEPT !.status = "completed"]
        /\ turn' = Idle /\ op' = Tail(op) /\ UNCHANGED <<files, faults, up, stops>>
    BY DEF RunSucceeds, At
  <1>2. op # <<>> /\ op[1].do = "execute"
    BY <1>1 DEF EscalationInv, TurnSound, Launching
  <1>3. SameTurn /\ UNCHANGED <<request, mandates, resumes>>
    <2>1. phase \in Phase
      BY DEF EscalationInv, Types, TypeOK
    <2> QED BY <1>1, <2>1 DEF SameTurn, Idle, Phase, files
  <1>4. /\ ~ Last(1) /\ 2 \in DOMAIN op /\ op[2] \in Owed /\ op[2].do = "complete"
        /\ op[2].reqs = op[1].reqs /\ op' # <<>> /\ op'[1] = op[2]
    BY <1>1, <1>2, FirstSuccessor, NextOne DEF EscalationInv, SuccessorOf, Then, Last
  <1>5. PICK w \in Owed : w = op[2]
    BY <1>4
  <1>6. \A q : Calm(q) => Calm(q)'
    BY <1>3, MidwayStays
  <1>7. ASSUME NEW q, Midway(q, op[1]) PROVE Midway(q, w)'
    <2>1. Midway(q, w)
      BY <1>2, <1>4, <1>5, <1>7 DEF Midway
    <2> QED BY <1>3, <2>1, MidwayStays
  <1>8. Agreeing'
    BY <1>1, <1>2, <1>4, <1>5, <1>6, <1>7, GoesOn DEF EscalationInv, FilesSound
  <1>9. op[2].arg = op[1].arg
    <2>1. Fits(op[2])
      BY <1>4 DEF FilesSound, Arguments
    <2>2. PICK q \in Requests : op[2].reqs = {q} /\ op[2].arg = ResumeOf(q)
      BY <1>4, <2>1 DEF Fits
    <2>3. SoundAt(1)
      BY <1>2, HeadSound
    <2>4. PICK r \in Requests : op[1].reqs = {r} /\ op[1].arg = ResumeOf(r)
      BY <1>2, <2>3 DEF SoundAt, Resumable
    <2>5. q = r
      BY <1>4, <2>2, <2>4
    <2> QED BY <2>2, <2>4, <2>5
  <1>10. Held'
    <2>1. \A i : Beginning(i) => Beginning(i)'
      BY <1>4, <1>9 DEF Beginning
    <2> QED BY <1>1, <1>3, <2>1, HeldStays DEF FilesSound
  <1>11. Lasting /\ Known'
    BY <1>3, LastingKept DEF FilesSound, Known
  <1> QED BY <1>1, <1>2, <1>8, <1>10, <1>11, QuietSound

LEMMA StopSound ==
    ASSUME EscalationInv, FilesSound, Stop \/ Initialize
    PROVE  FilesSound'
  <1>1. faults \in Nat /\ stops \in Nat /\ resumes \in Seq(Resume) /\ (~ up => op = <<>> /\ turn = Idle)
    BY DEF EscalationInv, Types, TypeOK
  <1>2. CASE Stop
    <2>1. stops' = stops + 1 /\ up' = FALSE /\ op' = <<>> /\ UNCHANGED <<files, faults>>
      BY <1>2 DEF Stop
    <2>2. stops' # 0 /\ faults' + stops' # 0 /\ UNCHANGED <<request, mandates, resumes>>
      BY <1>1, <2>1 DEF files
    <2>3. Held' /\ Stopped'
      BY <2>1, <2>2 DEF Held, Stopped
    <2> QED BY <2>1, <2>2, <2>3, GivenUp
  <1>3. CASE Initialize
    <2>1. /\ ~ up /\ op = <<>> /\ turn = Idle /\ UNCHANGED <<request, mandates, op, faults, phase, turn, stops>>
          /\ resumes' = [i \in DOMAIN resumes |->
                IF resumes[i].req = phase.approval /\ resumes[i].status = "executing"
                THEN [resumes[i] EXCEPT !.status = IF runs[phase.approval] > 0 THEN "failed" ELSE "ready"]
                ELSE resumes[i]]
      BY <1>1, <1>3 DEF Initialize
    <2>2. ASSUME NEW i \in DOMAIN resumes
          PROVE  /\ resumes'[i].req = resumes[i].req
                 /\ resumes'[i].status = "executing" => resumes[i].req # phase.approval
      <3>1. resumes[i] \in Resume
        BY <1>1
      <3> DEFINE st == IF runs[phase.approval] > 0 THEN "failed" ELSE "ready"
      <3>2. st \in {"failed", "ready"}
        OBVIOUS
      <3>3. resumes'[i] = IF resumes[i].req = phase.approval /\ resumes[i].status = "executing"
                          THEN [resumes[i] EXCEPT !.status = st] ELSE resumes[i]
        BY <2>1
      <3> HIDE DEF st
      <3> QED BY <3>1, <3>2, <3>3 DEF Resume
    <2>3. DOMAIN resumes' = DOMAIN resumes
      BY <2>1
    <2>4. Known'
      BY <2>1, <2>2, <2>3 DEF FilesSound, Known
    <2>5. Held'
      BY <2>1, <2>2, <2>3 DEF Held, Mentioned, Idle
    <2>6. Successors' /\ Arguments'
      BY <2>1 DEF Successors, Arguments
    <2>7. stops # 0
      BY <2>1 DEF FilesSound, Stopped
    <2>8. Agreeing' /\ Stopped'
      BY <1>1, <2>1, <2>7 DEF Agreeing, Stopped
    <2> QED BY <2>4, <2>5, <2>6, <2>8 DEF FilesSound
  <1> QED BY <1>2, <1>3

LEMMA OrganizationSound ==
    ASSUME EscalationInv, FilesSound, Organization
    PROVE  FilesSound'
  <1>1. /\ op = <<>> \/ Doing("check") \/ Doing("decide")
        /\ UNCHANGED <<up, phase, turn, runs, stops>>
        /\ \E m \in Members : ChangeStanding(m) \/ IssueCredential(m)
    BY DEF Organization
  <1>2. PICK m \in Members : ChangeStanding(m) \/ IssueCredential(m)
    BY <1>1
  <1>3. SameTurn /\ Stopped'
    BY <1>1 DEF SameTurn, FilesSound, Stopped
  <1>4. UNCHANGED <<request, mandates, resumes, faults>>
    BY <1>2 DEF ChangeStanding, IssueCredential, files
  <1>5. CASE ChangeStanding(m)
    <2>1. op' = op
      BY <1>5 DEF ChangeStanding
    <2>2. Held'
      <3>1. \A i : Beginning(i) => Beginning(i)'
        BY <2>1 DEF Beginning
      <3> QED BY <1>3, <1>4, <3>1, HeldStays DEF FilesSound
    <2> QED BY <1>1, <1>3, <1>4, <2>1, <2>2, TurnsSound
  <1>6. CASE IssueCredential(m)
    <2>1. /\ DOMAIN op' = DOMAIN op
          /\ \A i \in DOMAIN op :
                /\ op'[i].do = op[i].do /\ op'[i].reqs = op[i].reqs
                /\ op[i].do # "decide" => op'[i] = op[i]
                /\ op[i].do = "decide" => op'[i].arg.req = op[i].arg.req
      BY <1>1, <1>6, IssueList, AgedFacts
    <2>2. op' # <<>> <=> op # <<>>
      BY <1>6 DEF IssueCredential, Doing
    <2>3. Successors'
      <3>1. ASSUME NEW i \in DOMAIN op PROVE SuccessorOf(i)'
        <4>1. SuccessorOf(i)
          BY DEF FilesSound, Successors
        <4>2. \A j \in DOMAIN op : op'[j].do = op[j].do /\ (op[j].do = "requests" => op'[j].arg = op[j].arg)
          BY <2>1
        <4> QED BY <2>1, <4>1, <4>2 DEF SuccessorOf, Then, Last
      <3> QED BY <2>1, <3>1 DEF Successors
    <2>4. Arguments'
      <3>1. \A q : ResumesOf(q)' = ResumesOf(q) /\ ResumeOf(q)' = ResumeOf(q)
        BY <1>4, ResumesKept
      <3>2. ASSUME NEW i \in DOMAIN op' PROVE Fits(op[i])'
        <4>1. i \in DOMAIN op /\ Fits(op[i])
          BY <2>1 DEF FilesSound, Arguments
        <4>2. CASE op[i].do = "decide"
          BY <1>4, <2>1, <4>1, <4>2 DEF Fits
        <4>3. CASE op[i].do # "decide"
          BY <1>4, <2>1, <3>1, <4>1, <4>3 DEF Fits
        <4> QED BY <4>2, <4>3
      <3> QED BY <3>2 DEF Arguments
    <2>5. ASSUME op # <<>>
          PROVE  /\ op'[1].do = op[1].do /\ op'[1].reqs = op[1].reqs
                 /\ op[1].do # "decide" => op'[1].arg = op[1].arg
      BY <2>1, <2>5, HeadSound
    <2>6. Held'
      <3>1. \A i : Beginning(i) => Beginning(i)'
        BY <2>2, <2>5 DEF Beginning
      <3> QED BY <1>3, <1>4, <3>1, HeldStays DEF FilesSound
    <2>7. Agreeing'
      <3>1. PICK w : w = op'[1]
        OBVIOUS
      <3>2. ASSUME faults' + stops' = 0, NEW q \in Requests PROVE Agrees(q)'
        <4>1. Agrees(q)
          BY <1>1, <1>4, <3>2 DEF FilesSound, Agreeing
        <4>2. CASE op # <<>> /\ q \in op[1].reqs
          <5>1. Midway(q, op[1])
            BY <4>1, <4>2 DEF Agrees
          <5>2. Midway(q, w)
            BY <2>5, <3>1, <4>2, <5>1 DEF Midway
          <5>3. Midway(q, w)'
            BY <1>4, <5>2, MidwayStays
          <5>4. Midway(q, op[1])'
            BY <3>1, <5>3 DEF Midway
          <5> QED BY <2>2, <2>5, <4>2, <5>4 DEF Agrees
        <4>3. CASE ~ (op # <<>> /\ q \in op[1].reqs)
          <5>1. Calm(q)'
            BY <1>4, <4>1, <4>3, MidwayStays DEF Agrees
          <5> QED BY <2>2, <2>5, <4>3, <5>1 DEF Agrees
        <4> QED BY <4>2, <4>3
      <3> QED BY <3>2 DEF Agreeing
    <2>8. Known'
      BY <1>4 DEF FilesSound, Known
    <2> QED BY <1>3, <2>3, <2>4, <2>6, <2>7, <2>8 DEF FilesSound
  <1> QED BY <1>2, <1>5, <1>6

-----------------------------------------------------------------------------
(* The files agree whenever the approvals are idle.                         *)

LEMMA FilesInit ==
    ASSUME Init
    PROVE  FilesSound
  <1>1. /\ request = [q \in Requests |-> "none"] /\ mandates = <<>> /\ resumes = <<>>
        /\ op = <<>> /\ up = TRUE
    BY DEF Init, ServiceInit
  <1>2. DOMAIN op = {} /\ DOMAIN mandates = {} /\ DOMAIN resumes = {}
    BY <1>1
  <1>3. Successors /\ Arguments /\ Known /\ Held /\ Stopped
    BY <1>1, <1>2 DEF Successors, Arguments, Known, Held, Stopped
  <1>4. ASSUME NEW q \in Requests PROVE Agrees(q)
    BY <1>1, <1>2 DEF Agrees, Calm, Bare, Granted, ResumesOf
  <1> QED BY <1>3, <1>4 DEF FilesSound, Agreeing

LEMMA FilesNext ==
    ASSUME EscalationInv, FilesSound, [Next]_vars
    PROVE  FilesSound'
  <1>1. CASE Next
    BY <1>1, OperateSound, StepSound, FailSound, OrganizationSound, TurnSteps, AskSound, LaunchSound,
       RunSucceedsSound, StopSound DEF Next
  <1>2. CASE UNCHANGED vars
    <2>1. UNCHANGED <<files, op, faults, up, phase, turn, stops>>
      BY <1>2 DEF vars, serviceVars
    <2>2. UNCHANGED <<request, mandates, resumes>> /\ SameTurn
      BY <2>1 DEF files, SameTurn
    <2>3. Held'
      <3>1. \A i : Beginning(i) => Beginning(i)'
        BY <2>1 DEF Beginning
      <3> QED BY <2>1, <2>2, <3>1, HeldStays DEF FilesSound
    <2> QED BY <2>1, <2>2, <2>3, TurnsSound DEF FilesSound, Stopped
  <1> QED BY <1>1, <1>2

\* What FilesAgree says of a request, whose mandates are the set "granted" and whose
\* resumes have these statuses.
Together(q, granted, statuses) ==
    /\ Cardinality(granted) = Cardinality(ResumesOf(q)) /\ Cardinality(granted) <= 1
    /\ request[q] = "approved" => granted # {}
    /\ request[q] \in {"none", "pending", "rejected"} => granted = {}
    /\ \A i \in granted :
         /\ mandates[i].status = "consumed" <=> statuses = {"completed"}
         /\ mandates[i].status = "active" <=>
              request[q] = "approved" /\ statuses \subseteq {"ready", "failed"}
    /\ request[q] \in Closed => "ready" \notin statuses

LEMMA CalmTogether ==
    ASSUME NEW q \in Requests, Calm(q), NEW G, G = Granted(q),
           NEW T, T = {resumes[i].status : i \in ResumesOf(q)}
    PROVE  Together(q, G, T)
  <1>1. CASE Bare(q)
    <2>1. G = {} /\ ResumesOf(q) = {} /\ T = {}
      BY <1>1 DEF Bare
    <2>2. Cardinality({}) = 0
      BY FS_EmptySet
    <2>3. request[q] # "approved"
      BY <2>1 DEF Calm, Pair
    <2> QED BY <2>1, <2>2, <2>3 DEF Together
  <1>2. ASSUME NEW S, Pair(q, S),
               \/ request[q] = "approved" /\ S = Standing
               \/ request[q] = "closed" /\ S = Over
        PROVE  Together(q, G, T)
    <2>1. PICK m \in DOMAIN mandates, r \in DOMAIN resumes :
             /\ Granted(q) = {m} /\ ResumesOf(q) = {r} /\ resumes[r].mandate = m
             /\ <<mandates[m].status, resumes[r].status>> \in S
      BY <1>2 DEF Pair
    <2>2. G = {m} /\ T = {resumes[r].status}
      BY <2>1
    <2>3. Cardinality({m}) = 1 /\ Cardinality({r}) = 1
      BY FS_Singleton
    <2>4. CASE request[q] = "approved" /\ S = Standing
      <3>1. \/ mandates[m].status = "active" /\ resumes[r].status \in {"ready", "failed"}
            \/ mandates[m].status = "consumed" /\ resumes[r].status = "completed"
        BY <2>1, <2>4 DEF Standing
      <3> QED BY <2>1, <2>2, <2>3, <2>4, <3>1 DEF Together, Closed
    <2>5. CASE request[q] = "closed" /\ S = Over
      <3>1. \/ mandates[m].status = "ended" /\ resumes[r].status \in {"invalidated", "failed"}
            \/ mandates[m].status = "consumed" /\ resumes[r].status = "completed"
        BY <2>1, <2>5 DEF Over
      <3> QED BY <2>1, <2>2, <2>3, <2>5, <3>1 DEF Together, Closed
    <2> QED BY <1>2, <2>4, <2>5
  <1> QED BY <1>1, <1>2 DEF Calm

LEMMA SoundFilesAgree ==
    ASSUME EscalationInv, FilesSound
    PROVE  FilesAgree
  <1>1. NoneLeftExecuting
    <2> SUFFICES ASSUME up, op = <<>>, faults = 0, phase.approval # None, Executing(phase.approval)
                 PROVE  FALSE
      BY DEF NoneLeftExecuting
    <2>1. PICK i \in DOMAIN resumes : resumes[i].req = phase.approval /\ resumes[i].status = "executing"
      BY DEF Executing, ResumesOf
    <2> QED BY <2>1, IdleFacts DEF FilesSound, Held, Mentioned
  <1>2. ASSUME faults + stops = 0, op = <<>>, NEW q \in Requests
        PROVE  Together(q, {i \in DOMAIN mandates : mandates[i].req = q},
                        {resumes[i].status : i \in ResumesOf(q)})
    <2>1. PICK G, T : G = Granted(q) /\ T = {resumes[i].status : i \in ResumesOf(q)}
      OBVIOUS
    <2>2. Calm(q)
      BY <1>2, IdleFacts
    <2>3. Together(q, G, T)
      BY <2>1, <2>2, CalmTogether
    <2> QED BY <2>1, <2>3 DEF Granted
  <1> QED BY <1>1, <1>2 DEF FilesAgree, Together

\* Without a fault the five files agree whenever the approvals are idle, and after a stop
\* the resume of the phase is not left executing.
THEOREM FilesHold == Spec => []FilesInv
  <1>1. Init => FilesSound
    BY FilesInit
  <1>2. EscalationInv /\ FilesSound /\ [Next]_vars => FilesSound'
    BY FilesNext
  <1>3. EscalationInv /\ FilesSound => FilesInv
    BY SoundFilesAgree DEF FilesInv, EscalationInv, Types
  <1> QED BY <1>1, <1>2, <1>3, EscalationCorrect, PTL DEF Spec
=============================================================================
