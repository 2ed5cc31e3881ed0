--------------------------- MODULE ExchangeProofs ---------------------------
(***************************************************************************)
(* Proofs about two exchanges of messages.  ContextBroker and              *)
(* ConnectorDelivery, for any requests, grants, uses, attempts, leakage    *)
(* proofs and failures: a revoked grant stays revoked and every release is *)
(* counted, a lane is acknowledged with its evidence only, and deliveries  *)
(* settle within their attempts.  FederationPairing, for any acceptances,  *)
(* messages and faults: the peers of the two nodes agree, and the host     *)
(* accepts what both operators confirmed.                                  *)
(***************************************************************************)
EXTENDS ConnectorDelivery, FederationPairing, TLAPS, NaturalsInduction, SequenceTheorems,
        FiniteSetTheorems, WellFoundedInduction

-----------------------------------------------------------------------------
(* The inductive invariant: the grants.                                     *)

GrantRecord == [status : {"none", "active", "expired", "revoked"}, uses : 0..MaxUses]
Books == [Grants -> GrantRecord]
Caller == {"agent", "coordinator", "leak", "operator"}
Asked == Requests \cup {"leak", "proof"}
Receipt == [r : Asked, why : {"none", "expired", "revoked", "limit", "fields", "ok"}]

Operation ==
    {Idle}
    \cup [op : {"receipt", "count"}, by : Caller, g : Grants, r : Asked,
          why : {"none", "expired", "revoked", "limit", "fields", "ok"}, seen : GrantRecord]
    \cup [op : {"revoke"}, by : Caller, g : Grants, seen : Books]

LeakState == [at : {"idle", "ask"}, n : Nat] \cup [at : {"ask", "write"}, n : Nat, seen : Books, next : Books]

ContextTypes ==
    /\ grants \in Books /\ due \subseteq 1..issued
    /\ receipts \in [Grants -> Seq(Receipt)]
    /\ cb \in Operation /\ leak \in LeakState
    /\ issued \in FirstGrants..MaxGrants /\ slips \in Nat
    /\ ended \subseteq 1..issued /\ overlapped \in BOOLEAN
    /\ answer \in {"none", "granted", "denied", "revoked", "thrown"}

\* Nothing is known of a grant that was not issued, not even by an operation that read
\* the grants before.
Unissued ==
    /\ cb # Idle => cb.g <= issued
    /\ \A g \in Grants : g > issued =>
          /\ grants[g].status = "none" /\ receipts[g] = <<>>
          /\ cb.op = "revoke" => cb.seen[g].status = "none"
          /\ leak.at = "write" => leak.next[g].status = "none"

\* A request has one receipt: the one that is being written is its first.
ReceiptsOnce ==
    /\ \A g \in Grants : \A i, j \in DOMAIN receipts[g] :
          receipts[g][i].r = receipts[g][j].r => i = j
    /\ cb.op = "receipt" => \A i \in DOMAIN receipts[cb.g] : receipts[cb.g][i].r # cb.r

\* What an operation read is what there is, as long as no leakage proof wrote beside it.
Releasing == cb.op = "count" \/ (cb.op = "receipt" /\ cb.why = "ok")

ReadsHold ==
    /\ Releasing => cb.seen.status = "active" /\ cb.seen.uses < MaxUses
    /\ leak.at = "write" =>
          \A g \in Grants : /\ leak.next[g].uses = leak.seen[g].uses
                            /\ leak.seen[g].status = "revoked" => leak.next[g].status = "revoked"
                            /\ leak.next[g].status = "none" => leak.seen[g].status = "none"
    /\ overlapped \/
          /\ \A g \in Grants : g <= issued => grants[g].status # "none"
          /\ Releasing => cb.g \notin ended /\ cb.seen.uses = grants[cb.g].uses
          /\ cb.op = "revoke" =>
                \A g \in Grants : /\ cb.seen[g].uses = grants[g].uses
                                  /\ g \in ended => cb.seen[g].status = "revoked"
                                  /\ g <= issued => cb.seen[g].status # "none"

ContextInv == ContextTypes /\ Unissued /\ ReceiptsOnce /\ ReadsHold /\ GrantsHold

-----------------------------------------------------------------------------
(* The inductive invariant: the lane and its deliveries.                    *)

DeliveryRecord ==
    [status : {"none", "queued", "in-flight", "retrying"} \cup Settled, attempts : Nat, grant : Grants]

Working == {"enqueue", "deliver", "wait", "check", "handoff", "finish", "failing"}

Managing == {"issue", "adopt", "revoking", "probe", "probing"}
Course == {Resting} \cup [at : Working, key : Keys] \cup [at : Managing]
Attempt == {Resting} \cup [at : {"sent", "asking", "told", "caught", "confirm"}, key : Keys]

LaneRecord == [status : {"ready", "running", "acknowledged"}, grant : Grants, proved : BOOLEAN]

LaneTypes ==
    /\ lane \in LaneRecord
    /\ deliveries \in [Keys -> DeliveryRecord] /\ messages \subseteq Keys
    /\ co \in Course /\ mb \in Attempt

GrantsIssued == lane.grant <= issued /\ \A k \in Keys : deliveries[k].grant <= issued

\* A delivery in progress is in flight until its acknowledgement is written, and one
\* whose acknowledgement is withdrawn has met a failure.
Making(k) == mb # Resting /\ mb.key = k

MakingSound ==
    mb # Resting =>
       /\ co.at = "wait"
       /\ mb.at \in {"sent", "asking", "told"} => deliveries[mb.key].status = "in-flight"
       /\ mb.at = "confirm" => deliveries[mb.key].status = "acknowledged"
       /\ mb.at = "caught" =>
             \/ deliveries[mb.key].status = "in-flight"
             \/ deliveries[mb.key].status = "acknowledged" /\ slips > 0

Released(g) == \E i \in DOMAIN receipts[g] : receipts[g][i].why = "ok"

\* The lane is acknowledged behind the delivery, the receipt and the handoff, in this order.
LaneSound ==
    /\ co.at \in Working => lane.status # "acknowledged"
    /\ co.at \in {"handoff", "finish"} =>
          deliveries[co.key].status = "acknowledged" /\ Released(lane.grant)
    /\ co.at = "finish" => co.key \in messages
    /\ \A k \in messages : deliveries[k].status # "none"
    /\ AcknowledgedIsEvidenced

\* A delivery that may be tried again has an attempt left, and one that was cut off has
\* had a failure more.
AttemptsBound ==
    \A k \in Keys :
       /\ deliveries[k].attempts <= MaxAttempts + slips
       /\ deliveries[k].status \in {"none", "queued", "retrying"} => deliveries[k].attempts < MaxAttempts
       /\ deliveries[k].status = "in-flight" /\ ~ Making(k) =>
             deliveries[k].attempts < MaxAttempts + slips

LanePart == LaneTypes /\ GrantsIssued /\ MakingSound /\ LaneSound /\ AttemptsBound

DeliveryInv == ContextInv /\ LanePart

-----------------------------------------------------------------------------
(* Grants, receipts and operations.                                         *)

LEMMA Bounds ==
    /\ MaxGrants \in Nat /\ FirstGrants \in Nat /\ 1 <= FirstGrants /\ FirstGrants <= MaxGrants
    /\ MaxUses \in Nat /\ MaxUses >= 1 /\ MaxAttempts \in Nat /\ MaxAttempts >= 1
    /\ 1 \in Grants /\ Grants \subseteq Nat
  BY ContextAssumption, DeliveryAssumption DEF Grants

LEMMA LeastElement ==
    ASSUME NEW T, T \subseteq Nat, T # {}
    PROVE  \E x \in T : \A y \in T : x <= y
  <1> DEFINE Less == {ss \in Nat \X Nat : ss[1] < ss[2]}
  <1>1. IsWellFoundedOn(Less, Nat)
    BY NatLessThanWellFounded DEF OpToRel
  <1>2. PICK x \in T : \A y \in T : ~ (<<y, x>> \in Less)
    <2> HIDE DEF Less
    <2> QED BY <1>1, WFMin
  <1>3. ASSUME NEW y \in T PROVE x <= y
    <2>1. x \in Nat /\ y \in Nat /\ ~ (<<y, x>> \in Less)
      BY <1>2
    <2> QED BY <2>1
  <1> QED BY <1>3

\* Some grants that are not none have a latest one.
LEMMA Latest ==
    ASSUME NEW S, S \subseteq Grants, S # {}
    PROVE  Max(S) \in S
  <1> DEFINE Above == {n \in Nat : \A y \in S : y <= n}
  <1>1. MaxGrants \in Above /\ \A y \in S : y \in Nat /\ y >= 1
    BY Bounds DEF Grants
  <1>2. PICK x \in Above : \A n \in Above : x <= n
    <2> HIDE DEF Above
    <2>1. Above \subseteq Nat /\ Above # {}
      BY <1>1 DEF Above
    <2> QED BY <2>1, LeastElement
  <1>3. x \in S
    <2> SUFFICES ASSUME x \notin S PROVE FALSE
      OBVIOUS
    <2>1. \A y \in S : y <= x /\ y # x /\ x \in Nat
      BY <1>2
    <2>2. x >= 1
      BY <1>1, <2>1
    <2>3. x - 1 \in Above
      BY <1>1, <2>1, <2>2
    <2> QED BY <1>2, <2>3
  <1>4. \A y \in S : x >= y
    BY <1>1, <1>2
  <1> HIDE DEF Above
  <1> QED BY <1>3, <1>4 DEF Max

LEMMA RecordFacts ==
    ASSUME NEW all \in Books, NEW g \in Grants
    PROVE  /\ all[g] \in GrantRecord /\ all[g].uses \in 0..MaxUses
           /\ all[g].status \in {"none", "active", "expired", "revoked"}
  BY DEF Books, GrantRecord

\* Only an active grant expires, and nothing is counted.
LEMMA Expiry ==
    ASSUME NEW all \in Books
    PROVE  /\ Expire(all) \in Books
           /\ \A g \in Grants :
                 /\ Expire(all)[g].uses = all[g].uses
                 /\ all[g].status # "active" => Expire(all)[g] = all[g]
                 /\ Expire(all)[g].status = "active" => all[g].status = "active"
                 /\ Expire(all)[g].status = "none" => all[g].status = "none"
  <1>1. ASSUME NEW g \in Grants
        PROVE  /\ Expire(all)[g] \in GrantRecord
               /\ Expire(all)[g].uses = all[g].uses
               /\ all[g].status # "active" => Expire(all)[g] = all[g]
               /\ Expire(all)[g].status = "active" => all[g].status = "active"
               /\ Expire(all)[g].status = "none" => all[g].status = "none"
    <2>1. all[g] \in GrantRecord
      BY RecordFacts
    <2>2. CASE all[g].status = "active" /\ g \in due
      <3>1. Expire(all)[g] = [all[g] EXCEPT !.status = "expired"]
        BY <2>2 DEF Expire
      <3> QED BY <2>1, <2>2, <3>1 DEF GrantRecord
    <2>3. CASE ~ (all[g].status = "active" /\ g \in due)
      <3>1. Expire(all)[g] = all[g]
        BY <2>3 DEF Expire
      <3> QED BY <2>1, <3>1
    <2> QED BY <2>2, <2>3
  <1>2. Expire(all) \in [Grants -> GrantRecord]
    <2>1. Expire(all) = [g \in Grants |-> Expire(all)[g]]
      BY DEF Expire
    <2> QED BY <1>1, <2>1
  <1> QED BY <1>1, <1>2 DEF Books

LEMMA Reasons ==
    ASSUME NEW record \in GrantRecord, NEW r
    PROVE  /\ Reason(record, r) \in {"none", "expired", "revoked", "limit", "fields", "ok"}
           /\ Reason(record, r) = "ok" => record.status = "active" /\ record.uses < MaxUses
  BY Bounds DEF GrantRecord, Reason

LEMMA OperationFacts ==
    ASSUME ContextTypes
    PROVE  /\ cb.op \in {"idle", "receipt", "count", "revoke"}
           /\ cb.op = "idle" <=> cb = Idle
           /\ cb # Idle => cb.by \in Caller /\ cb.g \in Grants
           /\ cb.op \in {"receipt", "count"} => /\ Told(cb.r, cb.why) \in Receipt
                                                 /\ cb.seen \in GrantRecord
           /\ cb.op = "revoke" => cb.seen \in Books
  <1>1. /\ cb.op \in {"idle", "receipt", "count", "revoke"}
        /\ cb.op = "idle" <=> cb = Idle
        /\ cb # Idle => cb.by \in Caller /\ cb.g \in Grants
    BY DEF ContextTypes, Operation, Idle
  <1>2. cb.op \in {"receipt", "count"} => Told(cb.r, cb.why) \in Receipt /\ cb.seen \in GrantRecord
    BY DEF ContextTypes, Operation, Idle, Told, Receipt
  <1>3. cb.op = "revoke" => cb.seen \in Books
    BY DEF ContextTypes, Operation, Idle
  <1> QED BY <1>1, <1>2, <1>3

LEMMA LeakFacts ==
    ASSUME ContextTypes
    PROVE  /\ leak.at \in {"idle", "ask", "write"} /\ leak.n \in Nat
           /\ leak.at = "write" => leak.seen \in Books /\ leak.next \in Books
           /\ [at |-> "idle", n |-> leak.n] \in LeakState /\ [at |-> "ask", n |-> leak.n] \in LeakState
  BY DEF ContextTypes, LeakState

\* A receipt is laid before those of its grant.
LEMMA Prepended ==
    ASSUME NEW t \in Receipt, NEW s \in Seq(Receipt)
    PROVE  /\ <<t>> \o s \in Seq(Receipt) /\ DOMAIN s = 1..Len(s) /\ Len(s) \in Nat
           /\ DOMAIN (<<t>> \o s) = 1..(Len(s) + 1)
           /\ (<<t>> \o s)[1] = t
           /\ \A i \in DOMAIN s : i + 1 \in DOMAIN (<<t>> \o s) /\ (<<t>> \o s)[i + 1] = s[i]
           /\ \A i \in DOMAIN (<<t>> \o s) :
                 i # 1 => i - 1 \in DOMAIN s /\ (<<t>> \o s)[i] = s[i - 1]
  OBVIOUS

Oks(s) == {t \in Range(s) : t.why = "ok"}

LEMMA OksFinite ==
    ASSUME NEW s \in Seq(Receipt)
    PROVE  IsFiniteSet(Oks(s)) /\ Cardinality(Oks(s)) \in Nat
  <1>1. DOMAIN s = 1..Len(s) /\ Len(s) \in Nat
    OBVIOUS
  <1>2. IsFiniteSet(1..Len(s))
    BY <1>1, FS_Interval
  <1>3. s \in Surjection(1..Len(s), Range(s))
    BY <1>1 DEF Range, Surjection
  <1>4. IsFiniteSet(Range(s))
    BY <1>2, <1>3, FS_Surjection
  <1>5. Oks(s) \in SUBSET Range(s)
    BY DEF Oks
  <1>6. IsFiniteSet(Oks(s))
    BY <1>4, <1>5, FS_Subset
  <1> QED BY <1>6, FS_CardinalityType

LEMMA OksPrepended ==
    ASSUME NEW t \in Receipt, NEW s \in Seq(Receipt)
    PROVE  /\ t.why # "ok" => Oks(<<t>> \o s) = Oks(s)
           /\ Cardinality(Oks(<<t>> \o s)) <= Cardinality(Oks(s)) + 1
  <1>1. Range(<<t>> \o s) = Range(s) \cup {t}
    <2>1. ASSUME NEW x \in Range(<<t>> \o s) PROVE x \in Range(s) \cup {t}
      BY <2>1, Prepended DEF Range
    <2>2. ASSUME NEW x \in Range(s) \cup {t} PROVE x \in Range(<<t>> \o s)
      <3>1. CASE x = t
        <4>1. 1 \in DOMAIN (<<t>> \o s) /\ (<<t>> \o s)[1] = x
          BY <3>1, Prepended
        <4> QED BY <4>1 DEF Range
      <3>2. CASE x \in Range(s)
        <4>1. PICK i \in DOMAIN s : s[i] = x
          BY <3>2 DEF Range
        <4>2. i + 1 \in DOMAIN (<<t>> \o s) /\ (<<t>> \o s)[i + 1] = x
          BY <4>1, Prepended
        <4> QED BY <4>2 DEF Range
      <3> QED BY <3>1, <3>2
    <2> QED BY <2>1, <2>2
  <1>2. t.why # "ok" => Oks(<<t>> \o s) = Oks(s)
    BY <1>1 DEF Oks
  <1>3. t.why = "ok" => Oks(<<t>> \o s) = Oks(s) \cup {t}
    BY <1>1 DEF Oks
  <1>4. Cardinality(Oks(s) \cup {t}) <= Cardinality(Oks(s)) + 1
    <2>1. IsFiniteSet(Oks(s)) /\ Cardinality(Oks(s)) \in Nat
      BY OksFinite
    <2>2. Cardinality(Oks(s) \cup {t}) = IF t \in Oks(s) THEN Cardinality(Oks(s)) ELSE Cardinality(Oks(s)) + 1
      BY <2>1, FS_AddElement
    <2> QED BY <2>1, <2>2
  <1>5. Cardinality(Oks(s)) \in Nat
    BY OksFinite
  <1>6. CASE t.why = "ok"
    BY <1>3, <1>4, <1>6
  <1>7. CASE t.why # "ok"
    BY <1>2, <1>5, <1>7
  <1> QED BY <1>2, <1>6, <1>7

-----------------------------------------------------------------------------
(* Steps of the context broker.                                             *)

Spent(g) == grants[g].uses + slips + (IF cb.op = "count" /\ cb.g = g THEN 1 ELSE 0)

GrantSound(g) ==
    /\ g \in ended => grants[g].status = "revoked"
    /\ Cardinality(Oks(receipts[g])) <= Spent(g)

LEMMA HoldSound == GrantsHold <=> (overlapped \/ \A g \in Grants : GrantSound(g))
  BY DEF GrantsHold, GrantSound, Spent, Oks

LEMMA OksCount ==
    ASSUME ContextTypes, NEW g \in Grants
    PROVE  /\ IsFiniteSet(Oks(receipts[g])) /\ Cardinality(Oks(receipts[g])) \in Nat
           /\ receipts[g] \in Seq(Receipt) /\ grants[g].uses \in Nat /\ slips \in Nat
           /\ grants[g].uses <= MaxUses
  <1>1. receipts[g] \in Seq(Receipt) /\ slips \in Nat /\ grants[g] \in GrantRecord
    BY DEF ContextTypes, Books
  <1>2. grants[g].uses \in Nat /\ grants[g].uses <= MaxUses
    BY <1>1, Bounds DEF GrantRecord
  <1> QED BY <1>1, <1>2, OksFinite

\* Steps that write nothing and take no operation: the types of what they change.
LEMMA Rests ==
    ASSUME ContextInv,
           UNCHANGED <<grants, due, receipts, issued, ended, overlapped>>,
           cb' \in {cb, Idle}, cb' = cb \/ cb.op # "count" \/ slips' = slips + 1,
           leak' \in {leak, [at |-> "idle", n |-> leak.n]},
           slips' \in {slips, slips + 1},
           answer' \in {"none", "granted", "denied", "revoked", "thrown"}
    PROVE  ContextInv'
  <1>1. ContextTypes'
    BY LeakFacts DEF ContextInv, ContextTypes, Operation
  <1>2. cb' = Idle => cb'.op = "idle"
    BY DEF Idle
  <1>3. Unissued'
    BY <1>2 DEF ContextInv, Unissued
  <1>4. ReceiptsOnce'
    BY <1>2 DEF ContextInv, ReceiptsOnce
  <1>5. ReadsHold'
    BY <1>2 DEF ContextInv, ReadsHold, Releasing
  <1>6. GrantsHold'
    <2>1. ASSUME NEW g \in Grants, GrantSound(g) PROVE GrantSound(g)'
      <3>1. /\ grants[g].uses \in Nat /\ slips \in Nat /\ Cardinality(Oks(receipts[g])) \in Nat
        BY OksCount DEF ContextInv
      <3> QED BY <2>1, <3>1, <1>2 DEF GrantSound, Spent
    <2> QED BY <2>1, HoldSound DEF ContextInv, GrantsHold, GrantSound, Spent, Oks
  <1> QED BY <1>1, <1>3, <1>4, <1>5, <1>6 DEF ContextInv

Answers == {"none", "granted", "denied", "revoked", "thrown"}

LEMMA Tells ==
    ASSUME ContextTypes, NEW caller, NEW what \in Answers, Tell(caller, what)
    PROVE  answer' \in Answers
  BY DEF Tell, ContextTypes, Answers

LEMMA HoldStep ==
    ASSUME overlapped' \/ \A g \in Grants : GrantSound(g)'
    PROVE  GrantsHold'
  BY DEF GrantsHold, GrantSound, Spent, Oks

\* A grant is read when the queue is free, with those past their expiry marked.
Asking(caller, g, r) ==
    cb' = [op |-> "receipt", by |-> caller, g |-> g, r |-> r,
           why |-> Reason(Expire(grants)[g], r), seen |-> Expire(grants)[g]]

LEMMA ExpireInv ==
    ASSUME ContextInv, cb = Idle, grants' = Expire(grants),
           UNCHANGED <<due, receipts, issued, slips, ended, overlapped>>,
           leak' \in {leak, [at |-> "idle", n |-> leak.n]}, answer' \in Answers,
           \/ cb' = Idle
           \/ \E caller \in Caller, g \in Grants, r \in Asked :
                 /\ Asking(caller, g, r) /\ g <= issued
                 /\ \A i \in DOMAIN receipts[g] : receipts[g][i].r # r
    PROVE  ContextInv'
  <1> DEFINE now == Expire(grants)
  <1>1. /\ ContextTypes /\ grants \in Books /\ now \in Books
        /\ \A g \in Grants : /\ now[g].uses = grants[g].uses
                             /\ grants[g].status # "active" => now[g] = grants[g]
                             /\ now[g].status = "active" => grants[g].status = "active"
                             /\ now[g].status = "none" => grants[g].status = "none"
    BY Expiry DEF ContextInv, ContextTypes
  <1> HIDE DEF now
  <1>2. grants' = now /\ cb.op = "idle"
    BY DEF now, Idle
  <1>3. /\ cb' \in Operation /\ cb'.op \in {"idle", "receipt"}
        /\ cb' # Idle => /\ cb'.g \in Grants /\ cb'.g <= issued /\ cb'.seen = now[cb'.g]
                         /\ cb'.why = "ok" => cb'.seen.status = "active" /\ cb'.seen.uses < MaxUses
                         /\ \A i \in DOMAIN receipts[cb'.g] : receipts[cb'.g][i].r # cb'.r
        /\ cb'.op = "idle" <=> cb' = Idle
    <2>1. CASE cb' = Idle
      BY <2>1 DEF Operation, Idle
    <2>3. ASSUME NEW caller \in Caller, NEW g \in Grants, NEW r \in Asked, Asking(caller, g, r),
                 g <= issued, \A i \in DOMAIN receipts[g] : receipts[g][i].r # r
          PROVE  /\ cb' \in Operation /\ cb'.op \in {"idle", "receipt"}
                 /\ cb' # Idle => /\ cb'.g \in Grants /\ cb'.g <= issued /\ cb'.seen = now[cb'.g]
                                  /\ cb'.why = "ok" => cb'.seen.status = "active" /\ cb'.seen.uses < MaxUses
                                  /\ \A i \in DOMAIN receipts[cb'.g] : receipts[cb'.g][i].r # cb'.r
                 /\ cb'.op = "idle" <=> cb' = Idle
      <3> DEFINE why == Reason(now[g], r)
      <3>1. now[g] \in GrantRecord
        BY <1>1, RecordFacts
      <3>2. why \in {"none", "expired", "revoked", "limit", "fields", "ok"}
            /\ (why = "ok" => now[g].status = "active" /\ now[g].uses < MaxUses)
        BY <3>1, Reasons
      <3>3. cb' = [op |-> "receipt", by |-> caller, g |-> g, r |-> r, why |-> why, seen |-> now[g]]
        BY <2>3 DEF Asking, now
      <3> HIDE DEF why
      <3>4. cb' \in Operation
        BY <3>1, <3>2, <3>3 DEF Operation
      <3>5. cb'.op = "receipt" /\ cb' # Idle
        BY <3>3 DEF Idle
      <3> QED BY <2>3, <3>2, <3>3, <3>4, <3>5
    <2> QED BY <2>1, <2>3
  <1>4. ContextTypes'
    BY <1>1, <1>2, <1>3, LeakFacts DEF ContextTypes, Answers
  <1>5. Unissued'
    BY <1>1, <1>2, <1>3 DEF ContextInv, Unissued
  <1>6. ReceiptsOnce'
    BY <1>3 DEF ContextInv, ReceiptsOnce, Idle
  <1>7. ReadsHold'
    <2>1. leak'.at = "write" => leak' = leak
      OBVIOUS
    <2>2. cb'.op = "receipt" /\ cb'.why = "ok" /\ ~ overlapped => cb'.g \notin ended
      <3>1. ~ overlapped /\ cb'.g \in ended /\ cb'.g \in Grants => grants[cb'.g].status = "revoked"
        BY HoldSound DEF ContextInv, GrantSound
      <3> QED BY <1>1, <1>3, <3>1 DEF Idle
    <2>3. overlapped' \/ \A g \in Grants : g <= issued' => grants'[g].status # "none"
      BY <1>1, <1>2 DEF ContextInv, ReadsHold
    <2>4. (leak.at = "write" =>
             \A g \in Grants : /\ leak.next[g].uses = leak.seen[g].uses
                               /\ leak.seen[g].status = "revoked" => leak.next[g].status = "revoked"
                               /\ leak.next[g].status = "none" => leak.seen[g].status = "none")'
      BY <2>1 DEF ContextInv, ReadsHold
    <2>5. Releasing' => cb'.op = "receipt" /\ cb'.why = "ok" /\ cb' # Idle
      BY <1>3 DEF Releasing, Idle
    <2> QED BY <1>2, <1>3, <2>2, <2>3, <2>4, <2>5 DEF ReadsHold
  <1>8. GrantsHold'
    <2>1. ASSUME NEW g \in Grants, GrantSound(g) PROVE GrantSound(g)'
      <3>1. Spent(g)' = Spent(g)
        BY <1>1, <1>2, <1>3 DEF Spent
      <3> QED BY <1>1, <1>2, <2>1, <3>1 DEF GrantSound
    <2> QED BY <2>1, HoldSound, HoldStep DEF ContextInv
  <1> QED BY <1>4, <1>5, <1>6, <1>7, <1>8 DEF ContextInv
LEMMA AuthorizeInv ==
    ASSUME ContextInv, NEW caller \in Caller, NEW g \in Grants, NEW r \in Asked,
           Authorize(caller, g, r), g <= issued, leak' \in {leak, [at |-> "idle", n |-> leak.n]}
    PROVE  ContextInv'
  <1>1. /\ cb = Idle /\ grants' = Expire(grants)
        /\ UNCHANGED <<due, receipts, issued, slips, ended, overlapped>>
    BY DEF Authorize
  <1>2. CASE {t \in Range(receipts[g]) : t.r = r} = {}
    <2>1. Asking(caller, g, r) /\ answer' = answer
      BY <1>2 DEF Authorize, Asking
    <2>2. \A i \in DOMAIN receipts[g] : receipts[g][i].r # r
      BY <1>2 DEF Range
    <2>3. answer' \in Answers
      BY <2>1 DEF ContextInv, ContextTypes, Answers
    <2> QED BY <1>1, <2>1, <2>2, <2>3, ExpireInv
  <1>3. CASE {t \in Range(receipts[g]) : t.r = r} # {}
    <2>1. cb' = Idle
      BY <1>1, <1>3 DEF Authorize
    <2>2. \E what \in {"granted", "denied"} : Tell(caller, what)
      BY <1>3 DEF Authorize
    <2>3. answer' \in Answers
      BY <2>2, Tells DEF Answers, ContextInv
    <2> QED BY <1>1, <2>1, <2>3, ExpireInv
  <1> QED BY <1>2, <1>3

LEMMA LookInv == ASSUME ContextInv, Look PROVE ContextInv'
  BY ExpireInv DEF Look, ContextInv, ContextTypes, Answers

LEMMA IssueInv == ASSUME ContextInv, Issue(issued + 1) PROVE ContextInv'
  <1> DEFINE g == issued + 1
             new == [status |-> "active", uses |-> 0]
  <1>1. /\ cb = Idle /\ g \in Grants /\ issued' = g /\ grants' = [grants EXCEPT ![g] = new]
        /\ UNCHANGED <<due, receipts, cb, leak, answer, slips, ended, overlapped>>
    BY DEF Issue
  <1>2. /\ new \in GrantRecord /\ grants \in Books /\ issued \in Nat /\ g \in Nat /\ g > issued
        /\ issued \in FirstGrants..MaxGrants /\ cb.op = "idle"
    BY <1>1, Bounds DEF GrantRecord, ContextInv, ContextTypes, Idle
  <1> HIDE DEF g, new
  <1>3. /\ grants' \in Books /\ grants'[g] = new
        /\ \A h \in Grants : h # g => grants'[h] = grants[h]
    BY <1>1, <1>2 DEF Books
  <1>4. g \in FirstGrants..MaxGrants
    BY <1>1, <1>2, Bounds DEF Grants
  <1>5. 1..issued \subseteq 1..g
    BY <1>2
  <1>6. ContextTypes'
    <2>1. due' \subseteq 1..g /\ ended' \subseteq 1..g
      BY <1>1, <1>5 DEF ContextInv, ContextTypes
    <2> QED BY <1>1, <1>3, <1>4, <2>1 DEF ContextInv, ContextTypes
  <1>7. Unissued'
    <2>1. ASSUME NEW h \in Grants, h > g PROVE h > issued /\ grants'[h] = grants[h]
      BY <1>2, <1>3, <2>1, Bounds
    <2>2. cb' = Idle /\ cb'.op = "idle"
      BY <1>1, <1>2
    <2> QED BY <1>1, <1>2, <2>1, <2>2 DEF ContextInv, Unissued
  <1>8. ReceiptsOnce'
    BY <1>1 DEF ContextInv, ReceiptsOnce
  <1>9. ReadsHold'
    <2>1. ASSUME NEW h \in Grants, h <= g, h # g PROVE h <= issued
      BY <1>2, <2>1, Bounds DEF g
    <2> QED BY <1>1, <1>2, <1>3, <2>1 DEF ContextInv, ReadsHold, Releasing, new
  <1>10. GrantsHold'
    <2>1. ASSUME NEW h \in Grants, GrantSound(h) PROVE GrantSound(h)'
      <3>1. CASE h = g
        <4>1. receipts[h] = <<>>
          BY <1>1, <1>2, <3>1 DEF ContextInv, Unissued
        <4>2. Oks(receipts[h]) = {}
          BY <4>1 DEF Oks, Range
        <4>3. Cardinality(Oks(receipts[h])) = 0
          BY <4>2, FS_EmptySet
        <4>4. h \notin ended
          BY <1>2, <3>1 DEF ContextInv, ContextTypes
        <4>5. slips \in Nat
          BY DEF ContextInv, ContextTypes
        <4>6. Spent(h)' = slips
          BY <1>1, <1>2, <1>3, <3>1, <4>5 DEF Spent, new
        <4> QED BY <1>1, <4>3, <4>4, <4>5, <4>6 DEF GrantSound
      <3>2. CASE h # g
        BY <1>1, <1>3, <2>1, <3>2 DEF GrantSound, Spent
      <3> QED BY <3>1, <3>2
    <2> QED BY <1>1, <2>1, HoldSound, HoldStep DEF ContextInv
  <1> QED BY <1>6, <1>7, <1>8, <1>9, <1>10 DEF ContextInv

\* A receipt is written: it is the only one of its request.
LEMMA ReceiptLaid ==
    ASSUME ContextInv, cb.op = "receipt", receipts' = WithReceipt
    PROVE  /\ receipts' \in [Grants -> Seq(Receipt)]
           /\ cb.g \in Grants /\ cb.g <= issued
           /\ \A g \in Grants : g # cb.g => receipts'[g] = receipts[g]
           /\ \A g \in Grants : \A i, j \in DOMAIN receipts'[g] :
                 receipts'[g][i].r = receipts'[g][j].r => i = j
           /\ Cardinality(Oks(receipts'[cb.g])) <= Cardinality(Oks(receipts[cb.g])) + 1
           /\ cb.why # "ok" => Oks(receipts'[cb.g]) = Oks(receipts[cb.g])
  <1> DEFINE t == Told(cb.r, cb.why)
             s == receipts[cb.g]
  <1>1. /\ cb # Idle /\ cb.g \in Grants /\ cb.g <= issued /\ t \in Receipt
        /\ receipts \in [Grants -> Seq(Receipt)] /\ s \in Seq(Receipt)
    BY OperationFacts DEF ContextInv, ContextTypes, Unissued, Idle
  <1>2. receipts' = [receipts EXCEPT ![cb.g] = <<t>> \o s]
    BY DEF WithReceipt
  <1>3. t.r = cb.r /\ t.why = cb.why
    BY DEF Told
  <1>4. /\ \A i \in DOMAIN s : s[i].r # t.r
        /\ \A i, j \in DOMAIN s : s[i].r = s[j].r => i = j
    BY <1>1, <1>3 DEF ContextInv, ReceiptsOnce
  <1> HIDE DEF t, s
  <1>5. <<t>> \o s \in Seq(Receipt)
    BY <1>1, Prepended
  <1>6. /\ receipts' \in [Grants -> Seq(Receipt)] /\ receipts'[cb.g] = <<t>> \o s
        /\ \A g \in Grants : g # cb.g => receipts'[g] = receipts[g]
    BY <1>1, <1>2, <1>5
  <1>7. ASSUME NEW i \in DOMAIN (<<t>> \o s), NEW j \in DOMAIN (<<t>> \o s),
               (<<t>> \o s)[i].r = (<<t>> \o s)[j].r
        PROVE  i = j
    <2>1. /\ (<<t>> \o s)[1] = t /\ i \in Nat /\ j \in Nat
          /\ i # 1 => i - 1 \in DOMAIN s /\ (<<t>> \o s)[i] = s[i - 1]
          /\ j # 1 => j - 1 \in DOMAIN s /\ (<<t>> \o s)[j] = s[j - 1]
      BY <1>1, Prepended
    <2>2. CASE i = 1
      BY <1>4, <1>7, <2>1, <2>2
    <2>3. CASE i # 1 /\ j = 1
      BY <1>4, <1>7, <2>1, <2>3
    <2>4. CASE i # 1 /\ j # 1
      <3>1. i - 1 = j - 1
        BY <1>4, <1>7, <2>1, <2>4
      <3> QED BY <2>1, <3>1
    <2> QED BY <2>2, <2>3, <2>4
  <1>8. ASSUME NEW g \in Grants, NEW i \in DOMAIN receipts'[g], NEW j \in DOMAIN receipts'[g],
               receipts'[g][i].r = receipts'[g][j].r
        PROVE  i = j
    <2>1. CASE g = cb.g
      BY <1>6, <1>7, <1>8, <2>1
    <2>2. CASE g # cb.g
      BY <1>6, <1>8, <2>2 DEF ContextInv, ReceiptsOnce
    <2> QED BY <2>1, <2>2
  <1>9. /\ t.why # "ok" => Oks(<<t>> \o s) = Oks(s)
        /\ Cardinality(Oks(<<t>> \o s)) <= Cardinality(Oks(s)) + 1
    BY <1>1, OksPrepended
  <1> QED BY <1>1, <1>3, <1>6, <1>8, <1>9 DEF s

\* The operation goes on to count a release, or ends; a failure may have cut it off there.
LEMMA ReceiptInv ==
    ASSUME ContextInv, cb.op = "receipt", receipts' = WithReceipt,
           UNCHANGED <<grants, due, leak, issued, ended, overlapped>>, answer' \in Answers,
           \/ cb.why = "ok" /\ cb' = [cb EXCEPT !.op = "count"] /\ slips' = slips
           \/ cb.why # "ok" /\ cb' = Idle /\ slips' = slips
           \/ cb' = Idle /\ slips' = slips + 1
    PROVE  ContextInv'
  <1>1. /\ receipts' \in [Grants -> Seq(Receipt)] /\ cb.g \in Grants /\ cb.g <= issued
        /\ \A g \in Grants : g # cb.g => receipts'[g] = receipts[g]
        /\ \A g \in Grants : \A i, j \in DOMAIN receipts'[g] :
              receipts'[g][i].r = receipts'[g][j].r => i = j
        /\ Cardinality(Oks(receipts'[cb.g])) <= Cardinality(Oks(receipts[cb.g])) + 1
        /\ cb.why # "ok" => Oks(receipts'[cb.g]) = Oks(receipts[cb.g])
    BY ReceiptLaid
  <1>2. /\ cb' \in Operation /\ cb'.op \in {"idle", "count"}
        /\ cb'.op = "idle" <=> cb' = Idle
        /\ cb'.op = "count" => cb'.g = cb.g /\ cb'.seen = cb.seen /\ cb.why = "ok" /\ slips' = slips
        /\ slips' \in Nat
        /\ cb'.op = "count" \/ (cb.why # "ok" /\ slips' = slips) \/ slips' = slips + 1
    BY DEF ContextInv, ContextTypes, Operation, Idle
  <1>3. ContextTypes'
    BY <1>1, <1>2 DEF ContextInv, ContextTypes, Answers
  <1>4. Unissued'
    <2>1. issued \in Nat
      BY Bounds DEF ContextInv, ContextTypes
    <2>2. \A g \in Grants : g > issued => receipts'[g] = receipts[g]
      BY <1>1, <2>1, Bounds
    <2> QED BY <1>1, <1>2, <2>2 DEF ContextInv, Unissued
  <1>5. ReceiptsOnce'
    BY <1>1, <1>2 DEF ReceiptsOnce
  <1>6. ReadsHold'
    BY <1>1, <1>2 DEF ContextInv, ReadsHold, Releasing
  <1>7. GrantsHold'
    <2>1. ASSUME NEW g \in Grants, GrantSound(g) PROVE GrantSound(g)'
      <3>1. /\ grants[g].uses \in Nat /\ slips \in Nat /\ Cardinality(Oks(receipts[g])) \in Nat
            /\ Spent(g) = grants[g].uses + slips
        BY OksCount DEF ContextInv, Spent
      <3>2. CASE g # cb.g
        <4>1. Oks(receipts[g])' = Oks(receipts[g])
          BY <1>1, <3>2 DEF Oks
        <4>2. Spent(g)' >= Spent(g)
          BY <1>2, <3>1, <3>2 DEF Spent
        <4>3. Spent(g)' \in Nat
          BY <1>2, <3>1 DEF Spent
        <4> QED BY <2>1, <3>1, <4>1, <4>2, <4>3 DEF GrantSound
      <3>3. CASE g = cb.g
        <4>1. IsFiniteSet(Oks(receipts'[g])) /\ Cardinality(Oks(receipts'[g])) \in Nat
          BY <1>1, OksFinite
        <4>2. CASE cb'.op = "count"
          <5>1. Spent(g)' = grants[g].uses + slips + 1
            BY <1>2, <3>3, <4>2 DEF Spent
          <5> QED BY <1>1, <2>1, <3>1, <3>3, <4>1, <5>1 DEF GrantSound
        <4>3. CASE cb'.op # "count" /\ slips' = slips + 1
          <5>1. Spent(g)' = grants[g].uses + slips + 1
            BY <3>1, <4>3 DEF Spent
          <5> QED BY <1>1, <2>1, <3>1, <3>3, <4>1, <5>1 DEF GrantSound
        <4>4. CASE cb'.op # "count" /\ slips' = slips /\ cb.why # "ok"
          <5>1. Spent(g)' = grants[g].uses + slips
            BY <3>1, <4>4 DEF Spent
          <5> QED BY <1>1, <2>1, <3>1, <3>3, <4>4, <5>1 DEF GrantSound
        <4> QED BY <1>2, <4>2, <4>3, <4>4
      <3> QED BY <3>2, <3>3
    <2> QED BY <2>1, HoldSound, HoldStep DEF ContextInv
  <1> QED BY <1>3, <1>4, <1>5, <1>6, <1>7 DEF ContextInv

LEMMA WriteReceiptInv == ASSUME ContextInv, WriteReceipt PROVE ContextInv'
  <1>1. /\ cb.op = "receipt" /\ receipts' = WithReceipt
        /\ UNCHANGED <<grants, due, leak, issued, slips, ended, overlapped>>
    BY DEF WriteReceipt
  <1>2. CASE cb.why = "ok"
    <2>1. cb' = [cb EXCEPT !.op = "count"] /\ answer' \in Answers
      BY <1>2 DEF WriteReceipt, ContextInv, ContextTypes, Answers
    <2> QED BY <1>1, <1>2, <2>1, ReceiptInv
  <1>3. CASE cb.why # "ok"
    <2>1. cb' = Idle /\ Tell(cb.by, "denied")
      BY <1>3 DEF WriteReceipt
    <2>2. answer' \in Answers
      BY <2>1, Tells DEF Answers, ContextInv, Tell, ContextTypes
    <2> QED BY <1>1, <1>3, <2>1, <2>2, ReceiptInv
  <1> QED BY <1>2, <1>3

\* A release is counted on the record that was read.
LEMMA CountInv == ASSUME ContextInv, Count PROVE ContextInv'
  <1> DEFINE g == cb.g
             counted == [cb.seen EXCEPT !.uses = @ + 1]
  <1>1. /\ cb.op = "count" /\ grants' = Counted /\ cb' = Idle
        /\ UNCHANGED <<due, receipts, leak, issued, slips, ended, overlapped>>
    BY DEF Count
  <1>2. /\ cb # Idle /\ g \in Grants /\ g <= issued /\ cb.seen \in GrantRecord
        /\ grants \in Books /\ slips \in Nat /\ cb'.op = "idle"
        /\ cb.seen.status = "active" /\ cb.seen.uses < MaxUses
    BY <1>1, OperationFacts DEF ContextInv, ContextTypes, Unissued, ReadsHold, Releasing, Idle
  <1>3. counted \in GrantRecord /\ counted.status = "active" /\ counted.uses = cb.seen.uses + 1
    BY <1>2, Bounds DEF GrantRecord
  <1>4. \/ grants' = grants /\ overlapped
        \/ grants' = [grants EXCEPT ![g] = counted]
    BY <1>1, <1>2 DEF Counted, ContextInv, ReadsHold
  <1> HIDE DEF counted
  <1>5. /\ grants' \in Books
        /\ \A h \in Grants : h # g => grants'[h] = grants[h]
        /\ overlapped \/ grants'[g] = counted
        /\ grants'[g].status = "none" => grants[g].status = "none"
    BY <1>2, <1>3, <1>4 DEF Books
  <1>6. answer' \in Answers
    BY Tells DEF Count, ContextInv, Answers
  <1>7. ContextTypes'
    BY <1>1, <1>5, <1>6 DEF ContextInv, ContextTypes, Operation, Answers
  <1>8. Unissued'
    <2>1. issued \in Nat
      BY Bounds DEF ContextInv, ContextTypes
    <2>2. \A h \in Grants : h > issued => grants'[h] = grants[h]
      BY <1>2, <1>5, <2>1, Bounds
    <2> QED BY <1>1, <1>2, <2>2 DEF ContextInv, Unissued
  <1>9. ReceiptsOnce'
    BY <1>1, <1>2 DEF ContextInv, ReceiptsOnce
  <1>10. ReadsHold'
    <2>1. overlapped' \/ \A h \in Grants : h <= issued' => grants'[h].status # "none"
      BY <1>1, <1>5 DEF ContextInv, ReadsHold
    <2> QED BY <1>1, <1>2, <2>1 DEF ContextInv, ReadsHold, Releasing
  <1>11. GrantsHold'
    <2>1. ASSUME ~ overlapped, NEW h \in Grants, GrantSound(h) PROVE GrantSound(h)'
      <3>1. CASE h # g
        BY <1>1, <1>2, <1>5, <2>1, <3>1 DEF GrantSound, Spent
      <3>2. CASE h = g
        <4>1. cb.g \notin ended /\ cb.seen.uses = grants[g].uses
          BY <1>1, <2>1 DEF ContextInv, ReadsHold, Releasing
        <4>2. grants[g].uses \in Nat
          BY <1>2, RecordFacts
        <4>3. Spent(h) = grants[g].uses + slips + 1
          BY <1>1, <3>2 DEF Spent
        <4>4. Spent(h)' = (grants[g].uses + 1) + slips
          BY <1>1, <1>2, <1>3, <1>5, <2>1, <3>2, <4>1, <4>2 DEF Spent
        <4>5. Spent(h)' = Spent(h)
          BY <1>2, <4>2, <4>3, <4>4
        <4> QED BY <1>1, <2>1, <3>2, <4>1, <4>5 DEF GrantSound
      <3> QED BY <3>1, <3>2
    <2> QED BY <1>1, <2>1, HoldSound, HoldStep DEF ContextInv
  <1> QED BY <1>7, <1>8, <1>9, <1>10, <1>11 DEF ContextInv

LEMMA BeginRevokeInv ==
    ASSUME ContextInv, NEW caller \in Caller, NEW g \in Grants, BeginRevoke(caller, g)
    PROVE  ContextInv'
  <1>1. /\ cb = Idle /\ cb' = [op |-> "revoke", by |-> caller, g |-> g, seen |-> grants]
        /\ UNCHANGED <<grants, due, receipts, leak, issued, answer, slips, ended, overlapped>>
        /\ grants[g].status # "none"
    BY DEF BeginRevoke
  <1>2. cb' \in Operation /\ cb'.op = "revoke" /\ cb'.seen = grants /\ cb'.g = g
    BY <1>1 DEF Operation, ContextInv, ContextTypes
  <1>3. ContextTypes'
    BY <1>1, <1>2 DEF ContextInv, ContextTypes
  <1>4. g <= issued
    <2>1. issued \in Nat /\ g \in Nat
      BY Bounds DEF ContextInv, ContextTypes
    <2>2. ~ (g > issued)
      BY <1>1 DEF ContextInv, Unissued
    <2> QED BY <2>1, <2>2
  <1>5. Unissued'
    BY <1>1, <1>2, <1>4 DEF ContextInv, Unissued
  <1>6. ReceiptsOnce'
    BY <1>1, <1>2 DEF ContextInv, ReceiptsOnce
  <1>7. ReadsHold'
    <2>1. ~ overlapped => \A h \in ended : h \in Grants => grants[h].status = "revoked"
      BY HoldSound DEF ContextInv, GrantSound
    <2> QED BY <1>1, <1>2, <2>1 DEF ContextInv, ReadsHold, Releasing
  <1>8. GrantsHold'
    <2>1. ASSUME NEW h \in Grants, GrantSound(h) PROVE GrantSound(h)'
      BY <1>1, <1>2, <2>1 DEF GrantSound, Spent, Idle
    <2> QED BY <1>1, <2>1, HoldSound, HoldStep DEF ContextInv
  <1> QED BY <1>3, <1>5, <1>6, <1>7, <1>8 DEF ContextInv

\* A revocation is written, with what was read of the other grants; a failure may follow.
LEMMA RevokedInv ==
    ASSUME ContextInv, cb.op = "revoke", grants' = Revoked, ended' = ended \cup {cb.g}, cb' = Idle,
           UNCHANGED <<due, receipts, leak, issued, overlapped>>, answer' \in Answers,
           slips' \in {slips, slips + 1}
    PROVE  ContextInv'
  <1> DEFINE g == cb.g
  <1>1. /\ cb # Idle /\ g \in Grants /\ g <= issued /\ cb.seen \in Books /\ issued \in Nat
        /\ slips \in Nat /\ cb'.op = "idle" /\ g \in 1..issued
    BY OperationFacts, Bounds DEF ContextInv, ContextTypes, Unissued, Idle, Grants
  <1>2. /\ grants' \in Books
        /\ grants'[g].status = "revoked" /\ grants'[g].uses = cb.seen[g].uses
        /\ \A h \in Grants : h # g => grants'[h] = cb.seen[h]
    BY <1>1, RecordFacts DEF Revoked, Books, GrantRecord
  <1>3. ContextTypes'
    <2>1. ended' \subseteq 1..issued' /\ slips' \in Nat
      <3>1. ended \subseteq 1..issued
        BY DEF ContextInv, ContextTypes
      <3>2. ended' \subseteq 1..issued'
        BY <1>1, <3>1
      <3>3. slips' \in Nat
        BY <1>1
      <3> QED BY <3>2, <3>3
    <2>2. cb' \in Operation
      BY DEF Operation
    <2> QED BY <1>2, <2>1, <2>2 DEF ContextInv, ContextTypes, Answers
  <1>4. Unissued'
    <2>1. \A h \in Grants : h > issued => grants'[h] = cb.seen[h]
      BY <1>1, <1>2, Bounds
    <2> QED BY <1>1, <2>1 DEF ContextInv, Unissued
  <1>5. ReceiptsOnce'
    BY <1>1 DEF ContextInv, ReceiptsOnce
  <1>6. ReadsHold'
    <2>1. overlapped' \/ \A h \in Grants : h <= issued' => grants'[h].status # "none"
      BY <1>1, <1>2 DEF ContextInv, ReadsHold
    <2> QED BY <1>1, <2>1 DEF ContextInv, ReadsHold, Releasing
  <1>7. GrantsHold'
    <2>1. ASSUME ~ overlapped, NEW h \in Grants, GrantSound(h) PROVE GrantSound(h)'
      <3>1. cb.seen[h].uses = grants[h].uses /\ (h \in ended => cb.seen[h].status = "revoked")
        BY <2>1 DEF ContextInv, ReadsHold
      <3>2. grants[h].uses \in Nat /\ Cardinality(Oks(receipts[h])) \in Nat
        BY OksCount DEF ContextInv
      <3>3. h \in ended' => grants'[h].status = "revoked"
        BY <1>2, <3>1
      <3>4. grants'[h].uses = grants[h].uses
        BY <1>2, <3>1
      <3>5. Spent(h) = grants[h].uses + slips /\ Spent(h)' = grants[h].uses + slips'
        BY <1>1, <3>2, <3>4 DEF Spent
      <3> QED BY <1>1, <2>1, <3>2, <3>3, <3>5 DEF GrantSound
    <2> QED BY <2>1, HoldSound, HoldStep DEF ContextInv
  <1> QED BY <1>3, <1>4, <1>5, <1>6, <1>7 DEF ContextInv

LEMMA WriteRevokeInv == ASSUME ContextInv, WriteRevoke PROVE ContextInv'
  <1>1. /\ cb.op = "revoke" /\ grants' = Revoked /\ ended' = ended \cup {cb.g} /\ cb' = Idle
        /\ UNCHANGED <<due, receipts, leak, issued, slips, overlapped>>
    BY DEF WriteRevoke
  <1>2. answer' \in Answers
    BY Tells DEF WriteRevoke, ContextInv, Answers
  <1> QED BY <1>1, <1>2, RevokedInv

LEMMA OperatorRevokesInv == ASSUME ContextInv, OperatorRevokes PROVE ContextInv'
  BY BeginRevokeInv DEF OperatorRevokes, Caller

\* The leakage proof reads beside the queue.
LEMMA LeakReadInv == ASSUME ContextInv, LeakRead PROVE ContextInv'
  <1>1. UNCHANGED <<grants, due, receipts, cb, issued, answer, slips, ended, overlapped>>
    BY DEF LeakRead
  <1>2. /\ grants \in Books /\ Expire(grants) \in Books /\ leak.n + 1 \in Nat
        /\ \A g \in Grants :
              /\ Expire(grants)[g].uses = grants[g].uses
              /\ grants[g].status # "active" => Expire(grants)[g] = grants[g]
              /\ Expire(grants)[g].status = "none" => grants[g].status = "none"
    BY Expiry, LeakFacts DEF ContextInv, ContextTypes
  <1>3. \E at \in {"ask", "write"} :
           leak' = [at |-> at, n |-> leak.n + 1, seen |-> grants, next |-> Expire(grants)]
    BY DEF LeakRead
  <1>4. /\ leak' \in LeakState
        /\ leak'.seen = grants /\ leak'.next = Expire(grants)
    BY <1>2, <1>3 DEF LeakState
  <1>5. ContextTypes'
    BY <1>1, <1>4 DEF ContextInv, ContextTypes
  <1>6. Unissued'
    BY <1>1, <1>2, <1>4 DEF ContextInv, Unissued
  <1>7. ReceiptsOnce'
    BY <1>1 DEF ContextInv, ReceiptsOnce
  <1>8. ReadsHold'
    <2>1. \A g \in Grants : grants[g].status = "revoked" => Expire(grants)[g].status = "revoked"
      BY <1>2
    <2> QED BY <1>1, <1>2, <1>4, <2>1 DEF ContextInv, ReadsHold, Releasing
  <1>9. GrantsHold'
    BY <1>1 DEF ContextInv, GrantsHold
  <1> QED BY <1>5, <1>6, <1>7, <1>8, <1>9 DEF ContextInv

\* What it writes is what it read, with some grants expired; what was written meanwhile is
\* lost, and noted.
LEMMA LeakWriteInv == ASSUME ContextInv, LeakWrite PROVE ContextInv'
  <1>1. /\ leak.at = "write" /\ grants' = leak.next /\ leak' = [at |-> "ask", n |-> leak.n]
        /\ overlapped' = (overlapped \/ grants # leak.seen)
        /\ UNCHANGED <<due, receipts, cb, issued, answer, slips, ended>>
    BY DEF LeakWrite
  <1>2. leak.seen \in Books /\ leak.next \in Books /\ leak' \in LeakState /\ leak'.at = "ask"
    BY <1>1, LeakFacts DEF ContextInv
  <1>3. ContextTypes'
    BY <1>1, <1>2 DEF ContextInv, ContextTypes
  <1>4. Unissued'
    BY <1>1, <1>2 DEF ContextInv, Unissued
  <1>5. ReceiptsOnce'
    BY <1>1 DEF ContextInv, ReceiptsOnce
  <1>6. ~ overlapped' =>
           /\ ~ overlapped /\ grants = leak.seen
           /\ \A g \in Grants : /\ grants'[g].uses = grants[g].uses
                                /\ grants[g].status = "revoked" => grants'[g].status = "revoked"
                                /\ grants'[g].status = "none" => grants[g].status = "none"
    BY <1>1 DEF ContextInv, ReadsHold
  <1>7. ReadsHold'
    <2>1. overlapped' \/ \A g \in Grants : g <= issued' => grants'[g].status # "none"
      BY <1>1, <1>6 DEF ContextInv, ReadsHold
    <2>2. (Releasing => cb.seen.status = "active" /\ cb.seen.uses < MaxUses)'
      BY <1>1 DEF ContextInv, ReadsHold, Releasing
    <2>3. overlapped' \/ (Releasing => cb.g \notin ended /\ cb.seen.uses = grants[cb.g].uses)'
      <3>1. Releasing => cb.g \in Grants
        BY OperationFacts DEF ContextInv, Releasing, Idle
      <3> QED BY <1>1, <1>6, <3>1 DEF ContextInv, ReadsHold, Releasing
    <2>4. overlapped' \/ (cb.op = "revoke" =>
              \A g \in Grants : /\ cb.seen[g].uses = grants[g].uses
                                /\ g \in ended => cb.seen[g].status = "revoked"
                                /\ g <= issued => cb.seen[g].status # "none")'
      BY <1>1, <1>6 DEF ContextInv, ReadsHold
    <2> QED BY <1>2, <2>1, <2>2, <2>3, <2>4 DEF ReadsHold
  <1>8. GrantsHold'
    <2>1. ASSUME ~ overlapped', NEW g \in Grants, GrantSound(g) PROVE GrantSound(g)'
      BY <1>1, <1>6, <2>1 DEF GrantSound, Spent
    <2> QED BY <1>6, <2>1, HoldSound, HoldStep DEF ContextInv
  <1> QED BY <1>3, <1>4, <1>5, <1>7, <1>8 DEF ContextInv

LEMMA LeakAskInv == ASSUME ContextInv, LeakAsk PROVE ContextInv'
  <1>1. leak' = [at |-> "idle", n |-> leak.n]
    BY DEF LeakAsk
  <1>2. CASE Active = {}
    <2>1. UNCHANGED <<grants, due, receipts, cb, issued, answer, slips, ended, overlapped>>
      BY <1>2 DEF LeakAsk
    <2> QED BY <1>1, <2>1, Rests DEF ContextInv, ContextTypes
  <1>3. CASE Active # {}
    <2>1. Authorize("leak", Max(Active), "leak")
      BY <1>3 DEF LeakAsk
    <2>2. Max(Active) \in Active /\ Active \subseteq Grants
      BY <1>3, Latest DEF Active
    <2>3. Max(Active) \in Grants /\ Max(Active) <= issued
      <3>1. PICK g \in Grants : g = Max(Active)
        BY <2>2
      <3>2. grants[g].status = "active"
        BY <2>2, <3>1 DEF Active
      <3>3. ~ (g > issued)
        BY <3>2 DEF ContextInv, Unissued
      <3>4. issued \in Nat /\ g \in Nat
        BY Bounds DEF ContextInv, ContextTypes
      <3>5. g <= issued
        BY <3>3, <3>4
      <3> QED BY <3>1, <3>5
    <2> QED BY <1>1, <2>1, <2>3, AuthorizeInv DEF Caller, Asked
  <1> QED BY <1>2, <1>3

LEMMA PassTimeInv == ASSUME ContextInv, PassTime PROVE ContextInv'
  <1>1. UNCHANGED <<grants, receipts, cb, leak, issued, answer, slips, ended, overlapped>>
    BY DEF PassTime
  <1>2. PICK g \in Active : due' = due \cup {g}
    BY DEF PassTime
  <1>3. g \in 1..issued
    <2>1. g \in Grants /\ grants[g].status = "active" /\ issued \in Nat
      BY <1>2, Bounds DEF Active, ContextInv, ContextTypes
    <2>2. ~ (g > issued)
      BY <2>1 DEF ContextInv, Unissued
    <2> QED BY <2>1, <2>2, Bounds DEF Grants
  <1>4. ContextTypes'
    BY <1>1, <1>2, <1>3 DEF ContextInv, ContextTypes
  <1>5. Unissued' /\ ReceiptsOnce'
    BY <1>1 DEF ContextInv, Unissued, ReceiptsOnce
  <1>6. ReadsHold'
    BY <1>1 DEF ContextInv, ReadsHold, Releasing
  <1>7. GrantsHold'
    BY <1>1 DEF ContextInv, GrantsHold
  <1> QED BY <1>4, <1>5, <1>6, <1>7 DEF ContextInv

LEMMA ContextSlipInv == ASSUME ContextInv, ContextSlip PROVE ContextInv'
  <1>1. /\ cb' = Idle /\ slips' = slips + 1
        /\ UNCHANGED <<due, leak, issued, overlapped>>
    BY DEF ContextSlip
  <1>2. answer' \in Answers
    BY Tells DEF ContextSlip, ContextInv, Answers
  <1>3. CASE UNCHANGED <<grants, receipts, ended>>
    BY <1>1, <1>2, <1>3, Rests DEF Answers
  <1>4. CASE cb.op = "receipt" /\ receipts' = WithReceipt /\ UNCHANGED <<grants, ended>>
    BY <1>1, <1>2, <1>4, ReceiptInv
  <1>5. CASE cb.op = "revoke" /\ grants' = Revoked /\ ended' = ended \cup {cb.g} /\ UNCHANGED receipts
    BY <1>1, <1>2, <1>5, RevokedInv
  <1> QED BY <1>3, <1>4, <1>5 DEF ContextSlip

LEMMA ContextInitInv == ContextInit => ContextInv
  <1> SUFFICES ASSUME ContextInit PROVE ContextInv
    OBVIOUS
  <1>1. /\ grants \in Books
        /\ \A g \in Grants :
              /\ grants[g].status # "revoked" /\ grants[g].uses = 0
              /\ g > FirstGrants => grants[g].status = "none"
              /\ g <= FirstGrants => grants[g].status = "active"
    BY Bounds DEF ContextInit, Books, GrantRecord, NoGrant, Grants
  <1>2. ContextTypes
    <2>1. receipts \in [Grants -> Seq(Receipt)]
      BY DEF ContextInit
    <2>2. cb \in Operation /\ leak \in LeakState /\ issued \in FirstGrants..MaxGrants
      BY Bounds DEF ContextInit, Operation, LeakState
    <2> QED BY <1>1, <2>1, <2>2 DEF ContextInit, ContextTypes
  <1>3. Unissued
    <2>1. cb = Idle /\ cb.op = "idle" /\ leak.at = "idle" /\ issued = FirstGrants
      BY DEF ContextInit, Idle
    <2>2. \A g \in Grants : receipts[g] = <<>>
      BY DEF ContextInit
    <2> QED BY <1>1, <2>1, <2>2 DEF Unissued
  <1>4. ReceiptsOnce
    BY DEF ContextInit, ReceiptsOnce, Idle
  <1>5. ReadsHold
    BY <1>1 DEF ContextInit, ReadsHold, Releasing, Idle
  <1>6. GrantsHold
    <2>1. ASSUME NEW g \in Grants PROVE GrantSound(g)
      <3>1. receipts[g] = <<>>
        BY DEF ContextInit
      <3>2. Oks(receipts[g]) = {}
        BY <3>1 DEF Oks, Range
      <3>3. Cardinality(Oks(receipts[g])) = 0
        BY <3>2, FS_EmptySet
      <3>4. Spent(g) = 0
        <4>1. grants[g].uses = 0 /\ slips = 0 /\ cb.op # "count"
          BY <1>1 DEF ContextInit, Idle
        <4> QED BY <4>1 DEF Spent
      <3> QED BY <3>3, <3>4 DEF GrantSound, ContextInit
    <2> QED BY <2>1, HoldSound
  <1> QED BY <1>2, <1>3, <1>4, <1>5, <1>6 DEF ContextInv

LEMMA ContextNextInv == ASSUME ContextInv, ContextNext PROVE ContextInv'
  BY WriteReceiptInv, CountInv, WriteRevokeInv, LeakWriteInv, LeakAskInv, OperatorRevokesInv,
     LeakReadInv, LookInv, PassTimeInv, ContextSlipInv DEF ContextNext, ContextStep

-----------------------------------------------------------------------------
(* The places of the coordinator and of the message broker.                 *)

LEMMA CourseFacts ==
    ASSUME LaneTypes
    PROVE  /\ co.at \in {"idle"} \cup Working \cup Managing
           /\ co.at = "idle" <=> co = Resting
           /\ co.at \in Working => co.key \in Keys
           /\ Resting \in Course /\ Resting.at = "idle"
  BY DEF LaneTypes, Course, Resting, Working, Managing

LEMMA AttemptFacts ==
    ASSUME LaneTypes
    PROVE  /\ mb.at \in {"idle", "sent", "asking", "told", "caught", "confirm"}
           /\ mb.at = "idle" <=> mb = Resting
           /\ mb # Resting => mb.key \in Keys
           /\ Resting \in Attempt
  BY DEF LaneTypes, Attempt, Resting

LEMMA GoWorking ==
    ASSUME LaneTypes, co.at \in Working, NEW to \in Working, Go(to)
    PROVE  co' \in Course /\ co'.at = to /\ co'.key = co.key
  BY DEF LaneTypes, Course, Go, Resting, Working, Managing

LEMMA GoManaging ==
    ASSUME LaneTypes, co.at \in Managing, NEW to \in Managing, Go(to)
    PROVE  co' \in Course /\ co'.at = to
  BY DEF LaneTypes, Course, Go, Resting, Working, Managing

LEMMA Attempts ==
    ASSUME LaneTypes, mb # Resting, NEW to \in {"sent", "asking", "told", "caught", "confirm"},
           mb' = [mb EXCEPT !.at = to]
    PROVE  mb' \in Attempt /\ mb' # Resting /\ mb'.at = to /\ mb'.key = mb.key
  BY DEF LaneTypes, Attempt, Resting

LEMMA LaneFacts ==
    ASSUME LanePart
    PROVE  /\ lane.status \in {"ready", "running", "acknowledged"} /\ lane.grant \in Grants
           /\ lane \in LaneRecord
           /\ lane.grant <= issued
           /\ \A k \in Keys : /\ deliveries[k] \in DeliveryRecord
                              /\ deliveries[k].attempts \in Nat /\ deliveries[k].grant \in Grants
                              /\ deliveries[k].grant <= issued
  BY DEF LanePart, LaneTypes, LaneRecord, GrantsIssued, DeliveryRecord

\* Grants, receipts and failures only become more.
Steady ==
    /\ issued \in Nat /\ issued' \in Nat /\ issued <= issued'
    /\ slips \in Nat /\ slips' \in Nat /\ slips <= slips'
    /\ \A g \in Grants : Released(g) => Released(g)'

Numbered == issued \in Nat /\ slips \in Nat /\ issued \in 1..MaxGrants

LEMMA Numbers == ASSUME ContextInv PROVE Numbered
  BY Bounds DEF ContextInv, ContextTypes, Numbered

LEMMA Quiet ==
    ASSUME ContextInv, UNCHANGED <<receipts, issued>>, slips' \in {slips, slips + 1}
    PROVE  Steady
  BY Numbers DEF Numbered, Steady, Released

LEMMA ReleasedEvidence ==
    ASSUME NEW g \in Grants
    PROVE  Released(g) <=> \E t \in Range(receipts[g]) : t.why = "ok"
  BY DEF Released, Range

Acknowledged ==
    /\ \E k \in messages : deliveries[k].status = "acknowledged"
    /\ \E g \in Grants : Released(g)

LEMMA EvidenceFacts == AcknowledgedIsEvidenced <=> (lane.status = "acknowledged" => Acknowledged)
  BY ReleasedEvidence DEF AcknowledgedIsEvidenced, Acknowledged

LEMMA EvidenceStep ==
    ASSUME lane'.status = "acknowledged" => Acknowledged'
    PROVE  AcknowledgedIsEvidenced'
  BY DEF AcknowledgedIsEvidenced, Acknowledged, Released, Range

LEMMA StillIssued ==
    ASSUME LanePart, Steady
    PROVE  /\ lane \in LaneRecord /\ lane.grant \in Grants /\ lane.grant <= issued'
           /\ \A k \in Keys : deliveries[k].grant <= issued'
  <1>1. ASSUME NEW g \in Grants, g <= issued PROVE g <= issued'
    <2>1. g \in Nat
      BY Bounds
    <2> QED BY <1>1, <2>1 DEF Steady
  <1> QED BY <1>1, LaneFacts

\* Steps that leave the deliveries alone.
LEMMA Moves ==
    ASSUME LanePart, Steady, UNCHANGED <<deliveries, messages>>,
           lane' \in LaneRecord, lane'.grant <= issued',
           co' \in Course, mb' \in Attempt, MakingSound',
           \A k \in Keys : Making(k) /\ deliveries[k].status = "in-flight" =>
                              Making(k)' \/ slips' > slips,
           co'.at \in Working => lane'.status # "acknowledged",
           co'.at \in {"handoff", "finish"} =>
               deliveries[co'.key].status = "acknowledged" /\ Released(lane.grant) /\ lane' = lane,
           co'.at = "finish" => co'.key \in messages,
           lane'.status = "acknowledged" =>
              \/ lane.status = "acknowledged"
              \/ /\ \E k \in messages : deliveries[k].status = "acknowledged"
                 /\ \E g \in Grants : Released(g)
    PROVE  LanePart'
  <1>1. LaneTypes'
    BY DEF LanePart, LaneTypes
  <1>2. GrantsIssued'
    <2>1. \A k \in Keys : deliveries[k].grant <= issued'
      BY StillIssued
    <2> QED BY <2>1 DEF GrantsIssued
  <1>3. LaneSound'
    <2>1. co'.at \in {"handoff", "finish"} => Released(lane.grant)'
      <3>1. co'.at \in {"handoff", "finish"} => lane'.grant = lane.grant /\ Released(lane.grant)
        OBVIOUS
      <3>2. PICK g \in Grants : g = lane.grant
        BY LaneFacts
      <3>3. Released(g) => Released(g)'
        BY DEF Steady
      <3> QED BY <3>1, <3>2, <3>3 DEF Released
    <2>2. lane'.status = "acknowledged" => Acknowledged
      BY EvidenceFacts DEF LanePart, LaneSound, Acknowledged
    <2>3. Acknowledged => Acknowledged'
      BY DEF Acknowledged, Steady
    <2>4. AcknowledgedIsEvidenced'
      BY <2>2, <2>3, EvidenceStep
    <2> QED BY <2>1, <2>4 DEF LanePart, LaneSound
  <1>4. AttemptsBound'
    <2>1. ASSUME NEW k \in Keys
          PROVE  /\ deliveries[k].attempts <= MaxAttempts + slips'
                 /\ deliveries[k].status \in {"none", "queued", "retrying"} =>
                       deliveries[k].attempts < MaxAttempts
                 /\ deliveries[k].status = "in-flight" /\ ~ Making(k)' =>
                       deliveries[k].attempts < MaxAttempts + slips'
      <3>1. /\ deliveries[k].attempts \in Nat /\ slips \in Nat /\ slips' \in Nat /\ slips <= slips'
            /\ MaxAttempts \in Nat
        BY LaneFacts, Bounds DEF Steady
      <3>2. /\ deliveries[k].attempts <= MaxAttempts + slips
            /\ deliveries[k].status \in {"none", "queued", "retrying"} =>
                  deliveries[k].attempts < MaxAttempts
            /\ deliveries[k].status = "in-flight" /\ ~ Making(k) =>
                  deliveries[k].attempts < MaxAttempts + slips
        BY DEF LanePart, AttemptsBound
      <3>3. CASE deliveries[k].status = "in-flight" /\ Making(k) /\ ~ Making(k)'
        <4>1. slips' > slips
          BY <3>3
        <4> QED BY <3>1, <3>2, <3>3, <4>1
      <3>4. CASE ~ (deliveries[k].status = "in-flight" /\ Making(k) /\ ~ Making(k)')
        BY <3>1, <3>2, <3>4
      <3> QED BY <3>3, <3>4
    <2> QED BY <2>1 DEF AttemptsBound
  <1> QED BY <1>1, <1>2, <1>3, <1>4 DEF LanePart

LEMMA AtRest ==
    ASSUME LanePart, co.at # "wait"
    PROVE  mb = Resting
  BY DEF LanePart, MakingSound

\* Steps of the coordinator while the message broker makes no delivery.
LEMMA CoordinatorMoves ==
    ASSUME LanePart, Steady, mb = Resting, UNCHANGED <<deliveries, messages, mb>>,
           lane' \in LaneRecord, lane'.grant <= issued', co' \in Course,
           co'.at \in Working => lane'.status # "acknowledged",
           co'.at \in {"handoff", "finish"} =>
               deliveries[co'.key].status = "acknowledged" /\ Released(lane.grant) /\ lane' = lane,
           co'.at = "finish" => co'.key \in messages,
           lane'.status = "acknowledged" =>
              \/ lane.status = "acknowledged"
              \/ /\ \E k \in messages : deliveries[k].status = "acknowledged"
                 /\ \E g \in Grants : Released(g)
    PROVE  LanePart'
  <1>1. mb' \in Attempt /\ MakingSound'
    BY DEF LanePart, LaneTypes, MakingSound
  <1>2. \A k \in Keys : ~ Making(k)
    BY DEF Making
  <1> QED BY <1>1, <1>2, Moves

\* The coordinator goes from one errand to another, or ends it.
LEMMA ManagingMoves ==
    ASSUME LanePart, Steady, UNCHANGED <<lane, deliveries, messages, mb>>,
           co.at \notin Working, co' \in Course, co'.at \in Managing \cup {"idle"}
    PROVE  LanePart'
  <1>1. mb = Resting
    BY AtRest DEF Working
  <1>2. lane \in LaneRecord /\ lane.grant <= issued'
    BY StillIssued
  <1>3. co'.at \notin Working
    BY DEF Working, Managing
  <1> QED BY <1>1, <1>2, <1>3, CoordinatorMoves DEF Working

LEMMA Unmoved ==
    ASSUME LanePart, Steady, UNCHANGED laneVars
    PROVE  LanePart'
  <1>1. lane \in LaneRecord /\ lane.grant <= issued'
    BY StillIssued
  <1>2. co' \in Course /\ mb' \in Attempt
    BY DEF LanePart, LaneTypes, laneVars
  <1>3. MakingSound'
    BY DEF LanePart, MakingSound, laneVars, Steady
  <1>4. \A k \in Keys : Making(k) => Making(k)'
    BY DEF Making, laneVars
  <1> QED BY <1>1, <1>2, <1>3, <1>4, Moves DEF laneVars, LanePart, LaneSound

LEMMA RunLaneInv == ASSUME DeliveryInv, NEW k \in Keys, RunLane(k) PROVE DeliveryInv'
  <1>1. /\ co = Resting /\ lane' = [lane EXCEPT !.status = "running"]
        /\ co' = [at |-> "enqueue", key |-> k]
        /\ UNCHANGED <<deliveries, messages, mb, contextVars>>
    BY DEF RunLane
  <1>2. ContextInv'
    BY <1>1, Rests DEF DeliveryInv, contextVars, ContextInv, ContextTypes
  <1>3. Steady
    BY <1>1, Quiet DEF DeliveryInv, contextVars
  <1>4. mb = Resting
    BY <1>1, AtRest DEF DeliveryInv, Resting
  <1>5. lane' \in LaneRecord /\ lane'.status = "running" /\ lane'.grant <= issued'
    BY <1>1, LaneFacts DEF DeliveryInv, LaneRecord, contextVars
  <1>6. co' \in Course /\ co'.at = "enqueue"
    BY <1>1 DEF Course, Working
  <1>7. LanePart'
    BY <1>1, <1>3, <1>4, <1>5, <1>6, CoordinatorMoves DEF DeliveryInv
  <1> QED BY <1>2, <1>7 DEF DeliveryInv

\* The lane's own steps leave the context broker alone.
LEMMA ContextWaits ==
    ASSUME ContextInv, UNCHANGED contextVars
    PROVE  ContextInv' /\ Steady
  BY Rests, Quiet DEF contextVars, ContextInv, ContextTypes

LEMMA CheckInv == ASSUME DeliveryInv, Check PROVE DeliveryInv'
  <1>1. /\ co.at = "check" /\ UNCHANGED <<contextVars, lane, deliveries, messages, mb>>
        /\ \/ /\ Go("handoff")
              /\ deliveries[co.key].status = "acknowledged"
              /\ receipts[lane.grant] # <<>> /\ Head(receipts[lane.grant]).why = "ok"
           \/ Go("failing")
    BY DEF Check
  <1>2. ContextInv' /\ Steady
    BY <1>1, ContextWaits DEF DeliveryInv
  <1>3. /\ LaneTypes /\ mb = Resting /\ lane \in LaneRecord /\ lane.grant <= issued'
        /\ lane.status # "acknowledged"
    BY <1>1, AtRest, LaneFacts DEF DeliveryInv, LanePart, LaneSound, Working, contextVars
  <1>4. CASE Go("failing")
    <2>1. co' \in Course /\ co'.at = "failing"
      BY <1>1, <1>3, <1>4, GoWorking DEF Working
    <2> QED BY <1>1, <1>2, <1>3, <2>1, CoordinatorMoves DEF DeliveryInv
  <1>5. CASE /\ Go("handoff") /\ deliveries[co.key].status = "acknowledged"
             /\ receipts[lane.grant] # <<>> /\ Head(receipts[lane.grant]).why = "ok"
    <2>1. co' \in Course /\ co'.at = "handoff" /\ co'.key = co.key
      BY <1>1, <1>3, <1>5, GoWorking DEF Working
    <2>2. Released(lane.grant)
      <3>1. receipts[lane.grant] \in Seq(Receipt)
        BY LaneFacts DEF DeliveryInv, ContextInv, ContextTypes
      <3>2. 1 \in DOMAIN receipts[lane.grant] /\ receipts[lane.grant][1].why = "ok"
        BY <1>5, <3>1
      <3> QED BY <3>2 DEF Released
    <2> QED BY <1>1, <1>2, <1>3, <1>5, <2>1, <2>2, CoordinatorMoves DEF DeliveryInv
  <1> QED BY <1>1, <1>4, <1>5

LEMMA FinishInv == ASSUME DeliveryInv, Finish PROVE DeliveryInv'
  <1>1. /\ co.at = "finish" /\ co' = Resting /\ lane' = [lane EXCEPT !.status = "acknowledged"]
        /\ UNCHANGED <<contextVars, deliveries, messages, mb>>
    BY DEF Finish, EndLane
  <1>2. ContextInv' /\ Steady
    BY <1>1, ContextWaits DEF DeliveryInv
  <1>3. /\ mb = Resting /\ lane' \in LaneRecord /\ lane'.grant <= issued' /\ lane.grant \in Grants
        /\ co' \in Course /\ co'.at = "idle"
    BY <1>1, AtRest, LaneFacts DEF DeliveryInv, LaneRecord, contextVars, Course, Resting
  <1>4. co.key \in messages /\ deliveries[co.key].status = "acknowledged" /\ Released(lane.grant)
    BY <1>1 DEF DeliveryInv, LanePart, LaneSound
  <1>5. LanePart'
    BY <1>1, <1>2, <1>3, <1>4, CoordinatorMoves DEF DeliveryInv, Working
  <1> QED BY <1>2, <1>5 DEF DeliveryInv

LEMMA GiveUpInv == ASSUME DeliveryInv, GiveUp PROVE DeliveryInv'
  <1>1. /\ co.at = "failing" /\ co' = Resting /\ lane' = [lane EXCEPT !.status = "ready"]
        /\ UNCHANGED <<contextVars, deliveries, messages, mb>>
    BY DEF GiveUp, EndLane
  <1>2. ContextInv' /\ Steady
    BY <1>1, ContextWaits DEF DeliveryInv
  <1>3. /\ mb = Resting /\ lane' \in LaneRecord /\ lane'.grant <= issued' /\ lane'.status = "ready"
        /\ co' \in Course /\ co'.at = "idle"
    BY <1>1, AtRest, LaneFacts DEF DeliveryInv, LaneRecord, contextVars, Course, Resting
  <1>4. LanePart'
    BY <1>1, <1>2, <1>3, CoordinatorMoves DEF DeliveryInv, Working
  <1> QED BY <1>2, <1>4 DEF DeliveryInv

\* A step of the coordinator towards its next place.
LEMMA GoFailing ==
    ASSUME LanePart, Steady, co.at \in Working, mb = Resting, Go("failing"),
           UNCHANGED <<lane, deliveries, messages, mb>>
    PROVE  LanePart'
  <1>1. co' \in Course /\ co'.at = "failing"
    BY GoWorking DEF LanePart, Working
  <1>2. lane.status # "acknowledged"
    BY DEF LanePart, LaneSound
  <1> QED BY <1>1, <1>2, StillIssued, CoordinatorMoves

\* Steps that add a handoff.
LEMMA HandoffMoves ==
    ASSUME LanePart, Steady, co.at \in {"handoff", "finish"}, mb = Resting,
           messages' \in {messages, messages \cup {co.key}},
           UNCHANGED <<lane, deliveries, mb>>,
           \/ Go("failing")
           \/ Go("finish") /\ co.key \in messages'
    PROVE  LanePart'
  <1>1. /\ LaneTypes /\ co.at \in Working /\ co.key \in Keys /\ lane.status # "acknowledged"
        /\ deliveries[co.key].status = "acknowledged" /\ Released(lane.grant)
    BY CourseFacts DEF LanePart, LaneSound, Working
  <1>2. /\ co' \in Course /\ co'.key = co.key /\ co'.at \in {"failing", "finish"}
        /\ co'.at = "finish" => co.key \in messages'
    BY <1>1, GoWorking DEF Working
  <1>3. LaneTypes'
    BY <1>1, <1>2 DEF LanePart, LaneTypes
  <1>4. GrantsIssued' /\ MakingSound'
    BY StillIssued DEF GrantsIssued, MakingSound
  <1>5. LaneSound'
    <2>1. Released(lane.grant)'
      <3>1. PICK g \in Grants : g = lane.grant
        BY LaneFacts
      <3>2. Released(g)'
        BY <1>1, <3>1 DEF Steady
      <3> QED BY <3>1, <3>2 DEF Released
    <2>2. \A k \in messages' : deliveries[k].status # "none"
      BY <1>1 DEF LanePart, LaneSound
    <2> QED BY <1>1, <1>2, <2>1, <2>2, EvidenceStep DEF LaneSound
  <1>6. AttemptsBound'
    <2>1. ASSUME NEW k \in Keys
          PROVE  /\ deliveries[k].attempts <= MaxAttempts + slips'
                 /\ deliveries[k].status \in {"none", "queued", "retrying"} =>
                       deliveries[k].attempts < MaxAttempts
                 /\ deliveries[k].status = "in-flight" => deliveries[k].attempts < MaxAttempts + slips'
      <3>1. /\ deliveries[k].attempts \in Nat /\ slips \in Nat /\ slips' \in Nat /\ slips <= slips'
            /\ MaxAttempts \in Nat /\ ~ Making(k)
        BY LaneFacts, Bounds DEF Steady, Making
      <3> QED BY <3>1 DEF LanePart, AttemptsBound
    <2> QED BY <2>1 DEF AttemptsBound
  <1> QED BY <1>3, <1>4, <1>5, <1>6 DEF LanePart

LEMMA HandoffInv == ASSUME DeliveryInv, Handoff PROVE DeliveryInv'
  <1>1. /\ co.at = "handoff" /\ UNCHANGED <<contextVars, lane, deliveries, mb>>
        /\ \/ messages' = messages \cup {co.key} /\ Go("finish")
           \/ Go("failing") /\ messages' = messages
    BY DEF Handoff
  <1>2. ContextInv' /\ Steady
    BY <1>1, ContextWaits DEF DeliveryInv
  <1>3. mb = Resting
    BY <1>1, AtRest DEF DeliveryInv
  <1>4. LanePart'
    BY <1>1, <1>2, <1>3, HandoffMoves DEF DeliveryInv
  <1> QED BY <1>2, <1>4 DEF DeliveryInv

\* Steps that write one delivery: it is one that the message broker makes, or it makes none.
LEMMA Writes ==
    ASSUME LanePart, Steady, NEW k \in Keys, NEW d \in DeliveryRecord,
           deliveries' = [deliveries EXCEPT ![k] = d], d.grant <= issued',
           deliveries[k].status = "acknowledged" => d.status = "acknowledged" \/ Making(k),
           d.status # "none",
           UNCHANGED <<lane, messages>>,
           co' \in Course, mb' \in Attempt,
           co'.at \in Working => lane.status # "acknowledged",
           co'.at \notin {"handoff", "finish"} \/ co' = co,
           mb = Resting \/ Making(k),
           mb' # Resting => mb'.key = k /\ co'.at = "wait",
           mb'.at \in {"sent", "asking", "told"} => d.status = "in-flight",
           mb'.at = "confirm" => d.status = "acknowledged",
           mb'.at # "caught",
           d.attempts <= MaxAttempts + slips',
           d.status \in {"queued", "retrying"} => d.attempts < MaxAttempts,
           d.status = "in-flight" => mb' # Resting \/ d.attempts < MaxAttempts + slips'
    PROVE  LanePart'
  <1>1. /\ deliveries' \in [Keys -> DeliveryRecord] /\ deliveries'[k] = d
        /\ \A h \in Keys : h # k => deliveries'[h] = deliveries[h]
    BY DEF LanePart, LaneTypes
  <1>2. LaneTypes'
    BY <1>1 DEF LanePart, LaneTypes
  <1>3. GrantsIssued'
    <2>1. ASSUME NEW h \in Keys PROVE deliveries'[h].grant <= issued'
      BY <1>1, StillIssued
    <2> QED BY <2>1, StillIssued DEF GrantsIssued
  <1>4. MakingSound'
    BY <1>1 DEF MakingSound
  <1>5. LaneSound'
    <2>1. ASSUME NEW h \in messages PROVE deliveries'[h].status # "none"
      <3>1. h \in Keys /\ deliveries[h].status # "none"
        BY DEF LanePart, LaneTypes, LaneSound
      <3> QED BY <1>1, <3>1
    <2>2. ASSUME NEW h \in Keys, deliveries[h].status = "acknowledged", ~ Making(h)
          PROVE  deliveries'[h].status = "acknowledged"
      BY <1>1, <2>2
    <2>3. co.at \in Working \/ \A h \in Keys : ~ Making(h)
      BY DEF LanePart, MakingSound, Making, Working
    <2>4. lane.status = "acknowledged" => Acknowledged'
      <3>1. SUFFICES ASSUME lane.status = "acknowledged" PROVE Acknowledged'
        OBVIOUS
      <3>2. Acknowledged /\ \A h \in Keys : ~ Making(h)
        BY <2>3, <3>1, EvidenceFacts DEF LanePart, LaneSound
      <3>3. PICK h \in messages : deliveries[h].status = "acknowledged"
        BY <3>2 DEF Acknowledged
      <3>4. h \in Keys
        BY DEF LanePart, LaneTypes
      <3>5. deliveries'[h].status = "acknowledged"
        BY <2>2, <3>2, <3>3, <3>4
      <3>6. \E g \in Grants : Released(g)'
        BY <3>2 DEF Acknowledged, Steady
      <3> QED BY <3>3, <3>5, <3>6 DEF Acknowledged
    <2>5. AcknowledgedIsEvidenced'
      BY <2>4, EvidenceStep
    <2>6. co'.at \in {"handoff", "finish"} =>
             deliveries'[co'.key].status = "acknowledged" /\ Released(lane.grant)'
      <3>1. SUFFICES ASSUME co'.at \in {"handoff", "finish"}
                     PROVE  deliveries'[co'.key].status = "acknowledged" /\ Released(lane.grant)'
        OBVIOUS
      <3>2. co' = co /\ co.key \in Keys /\ deliveries[co.key].status = "acknowledged"
            /\ Released(lane.grant)
        BY <3>1, CourseFacts DEF LanePart, LaneSound, Working
      <3>3. ~ Making(co.key)
        BY <3>1, <3>2, AtRest DEF Making
      <3>4. deliveries'[co.key].status = "acknowledged"
        BY <2>2, <3>2, <3>3
      <3>5. Released(lane.grant)'
        <4>1. PICK g \in Grants : g = lane.grant
          BY LaneFacts
        <4>2. Released(g)'
          BY <3>2, <4>1 DEF Steady
        <4> QED BY <4>1, <4>2 DEF Released
      <3> QED BY <3>2, <3>4, <3>5
    <2>7. co'.at = "finish" => co'.key \in messages
      BY DEF LanePart, LaneSound
    <2> QED BY <2>1, <2>5, <2>6, <2>7 DEF LaneSound
  <1>6. AttemptsBound'
    <2>1. ASSUME NEW h \in Keys
          PROVE  /\ deliveries'[h].attempts <= MaxAttempts + slips'
                 /\ deliveries'[h].status \in {"none", "queued", "retrying"} =>
                       deliveries'[h].attempts < MaxAttempts
                 /\ deliveries'[h].status = "in-flight" /\ ~ Making(h)' =>
                       deliveries'[h].attempts < MaxAttempts + slips'
      <3>1. CASE h = k
        BY <1>1, <3>1 DEF Making
      <3>2. CASE h # k
        <4>1. /\ deliveries[h].attempts \in Nat /\ slips \in Nat /\ slips' \in Nat /\ slips <= slips'
              /\ MaxAttempts \in Nat /\ ~ Making(h)
          BY <3>2, LaneFacts, Bounds DEF Steady, Making
        <4> QED BY <1>1, <3>2, <4>1 DEF LanePart, AttemptsBound
      <3> QED BY <3>1, <3>2
    <2> QED BY <2>1 DEF AttemptsBound
  <1> QED BY <1>2, <1>3, <1>4, <1>5, <1>6 DEF LanePart

-----------------------------------------------------------------------------
(* Steps that write deliveries.                                             *)

LEMMA FailedFacts ==
    ASSUME NEW d \in DeliveryRecord
    PROVE  /\ Failed(d) \in DeliveryRecord /\ Failed(d).status \in {"dead-letter", "retrying"}
           /\ Failed(d).attempts = d.attempts /\ Failed(d).grant = d.grant
           /\ Failed(d).status = "retrying" => d.attempts < MaxAttempts
  BY Bounds DEF DeliveryRecord, Failed, Settled

LEMMA InFlightFacts ==
    ASSUME NEW d \in DeliveryRecord
    PROVE  /\ InFlight(d) \in DeliveryRecord /\ InFlight(d).status = "in-flight"
           /\ InFlight(d).attempts = d.attempts + 1 /\ InFlight(d).grant = d.grant
  <1>1. d.attempts \in Nat /\ d.attempts + 1 \in Nat
    BY DEF DeliveryRecord
  <1>2. InFlight(d).status = "in-flight" /\ InFlight(d).attempts = d.attempts + 1
    BY <1>1 DEF DeliveryRecord, InFlight
  <1>3. InFlight(d).grant = d.grant
    BY DEF DeliveryRecord, InFlight
  <1>4. InFlight(d) \in DeliveryRecord
    BY <1>1 DEF DeliveryRecord, InFlight
  <1> QED BY <1>2, <1>3, <1>4

LEMMA AttemptsLeft ==
    ASSUME Steady
    PROVE  0 < MaxAttempts /\ 0 <= MaxAttempts + slips'
  <1>1. PICK m \in Nat, n \in Nat : m = MaxAttempts /\ m >= 1 /\ n = slips'
    BY Bounds DEF Steady
  <1>2. 0 <= m + n
    OBVIOUS
  <1>3. 0 < m
    BY <1>1
  <1> QED BY <1>1, <1>2, <1>3

\* A delivery is queued, or it was before and nothing is written.
LEMMA Queues ==
    ASSUME LanePart, Steady, co.at = "enqueue", UNCHANGED <<lane, messages, mb>>,
           deliveries' \in {deliveries, Queued}, co' \in Course,
           co'.at \notin {"handoff", "finish"}
    PROVE  LanePart'
  <1> DEFINE k == co.key
             d == [status |-> "queued", attempts |-> 0, grant |-> lane.grant]
  <1>1. /\ mb = Resting /\ mb.at = "idle" /\ k \in Keys /\ lane.status # "acknowledged"
    BY AtRest, CourseFacts DEF LanePart, LaneSound, Working, Resting
  <1>2. CASE deliveries' = deliveries
    BY <1>1, <1>2, StillIssued, CoordinatorMoves
  <1>3. CASE deliveries[k].status = "none" /\ deliveries' = [deliveries EXCEPT ![k] = d]
    <2>1. d \in DeliveryRecord /\ d.grant <= issued' /\ d.status = "queued" /\ d.attempts = 0
      BY StillIssued, Bounds DEF DeliveryRecord
    <2> HIDE DEF d
    <2>2. 0 < MaxAttempts /\ 0 <= MaxAttempts + slips'
      BY AttemptsLeft
    <2>3. mb' \in Attempt /\ mb' = Resting
      BY <1>1 DEF LanePart, LaneTypes
    <2> HIDE DEF k
    <2> QED BY <1>1, <1>3, <2>1, <2>2, <2>3, Writes
  <1> QED BY <1>2, <1>3 DEF Queued

LEMMA EnqueueInv == ASSUME DeliveryInv, Enqueue PROVE DeliveryInv'
  <1>1. /\ co.at = "enqueue" /\ deliveries' = Queued /\ Go("deliver")
        /\ UNCHANGED <<lane, messages, mb, contextVars>>
    BY DEF Enqueue
  <1>2. ContextInv' /\ Steady
    BY <1>1, ContextWaits DEF DeliveryInv
  <1>3. co' \in Course /\ co'.at = "deliver"
    BY <1>1, GoWorking DEF DeliveryInv, LanePart, Working
  <1>4. LanePart'
    BY <1>1, <1>2, <1>3, Queues DEF DeliveryInv
  <1> QED BY <1>2, <1>4 DEF DeliveryInv

LEMMA DeliverInv == ASSUME DeliveryInv, Deliver PROVE DeliveryInv'
  <1> DEFINE k == co.key
             d == deliveries[k]
  <1>1. /\ co.at = "deliver" /\ mb = Resting /\ UNCHANGED <<lane, messages, contextVars>>
        /\ \/ d.status \in Settled /\ Go("check") /\ UNCHANGED <<deliveries, mb>>
           \/ /\ d.status \notin Settled
              /\ deliveries' = [deliveries EXCEPT ![k] = InFlight(d)]
              /\ mb' = [at |-> "sent", key |-> k] /\ Go("wait")
           \/ /\ d.status \notin Settled
              /\ deliveries' = [deliveries EXCEPT ![k] = Failed([d EXCEPT !.attempts = MaxAttempts])]
              /\ Go("check") /\ UNCHANGED mb
    BY DEF Deliver
  <1>2. ContextInv' /\ Steady /\ slips' = slips /\ issued' = issued
    BY <1>1, ContextWaits DEF DeliveryInv, contextVars
  <1>3. /\ LaneTypes /\ LanePart /\ k \in Keys /\ lane.status # "acknowledged"
        /\ d \in DeliveryRecord /\ d.grant <= issued /\ d.attempts \in Nat /\ slips \in Nat
        /\ ~ Making(k)
    BY <1>1, <1>2, CourseFacts, LaneFacts DEF DeliveryInv, LanePart, LaneSound, Working, Making, Steady
  <1>4. CASE d.status \in Settled /\ Go("check") /\ UNCHANGED <<deliveries, mb>>
    <2>1. co' \in Course /\ co'.at = "check"
      BY <1>1, <1>3, <1>4, GoWorking DEF Working
    <2> QED BY <1>1, <1>2, <1>3, <1>4, <2>1, StillIssued, CoordinatorMoves DEF DeliveryInv
  <1>5. CASE /\ d.status \notin Settled
             /\ deliveries' = [deliveries EXCEPT ![k] = InFlight(d)]
             /\ mb' = [at |-> "sent", key |-> k] /\ Go("wait")
    <2> DEFINE e == InFlight(d)
    <2>1. /\ e \in DeliveryRecord /\ e.status = "in-flight" /\ e.attempts = d.attempts + 1
          /\ e.grant = d.grant
      BY <1>3, InFlightFacts
    <2>2. d.attempts < MaxAttempts + slips
      <3>1. d.status \in {"none", "queued", "in-flight", "retrying"}
        BY <1>3, <1>5 DEF DeliveryRecord
      <3>2. /\ d.status \in {"none", "queued", "retrying"} => d.attempts < MaxAttempts
            /\ d.status = "in-flight" => d.attempts < MaxAttempts + slips
        BY <1>3 DEF LanePart, AttemptsBound
      <3> QED BY <1>3, <3>1, <3>2, Bounds
    <2>3. e.attempts <= MaxAttempts + slips'
      BY <1>2, <1>3, <2>1, <2>2, Bounds
    <2>4. co' \in Course /\ co'.at = "wait"
      BY <1>1, <1>3, <1>5, GoWorking DEF Working
    <2>5. mb' \in Attempt /\ mb' # Resting /\ mb'.key = k /\ mb'.at = "sent"
      BY <1>3, <1>5 DEF Attempt, Resting
    <2>6. d.status # "acknowledged"
      BY <1>5 DEF Settled
    <2>7. e.grant <= issued'
      BY <1>2, <1>3, <2>1
    <2> HIDE DEF e
    <2>8. deliveries' = [deliveries EXCEPT ![k] = e]
      BY <1>5 DEF e
    <2>9. LanePart'
      <3> HIDE DEF d, k
      <3> QED BY <1>1, <1>2, <1>3, <2>1, <2>3, <2>4, <2>5, <2>6, <2>7, <2>8, Writes DEF d
    <2> QED BY <1>2, <2>9 DEF DeliveryInv
  <1>6. CASE /\ d.status \notin Settled
             /\ deliveries' = [deliveries EXCEPT ![k] = Failed([d EXCEPT !.attempts = MaxAttempts])]
             /\ Go("check") /\ UNCHANGED mb
    <2> DEFINE final == [d EXCEPT !.attempts = MaxAttempts]
               e == Failed(final)
    <2>1. final \in DeliveryRecord /\ final.attempts = MaxAttempts /\ final.grant = d.grant
      BY <1>3, Bounds DEF DeliveryRecord
    <2> HIDE DEF final
    <2>2. /\ e \in DeliveryRecord /\ e.status = "dead-letter" /\ e.attempts = MaxAttempts
          /\ e.grant = d.grant
      BY <2>1, FailedFacts, Bounds
    <2>3. e.attempts <= MaxAttempts + slips'
      BY <1>2, <1>3, <2>2, Bounds
    <2>4. co' \in Course /\ co'.at = "check"
      BY <1>1, <1>3, <1>6, GoWorking DEF Working
    <2>5. mb' \in Attempt /\ mb' = Resting /\ mb'.at = "idle"
      BY <1>1, <1>3, <1>6 DEF LaneTypes, Resting
    <2>6. d.status # "acknowledged"
      BY <1>6 DEF Settled
    <2>7. e.grant <= issued'
      BY <1>2, <1>3, <2>2
    <2>8. deliveries' = [deliveries EXCEPT ![k] = e]
      BY <1>6 DEF final
    <2>9. LanePart'
      <3> HIDE DEF d, k, e
      <3> QED BY <1>1, <1>2, <1>3, <2>2, <2>3, <2>4, <2>5, <2>6, <2>7, <2>8, Writes DEF d
    <2> QED BY <1>2, <2>9 DEF DeliveryInv
  <1> QED BY <1>1, <1>4, <1>5, <1>6

LEMMA CancelInv == ASSUME DeliveryInv, NEW k \in Keys, Cancel(k) PROVE DeliveryInv'
  <1> DEFINE d == deliveries[k]
             e == [d EXCEPT !.status = "cancelled"]
  <1>1. /\ mb = Resting /\ d.status \notin {"none", "acknowledged"}
        /\ deliveries' = [deliveries EXCEPT ![k] = e]
        /\ UNCHANGED <<contextVars, lane, messages, co, mb>>
    BY DEF Cancel
  <1>2. ContextInv' /\ Steady /\ slips' = slips /\ issued' = issued
    BY <1>1, ContextWaits DEF DeliveryInv, contextVars
  <1>3. /\ d \in DeliveryRecord /\ d.grant <= issued /\ d.attempts <= MaxAttempts + slips
    BY LaneFacts DEF DeliveryInv, LanePart, AttemptsBound
  <1>4. /\ e \in DeliveryRecord /\ e.status = "cancelled" /\ e.attempts = d.attempts
        /\ e.grant = d.grant
    BY <1>3 DEF DeliveryRecord, Settled
  <1> HIDE DEF e
  <1>5. /\ mb' \in Attempt /\ mb' = Resting /\ mb'.at = "idle" /\ co' \in Course
        /\ co.at \in Working => lane.status # "acknowledged"
    BY <1>1 DEF DeliveryInv, LanePart, LaneTypes, LaneSound, Resting
  <1>6. e.grant <= issued' /\ e.attempts <= MaxAttempts + slips'
    BY <1>2, <1>3, <1>4
  <1>7. LanePart'
    <2> HIDE DEF d
    <2> QED BY <1>1, <1>2, <1>4, <1>5, <1>6, Writes DEF DeliveryInv, d
  <1> QED BY <1>2, <1>7 DEF DeliveryInv

\* An acknowledgement is written for the delivery in progress.
LEMMA AcknowledgeInv == ASSUME DeliveryInv, Acknowledge PROVE DeliveryInv'
  <1> DEFINE k == mb.key
             d == deliveries[k]
             e == [d EXCEPT !.status = "acknowledged"]
  <1>1. /\ mb.at \in {"sent", "told"} /\ deliveries' = [deliveries EXCEPT ![k] = e]
        /\ mb' = [mb EXCEPT !.at = "confirm"]
        /\ UNCHANGED <<contextVars, lane, messages, co>>
    BY DEF Acknowledge
  <1>2. ContextInv' /\ Steady /\ slips' = slips /\ issued' = issued
    BY <1>1, ContextWaits DEF DeliveryInv, contextVars
  <1>3. /\ LaneTypes /\ mb # Resting /\ k \in Keys /\ co.at = "wait" /\ Making(k)
        /\ lane.status # "acknowledged"
    BY <1>1, AttemptFacts DEF DeliveryInv, LanePart, LaneSound, MakingSound, Making, Working, Resting
  <1>4. d \in DeliveryRecord /\ d.grant <= issued /\ d.attempts <= MaxAttempts + slips
    BY <1>3, LaneFacts DEF DeliveryInv, LanePart, AttemptsBound
  <1>5. /\ e \in DeliveryRecord /\ e.status = "acknowledged" /\ e.attempts = d.attempts
        /\ e.grant = d.grant
    BY <1>4 DEF DeliveryRecord, Settled
  <1>6. mb' \in Attempt /\ mb' # Resting /\ mb'.at = "confirm" /\ mb'.key = k
    BY <1>1, <1>3, Attempts
  <1> HIDE DEF e
  <1>7. e.grant <= issued' /\ e.attempts <= MaxAttempts + slips' /\ co' \in Course /\ co' = co
    BY <1>1, <1>2, <1>3, <1>4, <1>5 DEF LaneTypes
  <1>8. LanePart'
    <2> HIDE DEF d, k
    <2> QED BY <1>1, <1>2, <1>3, <1>5, <1>6, <1>7, Writes DEF DeliveryInv
  <1> QED BY <1>2, <1>8 DEF DeliveryInv

\* The delivery in progress fails: it is tried again, or dead.
LEMMA FailMaking ==
    ASSUME LanePart, Steady, mb.at = "caught", mb' = Resting, UNCHANGED <<lane, messages>>,
           deliveries' = [deliveries EXCEPT ![mb.key] = Failed(@)],
           \E to \in {"check", "failing"} : Go(to)
    PROVE  LanePart'
  <1> DEFINE k == mb.key
             d == deliveries[k]
             e == Failed(d)
  <1>1. /\ LaneTypes /\ mb # Resting /\ k \in Keys /\ co.at = "wait" /\ Making(k)
        /\ lane.status # "acknowledged"
    BY AttemptFacts DEF LanePart, LaneSound, MakingSound, Making, Working, Resting
  <1>2. d \in DeliveryRecord /\ d.grant <= issued' /\ d.attempts <= MaxAttempts + slips /\ d.attempts \in Nat
    BY <1>1, LaneFacts, StillIssued DEF LanePart, AttemptsBound
  <1>3. /\ e \in DeliveryRecord /\ e.status \in {"dead-letter", "retrying"}
        /\ e.attempts = d.attempts /\ e.grant = d.grant
        /\ e.status = "retrying" => d.attempts < MaxAttempts
    BY <1>2, FailedFacts
  <1>4. mb' \in Attempt /\ mb'.at = "idle"
    BY DEF Attempt, Resting
  <1>5. co' \in Course /\ co'.at \in {"check", "failing"}
    BY <1>1, GoWorking DEF Working
  <1>6. e.grant <= issued' /\ e.attempts <= MaxAttempts + slips'
    BY <1>2, <1>3, Bounds DEF Steady
  <1>7. deliveries' = [deliveries EXCEPT ![k] = e]
    OBVIOUS
  <1> HIDE DEF e, d, k
  <1> QED BY <1>1, <1>3, <1>4, <1>5, <1>6, <1>7, Writes

LEMMA CatchInv == ASSUME DeliveryInv, CatchDelivery PROVE DeliveryInv'
  <1>1. /\ mb.at = "caught" /\ mb' = Resting /\ Go("check")
        /\ deliveries' = [deliveries EXCEPT ![mb.key] = Failed(@)]
        /\ UNCHANGED <<contextVars, lane, messages>>
    BY DEF CatchDelivery, Return
  <1>2. ContextInv' /\ Steady
    BY <1>1, ContextWaits DEF DeliveryInv
  <1>3. LanePart'
    BY <1>1, <1>2, FailMaking DEF DeliveryInv
  <1> QED BY <1>2, <1>3 DEF DeliveryInv

-----------------------------------------------------------------------------
(* Steps of the agent and of the message broker that write no delivery.     *)

\* The delivery in progress moves to its next place.
LEMMA AttemptMoves ==
    ASSUME LanePart, Steady, mb # Resting, UNCHANGED <<lane, deliveries, messages, co>>,
           NEW to \in {"sent", "asking", "told", "caught", "confirm"}, mb' = [mb EXCEPT !.at = to],
           to \in {"sent", "asking", "told"} => mb.at \in {"sent", "asking", "told"},
           to = "confirm" => mb.at = "confirm",
           to = "caught" => mb.at # "confirm" \/ slips' > 0
    PROVE  LanePart'
  <1>1. /\ LaneTypes /\ co.at = "wait" /\ mb.key \in Keys
        /\ mb' \in Attempt /\ mb' # Resting /\ mb'.at = to /\ mb'.key = mb.key
        /\ mb.at \in {"sent", "asking", "told", "caught", "confirm"}
        /\ lane.status # "acknowledged"
    BY Attempts, AttemptFacts DEF LanePart, MakingSound, LaneSound, Working
  <1>2. MakingSound'
    <2>1. to = "caught" => \/ deliveries[mb.key].status = "in-flight"
                           \/ deliveries[mb.key].status = "acknowledged" /\ slips' > 0
      <3>1. mb.at = "caught" /\ slips > 0 => slips' > 0
        BY DEF Steady
      <3> QED BY <1>1, <3>1 DEF LanePart, MakingSound
    <2> QED BY <1>1, <2>1 DEF LanePart, MakingSound
  <1>3. \A k \in Keys : Making(k) => Making(k)'
    BY <1>1 DEF Making
  <1>4. co' \in Course /\ co'.at \notin {"handoff", "finish"}
    BY <1>1 DEF LaneTypes
  <1> QED BY <1>1, <1>2, <1>3, <1>4, StillIssued, Moves

LEMMA AskInv == ASSUME DeliveryInv, NEW r \in Requests, Ask(r) PROVE DeliveryInv'
  <1> DEFINE g == deliveries[mb.key].grant
  <1>1. /\ mb.at = "sent" /\ mb' = [mb EXCEPT !.at = "asking"] /\ Authorize("agent", g, r)
        /\ UNCHANGED <<leak, lane, deliveries, messages, co>>
    BY DEF Ask
  <1>2. mb # Resting /\ mb.key \in Keys
    BY <1>1, AttemptFacts DEF DeliveryInv, LanePart, Resting
  <1>3. g \in Grants /\ g <= issued
    BY <1>2, LaneFacts DEF DeliveryInv
  <1> HIDE DEF g
  <1>4. ContextInv'
    BY <1>1, <1>3, AuthorizeInv DEF DeliveryInv, Caller, Asked
  <1>5. Steady
    BY <1>1, Quiet DEF Authorize, DeliveryInv
  <1>6. LanePart'
    BY <1>1, <1>2, <1>5, AttemptMoves DEF DeliveryInv
  <1> QED BY <1>4, <1>6 DEF DeliveryInv

\* Answers are heard, and failures met, without the context broker.
LEMMA Hears ==
    ASSUME ContextInv, UNCHANGED Others, slips' \in {slips, slips + 1}, answer' \in {answer, "none"}
    PROVE  ContextInv' /\ Steady
  <1>1. answer' \in Answers
    BY DEF ContextInv, ContextTypes, Answers
  <1>2. ContextInv'
    BY <1>1, Rests DEF Others, Answers
  <1> QED BY <1>2, Quiet DEF Others

LEMMA HearAnswerInv == ASSUME DeliveryInv, HearAnswer PROVE DeliveryInv'
  <1>1. /\ mb.at = "asking" /\ \E to \in {"told", "caught"} : mb' = [mb EXCEPT !.at = to]
        /\ answer' = "none" /\ UNCHANGED <<Others, slips, lane, deliveries, messages, co>>
    BY DEF HearAnswer
  <1>2. ContextInv' /\ Steady /\ mb # Resting
    BY <1>1, Hears DEF DeliveryInv, Resting
  <1>3. LanePart'
    BY <1>1, <1>2, AttemptMoves DEF DeliveryInv
  <1> QED BY <1>2, <1>3 DEF DeliveryInv

LEMMA AgentFailsInv == ASSUME DeliveryInv, AgentFails PROVE DeliveryInv'
  <1>1. /\ mb.at \in {"sent", "told"} /\ mb' = [mb EXCEPT !.at = "caught"]
        /\ UNCHANGED <<contextVars, lane, deliveries, messages, co>>
    BY DEF AgentFails
  <1>2. ContextInv' /\ Steady /\ mb # Resting
    BY <1>1, ContextWaits DEF DeliveryInv, Resting
  <1>3. LanePart'
    BY <1>1, <1>2, AttemptMoves DEF DeliveryInv
  <1> QED BY <1>2, <1>3 DEF DeliveryInv

\* The message broker is done with a delivery that is acknowledged, or a failure left it.
LEMMA Returns ==
    ASSUME LanePart, Steady, mb # Resting, mb' = Resting, UNCHANGED <<lane, deliveries, messages>>,
           \E to \in {"check", "failing"} : Go(to),
           mb.at = "confirm" \/ slips' > slips
    PROVE  LanePart'
  <1>1. LaneTypes /\ co.at = "wait" /\ lane.status # "acknowledged"
    BY DEF LanePart, MakingSound, LaneSound, Working
  <1>2. co' \in Course /\ co'.at \in {"check", "failing"}
    BY <1>1, GoWorking DEF Working
  <1>3. mb' \in Attempt /\ MakingSound'
    BY DEF Attempt, MakingSound
  <1>4. \A k \in Keys : Making(k) /\ deliveries[k].status = "in-flight" => slips' > slips
    BY DEF Making, LanePart, MakingSound
  <1> QED BY <1>1, <1>2, <1>3, <1>4, StillIssued, Moves

LEMMA ConfirmInv == ASSUME DeliveryInv, ConfirmDelivery PROVE DeliveryInv'
  <1>1. /\ mb.at = "confirm" /\ mb' = Resting /\ Go("check")
        /\ UNCHANGED <<contextVars, lane, deliveries, messages>>
    BY DEF ConfirmDelivery, Return
  <1>2. ContextInv' /\ Steady /\ mb # Resting
    BY <1>1, ContextWaits DEF DeliveryInv, Resting
  <1>3. LanePart'
    BY <1>1, <1>2, Returns DEF DeliveryInv
  <1> QED BY <1>2, <1>3 DEF DeliveryInv

-----------------------------------------------------------------------------
(* Renewals and proofs of a revocation.                                     *)

LEMMA Errands ==
    /\ Resting \in Course /\ Resting.at = "idle"
    /\ \A at \in Managing : [at |-> at] \in Course /\ [at |-> at].at = at
    /\ "idle" \notin Working /\ Managing \cap Working = {}
  BY DEF Course, Resting, Managing, Working

LEMMA RenewInv == ASSUME DeliveryInv, Renew PROVE DeliveryInv'
  <1>1. /\ co = Resting /\ cb = Idle /\ grants' = Expire(grants)
        /\ co' \in {Resting, [at |-> "issue"]}
        /\ UNCHANGED <<due, receipts, cb, leak, issued, answer, slips, ended, overlapped,
                       lane, deliveries, messages, mb>>
    BY DEF Renew
  <1>2. ContextInv'
    BY <1>1, ExpireInv DEF DeliveryInv, ContextInv, ContextTypes, Answers
  <1>3. Steady
    BY <1>1, Quiet DEF DeliveryInv
  <1>4. co.at \notin Working /\ co' \in Course /\ co'.at \in Managing \cup {"idle"}
    BY <1>1, Errands DEF Managing
  <1>5. LanePart'
    BY <1>1, <1>3, <1>4, ManagingMoves DEF DeliveryInv
  <1> QED BY <1>2, <1>5 DEF DeliveryInv

LEMMA RenewIssueInv == ASSUME DeliveryInv, RenewIssue PROVE DeliveryInv'
  <1>1. co.at = "issue" /\ Issue(issued + 1) /\ Go("adopt") /\ UNCHANGED <<lane, deliveries, messages, mb>>
    BY DEF RenewIssue
  <1>2. ContextInv'
    BY <1>1, IssueInv DEF DeliveryInv
  <1>3. Steady
    <2>1. issued' = issued + 1 /\ UNCHANGED <<receipts, slips>>
      BY <1>1 DEF Issue
    <2> QED BY <2>1, Numbers DEF DeliveryInv, Numbered, Steady, Released
  <1>4. co.at \notin Working /\ co' \in Course /\ co'.at = "adopt"
    BY <1>1, GoManaging DEF DeliveryInv, LanePart, Managing, Working
  <1>5. LanePart'
    BY <1>1, <1>3, <1>4, ManagingMoves DEF DeliveryInv, Managing
  <1> QED BY <1>2, <1>5 DEF DeliveryInv

\* The grant that is adopted was issued, since it is active.
LEMMA AdoptInv == ASSUME DeliveryInv, Adopt PROVE DeliveryInv'
  <1>1. /\ co.at = "adopt" /\ co' = Resting /\ UNCHANGED <<contextVars, deliveries, messages, mb>>
        /\ \/ lane' = lane
           \/ Replacements # {} /\ lane' = [lane EXCEPT !.grant = Max(Replacements)]
    BY DEF Adopt
  <1>2. ContextInv' /\ Steady /\ issued' = issued
    BY <1>1, ContextWaits DEF DeliveryInv, contextVars
  <1>3. co.at \notin Working /\ co' \in Course /\ co'.at = "idle" /\ mb = Resting
    BY <1>1, Errands, AtRest DEF Working, DeliveryInv
  <1>4. lane' \in LaneRecord /\ lane'.grant <= issued' /\ lane'.status = lane.status
    <2>1. CASE lane' = lane
      BY <1>2, <2>1, StillIssued DEF DeliveryInv
    <2>2. CASE Replacements # {} /\ lane' = [lane EXCEPT !.grant = Max(Replacements)]
      <3>1. Max(Replacements) \in Replacements
        BY <2>2, Latest DEF Replacements, Active
      <3>2. PICK g \in Grants : g = Max(Replacements) /\ grants[g].status = "active"
        BY <3>1 DEF Replacements, Active
      <3>3. ~ (g > issued)
        BY <3>2 DEF DeliveryInv, ContextInv, Unissued
      <3>4. g <= issued
        BY <3>3, Bounds, Numbers DEF Numbered, DeliveryInv
      <3>5. lane' \in LaneRecord /\ lane'.grant = g /\ lane'.status = lane.status
        BY <2>2, <3>2, LaneFacts DEF DeliveryInv, LaneRecord
      <3> QED BY <1>2, <3>4, <3>5
    <2> QED BY <1>1, <2>1, <2>2
  <1>5. LanePart'
    BY <1>1, <1>2, <1>3, <1>4, CoordinatorMoves, Errands DEF DeliveryInv, Working
  <1> QED BY <1>2, <1>5 DEF DeliveryInv

LEMMA ProveInv == ASSUME DeliveryInv, Prove PROVE DeliveryInv'
  <1>1. /\ co = Resting /\ BeginRevoke("coordinator", lane.grant) /\ co' = [at |-> "revoking"]
        /\ UNCHANGED <<lane, deliveries, messages, mb>>
    BY DEF Prove
  <1>2. ContextInv'
    BY <1>1, LaneFacts, BeginRevokeInv DEF DeliveryInv, Caller
  <1>3. Steady
    BY <1>1, Quiet DEF BeginRevoke, DeliveryInv
  <1>4. co.at \notin Working /\ co' \in Course /\ co'.at \in Managing
    BY <1>1, Errands DEF Managing
  <1>5. LanePart'
    BY <1>1, <1>3, <1>4, ManagingMoves DEF DeliveryInv
  <1> QED BY <1>2, <1>5 DEF DeliveryInv

LEMMA ProveAskInv == ASSUME DeliveryInv, ProveAsk PROVE DeliveryInv'
  <1>1. /\ co.at = "revoking" /\ co' = [at |-> "probe"] /\ answer' = "none"
        /\ UNCHANGED <<Others, slips, lane, deliveries, messages, mb>>
    BY DEF ProveAsk
  <1>2. ContextInv' /\ Steady
    BY <1>1, Hears DEF DeliveryInv
  <1>3. co.at \notin Working /\ co' \in Course /\ co'.at \in Managing
    BY <1>1, Errands DEF Managing, Working
  <1>4. LanePart'
    BY <1>1, <1>2, <1>3, ManagingMoves DEF DeliveryInv
  <1> QED BY <1>2, <1>4 DEF DeliveryInv

LEMMA ProbeInv == ASSUME DeliveryInv, Probe PROVE DeliveryInv'
  <1>1. /\ co.at = "probe" /\ Authorize("coordinator", lane.grant, "proof") /\ Go("probing")
        /\ UNCHANGED <<leak, lane, deliveries, messages, mb>>
    BY DEF Probe
  <1>2. ContextInv'
    <2>1. lane.grant \in Grants /\ lane.grant <= issued
      BY LaneFacts DEF DeliveryInv
    <2> QED BY <1>1, <2>1, AuthorizeInv DEF DeliveryInv, Caller, Asked
  <1>3. Steady
    BY <1>1, Quiet DEF Authorize, DeliveryInv
  <1>4. co.at \notin Working /\ co' \in Course /\ co'.at = "probing"
    BY <1>1, GoManaging DEF DeliveryInv, LanePart, Managing, Working
  <1>5. LanePart'
    BY <1>1, <1>3, <1>4, ManagingMoves DEF DeliveryInv, Managing
  <1> QED BY <1>2, <1>5 DEF DeliveryInv

LEMMA EndProofInv == ASSUME DeliveryInv, EndProof PROVE DeliveryInv'
  <1>1. /\ co.at = "probing" /\ co' = Resting /\ answer' = "none"
        /\ UNCHANGED <<Others, slips, deliveries, messages, mb>>
        /\ \E b \in BOOLEAN : lane' = [lane EXCEPT !.proved = b]
    BY DEF EndProof
  <1>2. ContextInv' /\ Steady
    BY <1>1, Hears DEF DeliveryInv
  <1>3. co.at \notin Working /\ co' \in Course /\ co'.at = "idle" /\ mb = Resting
    BY <1>1, Errands, AtRest DEF Working, DeliveryInv
  <1>4. lane' \in LaneRecord /\ lane'.grant = lane.grant /\ lane'.status = lane.status
    BY <1>1, LaneFacts DEF DeliveryInv, LaneRecord
  <1>5. lane'.grant <= issued'
    BY <1>2, <1>4, StillIssued DEF DeliveryInv
  <1>6. LanePart'
    BY <1>1, <1>2, <1>3, <1>4, <1>5, CoordinatorMoves, Errands DEF DeliveryInv, Working
  <1> QED BY <1>2, <1>6 DEF DeliveryInv

LEMMA AbandonInv == ASSUME DeliveryInv, AbandonProof PROVE DeliveryInv'
  <1>1. /\ co.at = "revoking" /\ co' = Resting /\ answer' = "none"
        /\ UNCHANGED <<Others, slips, lane, deliveries, messages, mb>>
    BY DEF AbandonProof
  <1>2. ContextInv' /\ Steady
    BY <1>1, Hears DEF DeliveryInv
  <1>3. co.at \notin Working /\ co' \in Course /\ co'.at = "idle"
    BY <1>1, Errands DEF Working
  <1>4. LanePart'
    BY <1>1, <1>2, <1>3, ManagingMoves DEF DeliveryInv
  <1> QED BY <1>2, <1>4 DEF DeliveryInv

-----------------------------------------------------------------------------
(* Failed writes, stops, and the context broker's own steps.                *)

LEMMA CoordinatorSlipInv == ASSUME DeliveryInv, CoordinatorSlip PROVE DeliveryInv'
  <1>1. slips' = slips + 1 /\ UNCHANGED <<Others, answer, mb>>
    BY DEF CoordinatorSlip, Slipped
  <1>2. ContextInv' /\ Steady
    BY <1>1, Hears DEF DeliveryInv
  <1>3. LanePart /\ LaneTypes
    BY DEF DeliveryInv, LanePart
  <1>4. ASSUME co.at = "enqueue", co' = Resting, deliveries' \in {deliveries, Queued},
               UNCHANGED <<lane, messages>>
        PROVE  LanePart'
    <2>1. co' \in Course /\ co'.at = "idle"
      BY <1>4 DEF Course, Resting
    <2> QED BY <1>1, <1>2, <1>3, <1>4, <2>1, Queues
  <1>5. ASSUME co.at = "deliver", mb = Resting, Go("failing"), UNCHANGED <<lane, deliveries, messages>>
        PROVE  LanePart'
    BY <1>1, <1>2, <1>3, <1>5, GoFailing DEF Working
  <1>6. ASSUME co.at \in {"handoff", "finish"}, mb = Resting, Go("failing"),
               messages' \in {messages, messages \cup {co.key}}, UNCHANGED <<lane, deliveries>>
        PROVE  LanePart'
    BY <1>1, <1>2, <1>3, <1>6, HandoffMoves
  <1>7. ASSUME co.at \in {"failing", "issue", "adopt"}, co' = Resting,
               UNCHANGED <<lane, deliveries, messages>>
        PROVE  LanePart'
    <2>1. mb = Resting /\ co' \in Course /\ co'.at = "idle"
      BY <1>3, <1>7, AtRest DEF Course, Resting
    <2> QED BY <1>1, <1>2, <1>3, <1>7, <2>1, StillIssued, CoordinatorMoves DEF Working
  <1>8. LanePart'
    BY <1>4, <1>5, <1>6, <1>7 DEF CoordinatorSlip
  <1> QED BY <1>2, <1>8 DEF DeliveryInv

LEMMA BrokerSlipInv == ASSUME DeliveryInv, BrokerSlip PROVE DeliveryInv'
  <1>1. slips' = slips + 1 /\ UNCHANGED <<Others, answer, lane, messages>>
    BY DEF BrokerSlip, Slipped
  <1>2. ContextInv' /\ Steady
    BY <1>1, Hears DEF DeliveryInv
  <1>3. LanePart /\ slips' > slips /\ slips' > 0
    BY <1>1, Numbers DEF DeliveryInv, Numbered
  <1>4. ASSUME mb.at = "confirm", mb' = [mb EXCEPT !.at = "caught"], UNCHANGED <<deliveries, co>>
        PROVE  LanePart'
    <2>1. mb # Resting
      BY <1>4 DEF Resting
    <2> QED BY <1>1, <1>2, <1>3, <1>4, <2>1, AttemptMoves
  <1>5. ASSUME mb.at = "caught", mb' = Resting, Go("failing"), UNCHANGED deliveries
        PROVE  LanePart'
    <2>1. mb # Resting
      BY <1>5 DEF Resting
    <2> QED BY <1>1, <1>2, <1>3, <1>5, <2>1, Returns
  <1>6. ASSUME mb.at = "caught", mb' = Resting, Go("failing"),
               deliveries' = [deliveries EXCEPT ![mb.key] = Failed(@)]
        PROVE  LanePart'
    BY <1>1, <1>2, <1>3, <1>6, FailMaking
  <1>7. LanePart'
    BY <1>4, <1>5, <1>6 DEF BrokerSlip
  <1> QED BY <1>2, <1>7 DEF DeliveryInv

\* A delivery that a stop cuts off stays in flight: it has a failure more.
LEMMA StopInv == ASSUME DeliveryInv, Stop PROVE DeliveryInv'
  <1>1. /\ slips' = slips + 1 /\ cb' = Idle /\ leak' = [at |-> "idle", n |-> leak.n] /\ answer' = "none"
        /\ UNCHANGED <<grants, due, receipts, issued, ended, overlapped>>
        /\ co' = Resting /\ mb' = Resting /\ UNCHANGED <<lane, deliveries, messages>>
    BY DEF Stop, Slipped, ForgetContext
  <1>2. ContextInv'
    BY <1>1, Rests DEF DeliveryInv
  <1>3. Steady /\ slips' > slips
    BY <1>1, Quiet, Numbers DEF DeliveryInv, Numbered
  <1>4. /\ co' \in Course /\ co'.at = "idle" /\ mb' \in Attempt /\ MakingSound'
        /\ lane \in LaneRecord /\ lane.grant <= issued'
    BY <1>1, <1>3, StillIssued DEF Course, Attempt, Resting, MakingSound, DeliveryInv
  <1>5. LanePart'
    BY <1>1, <1>3, <1>4, Moves DEF DeliveryInv, Working
  <1> QED BY <1>2, <1>5 DEF DeliveryInv

\* A receipt that is written leaves those before it.
LEMMA Laid ==
    ASSUME ContextInv, cb.op = "receipt", receipts' = WithReceipt, NEW g \in Grants, Released(g)
    PROVE  Released(g)'
  <1>1. CASE g # cb.g
    <2>1. receipts'[g] = receipts[g]
      BY <1>1, ReceiptLaid
    <2> QED BY <2>1 DEF Released
  <1>2. CASE g = cb.g
    <2> DEFINE t == Told(cb.r, cb.why)
               s == receipts[g]
    <2>1. t \in Receipt /\ s \in Seq(Receipt) /\ receipts'[g] = <<t>> \o s
      BY <1>2, OperationFacts DEF ContextInv, ContextTypes, WithReceipt
    <2>2. PICK i \in DOMAIN s : s[i].why = "ok"
      BY DEF Released
    <2> HIDE DEF t, s
    <2>3. i + 1 \in DOMAIN (<<t>> \o s) /\ (<<t>> \o s)[i + 1] = s[i]
      BY <2>1, <2>2, Prepended
    <2> QED BY <2>1, <2>2, <2>3 DEF Released
  <1> QED BY <1>1, <1>2

LEMMA ContextSteady ==
    ASSUME ContextInv, ContextNext
    PROVE  Steady
  <1> DEFINE Lays == receipts' = receipts \/ (cb.op = "receipt" /\ receipts' = WithReceipt)
             Stays == issued' = issued /\ slips' \in {slips, slips + 1}
  <1>1. ASSUME WriteReceipt PROVE Lays /\ Stays
    BY <1>1 DEF WriteReceipt
  <1>2. ASSUME Count \/ WriteRevoke \/ LeakWrite PROVE Lays /\ Stays
    BY <1>2 DEF Count, WriteRevoke, LeakWrite
  <1>3. ASSUME LeakAsk PROVE Lays /\ Stays
    BY <1>3 DEF LeakAsk, Authorize
  <1>4. ASSUME OperatorRevokes \/ LeakRead \/ Look \/ PassTime PROVE Lays /\ Stays
    BY <1>4 DEF OperatorRevokes, BeginRevoke, LeakRead, Look, PassTime
  <1>5. ASSUME ContextSlip PROVE Lays /\ Stays
    BY <1>5 DEF ContextSlip
  <1>6. Lays /\ Stays
    <2> HIDE DEF Lays, Stays
    <2> QED BY <1>1, <1>2, <1>3, <1>4, <1>5 DEF ContextNext, ContextStep
  <1>7. \A g \in Grants : Released(g) => Released(g)'
    BY <1>6, Laid DEF Released
  <1> QED BY <1>6, <1>7, Numbers DEF Numbered, Steady

-----------------------------------------------------------------------------
(* The invariant of every behaviour.                                        *)

LEMMA DeliveryInit == Init => DeliveryInv
  <1> SUFFICES ASSUME Init PROVE DeliveryInv
    OBVIOUS
  <1>1. ContextInv
    BY ContextInitInv DEF Init
  <1>2. /\ lane.status = "ready" /\ lane.grant = 1 /\ lane \in LaneRecord
        /\ co = Resting /\ mb = Resting /\ messages = {}
    BY Bounds DEF Init, LaneRecord
  <1>3. /\ deliveries \in [Keys -> DeliveryRecord]
        /\ \A k \in Keys : /\ deliveries[k].status = "none" /\ deliveries[k].attempts = 0
                           /\ deliveries[k].grant = 1
    BY Bounds DEF Init, NoDelivery, DeliveryRecord
  <1>4. issued \in Nat /\ issued >= 1 /\ slips = 0
    BY Bounds DEF Init, ContextInit
  <1>5. LaneTypes
    BY <1>2, <1>3 DEF LaneTypes, Course, Attempt
  <1>6. GrantsIssued
    BY <1>2, <1>3, <1>4 DEF GrantsIssued
  <1>7. MakingSound
    BY <1>2 DEF MakingSound
  <1>8. LaneSound
    BY <1>2 DEF LaneSound, Resting, Working, AcknowledgedIsEvidenced
  <1>9. AttemptsBound
    BY <1>3, <1>4, Bounds DEF AttemptsBound
  <1> QED BY <1>1, <1>5, <1>6, <1>7, <1>8, <1>9 DEF DeliveryInv, LanePart

LEMMA DeliveryNext == ASSUME DeliveryInv, [Next]_vars PROVE DeliveryInv'
  <1>1. ASSUME Run PROVE DeliveryInv'
    BY <1>1, EnqueueInv, DeliverInv, CheckInv, HandoffInv, FinishInv, GiveUpInv, RenewIssueInv, AdoptInv,
       ProveAskInv, ProbeInv, EndProofInv, AbandonInv DEF Run
  <1>2. ASSUME Broker PROVE DeliveryInv'
    BY <1>2, AskInv, HearAnswerInv, AgentFailsInv, AcknowledgeInv, ConfirmInv, CatchInv DEF Broker
  <1>3. ASSUME Operator PROVE DeliveryInv'
    BY <1>3, RunLaneInv, CancelInv, RenewInv, ProveInv DEF Operator
  <1>4. ASSUME CoordinatorSlip \/ BrokerSlip \/ Stop PROVE DeliveryInv'
    BY <1>4, CoordinatorSlipInv, BrokerSlipInv, StopInv
  <1>5. ASSUME ContextNext, UNCHANGED laneVars PROVE DeliveryInv'
    BY <1>5, ContextNextInv, ContextSteady, Unmoved DEF DeliveryInv
  <1>6. ASSUME UNCHANGED vars PROVE DeliveryInv'
    <2>1. UNCHANGED contextVars /\ UNCHANGED laneVars
      BY <1>6 DEF vars
    <2> QED BY <2>1, ContextWaits, Unmoved DEF DeliveryInv
  <1> QED BY <1>1, <1>2, <1>3, <1>4, <1>5, <1>6 DEF Next

\* Every behaviour of the lane, its messages and its grants keeps the invariant.
THEOREM DeliveryCorrect == Spec => []DeliveryInv
  <1>1. Init => DeliveryInv
    BY DeliveryInit
  <1>2. DeliveryInv /\ [Next]_vars => DeliveryInv'
    BY DeliveryNext
  <1> QED BY <1>1, <1>2, PTL DEF Spec

\* Nothing that a leakage proof did not write over brings a revoked grant back, and no
\* release goes uncounted but for a failure each.
THEOREM GrantsAreHeld == Spec => []GrantsHold
  <1>1. DeliveryInv => GrantsHold
    BY DEF DeliveryInv, ContextInv
  <1> QED BY <1>1, DeliveryCorrect, PTL

\* The lane agrees with its deliveries, its handoffs and the receipts of its grants.
THEOREM LaneHolds == Spec => []LaneInv
  <1>1. ASSUME DeliveryInv PROVE LaneInv
    <2>1. ContextTypes /\ ReceiptsOnce /\ LanePart
      BY <1>1 DEF DeliveryInv, ContextInv
    <2>2. ContextTypeOK
      BY <2>1, OperationFacts DEF ContextTypes, ReceiptsOnce, Books, GrantRecord, ContextTypeOK
    <2>3. \A k \in Keys : deliveries[k].grant \in 1..issued
      BY <1>1, <2>1, LaneFacts, Numbers DEF Grants, DeliveryInv, Numbered
    <2>4. messages \subseteq {k \in Keys : deliveries[k].status # "none"}
      BY <2>1 DEF LanePart, LaneTypes, LaneSound
    <2>5. mb # Resting => co.at = "wait" /\ deliveries[mb.key].status \in {"in-flight", "acknowledged"}
      BY <2>1, AttemptFacts DEF LanePart, MakingSound, Resting
    <2>6. AcknowledgedIsEvidenced
      BY <2>1 DEF LanePart, LaneSound
    <2>7. lane \in [status : {"ready", "running", "acknowledged"}, grant : Grants, proved : BOOLEAN]
      BY <2>1, LaneFacts DEF LaneRecord
    <2> QED BY <2>2, <2>3, <2>4, <2>5, <2>6, <2>7 DEF LaneInv, TypeOK
  <1> QED BY <1>1, DeliveryCorrect, PTL

-----------------------------------------------------------------------------
(* What a step does to a delivery.                                          *)

Settles(k) ==
    /\ deliveries[k].status \in Settled =>
          \/ deliveries'[k] = deliveries[k]
          \/ deliveries[k].status # "acknowledged" /\ deliveries'[k].status = "cancelled"
          \/ deliveries[k].status = "acknowledged" /\ mb.at = "caught" /\ slips > 0
    /\ deliveries'[k].status = "retrying" => deliveries'[k].attempts < MaxAttempts
    /\ deliveries'[k].attempts <= MaxAttempts + slips

LEMMA UnwrittenSettles ==
    ASSUME LanePart, NEW k \in Keys, deliveries'[k] = deliveries[k]
    PROVE  Settles(k)
  BY DEF LanePart, AttemptsBound, Settles

LEMMA WrittenSettles ==
    ASSUME LanePart, NEW k \in Keys, NEW d, deliveries' = [deliveries EXCEPT ![k] = d],
           deliveries[k].status \in Settled =>
              \/ deliveries[k].status # "acknowledged" /\ d.status = "cancelled"
              \/ deliveries[k].status = "acknowledged" /\ mb.at = "caught" /\ slips > 0,
           d.status = "retrying" => d.attempts < MaxAttempts,
           d.attempts <= MaxAttempts + slips
    PROVE  \A h \in Keys : Settles(h)
  <1>1. deliveries'[k] = d /\ \A h \in Keys : h # k => deliveries'[h] = deliveries[h]
    BY DEF LanePart, LaneTypes
  <1>2. Settles(k)
    BY <1>1 DEF Settles
  <1>3. ASSUME NEW h \in Keys, h # k PROVE Settles(h)
    BY <1>1, <1>3, UnwrittenSettles
  <1> QED BY <1>2, <1>3

LEMMA QueueSettles ==
    ASSUME DeliveryInv, co.at = "enqueue", deliveries' \in {deliveries, Queued}
    PROVE  \A h \in Keys : Settles(h)
  <1> DEFINE k == co.key
             d == [status |-> "queued", attempts |-> 0, grant |-> lane.grant]
  <1>1. CASE deliveries' = deliveries
    BY <1>1, UnwrittenSettles DEF DeliveryInv
  <1>2. CASE deliveries[k].status = "none" /\ deliveries' = [deliveries EXCEPT ![k] = d]
    <2>1. LanePart /\ k \in Keys
      BY CourseFacts DEF DeliveryInv, LanePart, Working
    <2>2. d.status = "queued" /\ d.attempts = 0 /\ deliveries[k].status \notin Settled
      BY <1>2 DEF Settled
    <2>3. d.attempts <= MaxAttempts + slips
      BY <2>2, Bounds, Numbers DEF Numbered, DeliveryInv
    <2> HIDE DEF d, k
    <2> QED BY <1>2, <2>1, <2>2, <2>3, WrittenSettles
  <1> QED BY <1>1, <1>2 DEF Queued

LEMMA DeliverSettles ==
    ASSUME DeliveryInv, Deliver
    PROVE  \A h \in Keys : Settles(h)
  <1> DEFINE k == co.key
             d == deliveries[k]
  <1>1. /\ co.at = "deliver" /\ mb = Resting
        /\ \/ deliveries' = deliveries
           \/ d.status \notin Settled /\ deliveries' = [deliveries EXCEPT ![k] = InFlight(d)]
           \/ /\ d.status \notin Settled
              /\ deliveries' = [deliveries EXCEPT ![k] = Failed([d EXCEPT !.attempts = MaxAttempts])]
    BY DEF Deliver
  <1>2. /\ LanePart /\ k \in Keys /\ d \in DeliveryRecord /\ d.attempts \in Nat /\ slips \in Nat
        /\ ~ Making(k)
    BY <1>1, CourseFacts, LaneFacts, Numbers DEF DeliveryInv, LanePart, Working, Making, Numbered
  <1>3. CASE deliveries' = deliveries
    BY <1>2, <1>3, UnwrittenSettles
  <1>4. CASE d.status \notin Settled /\ deliveries' = [deliveries EXCEPT ![k] = InFlight(d)]
    <2> DEFINE e == InFlight(d)
    <2>1. e.status = "in-flight" /\ e.attempts = d.attempts + 1
      BY <1>2, InFlightFacts
    <2>2. d.attempts < MaxAttempts + slips
      <3>1. d.status \in {"none", "queued", "in-flight", "retrying"}
        BY <1>2, <1>4 DEF DeliveryRecord
      <3>2. /\ d.status \in {"none", "queued", "retrying"} => d.attempts < MaxAttempts
            /\ d.status = "in-flight" => d.attempts < MaxAttempts + slips
        BY <1>2 DEF LanePart, AttemptsBound
      <3> QED BY <1>2, <3>1, <3>2, Bounds
    <2>3. e.attempts <= MaxAttempts + slips
      BY <1>2, <2>1, <2>2, Bounds
    <2> HIDE DEF e
    <2>4. deliveries' = [deliveries EXCEPT ![k] = e]
      BY <1>4 DEF e
    <2> HIDE DEF d, k
    <2> QED BY <1>2, <1>4, <2>1, <2>3, <2>4, WrittenSettles DEF d
  <1>5. CASE /\ d.status \notin Settled
             /\ deliveries' = [deliveries EXCEPT ![k] = Failed([d EXCEPT !.attempts = MaxAttempts])]
    <2> DEFINE final == [d EXCEPT !.attempts = MaxAttempts]
               e == Failed(final)
    <2>1. final \in DeliveryRecord /\ final.attempts = MaxAttempts
      BY <1>2, Bounds DEF DeliveryRecord
    <2> HIDE DEF final
    <2>2. e.status = "dead-letter" /\ e.attempts = MaxAttempts
      BY <2>1, FailedFacts, Bounds
    <2>3. e.attempts <= MaxAttempts + slips
      BY <1>2, <2>2, Bounds
    <2>4. deliveries' = [deliveries EXCEPT ![k] = e]
      BY <1>5 DEF final
    <2> HIDE DEF e, d, k
    <2> QED BY <1>2, <1>5, <2>2, <2>3, <2>4, WrittenSettles DEF d
  <1> QED BY <1>1, <1>3, <1>4, <1>5

LEMMA CancelSettles ==
    ASSUME DeliveryInv, NEW k \in Keys, Cancel(k)
    PROVE  \A h \in Keys : Settles(h)
  <1> DEFINE d == deliveries[k]
             e == [d EXCEPT !.status = "cancelled"]
  <1>1. d.status \notin {"none", "acknowledged"} /\ deliveries' = [deliveries EXCEPT ![k] = e]
    BY DEF Cancel
  <1>2. LanePart /\ d \in DeliveryRecord /\ d.attempts <= MaxAttempts + slips
    BY LaneFacts DEF DeliveryInv, LanePart, AttemptsBound
  <1>3. e.status = "cancelled" /\ e.attempts = d.attempts
    BY <1>2 DEF DeliveryRecord
  <1> HIDE DEF e
  <1>4. e.attempts <= MaxAttempts + slips
    BY <1>2, <1>3
  <1> HIDE DEF d
  <1> QED BY <1>1, <1>2, <1>3, <1>4, WrittenSettles DEF d

LEMMA AcknowledgeSettles ==
    ASSUME DeliveryInv, Acknowledge
    PROVE  \A h \in Keys : Settles(h)
  <1> DEFINE k == mb.key
             d == deliveries[k]
             e == [d EXCEPT !.status = "acknowledged"]
  <1>1. mb.at \in {"sent", "told"} /\ deliveries' = [deliveries EXCEPT ![k] = e]
    BY DEF Acknowledge
  <1>2. LanePart /\ k \in Keys /\ d.status = "in-flight"
    BY <1>1, AttemptFacts DEF DeliveryInv, LanePart, MakingSound, Resting
  <1>3. d \in DeliveryRecord /\ d.attempts <= MaxAttempts + slips
    BY <1>2, LaneFacts DEF LanePart, AttemptsBound
  <1>4. e.status = "acknowledged" /\ e.attempts = d.attempts
    BY <1>3 DEF DeliveryRecord
  <1> HIDE DEF e
  <1>5. e.attempts <= MaxAttempts + slips /\ d.status \notin Settled
    BY <1>2, <1>3, <1>4 DEF Settled
  <1> HIDE DEF d, k
  <1> QED BY <1>1, <1>2, <1>4, <1>5, WrittenSettles DEF d

LEMMA FailSettles ==
    ASSUME DeliveryInv, mb.at = "caught", deliveries' = [deliveries EXCEPT ![mb.key] = Failed(@)]
    PROVE  \A h \in Keys : Settles(h)
  <1> DEFINE k == mb.key
             d == deliveries[k]
             e == Failed(d)
  <1>1. /\ LanePart /\ k \in Keys
        /\ d.status = "in-flight" \/ (d.status = "acknowledged" /\ slips > 0)
    BY AttemptFacts DEF DeliveryInv, LanePart, MakingSound, Resting
  <1>2. d \in DeliveryRecord /\ d.attempts <= MaxAttempts + slips
    BY <1>1, LaneFacts DEF LanePart, AttemptsBound
  <1>3. e.attempts = d.attempts /\ (e.status = "retrying" => d.attempts < MaxAttempts)
    BY <1>2, FailedFacts
  <1>4. deliveries' = [deliveries EXCEPT ![k] = e]
    OBVIOUS
  <1> HIDE DEF e
  <1>5. /\ e.attempts <= MaxAttempts + slips /\ (e.status = "retrying" => e.attempts < MaxAttempts)
        /\ d.status \in Settled => d.status = "acknowledged" /\ slips > 0
    BY <1>1, <1>2, <1>3 DEF Settled
  <1> HIDE DEF d, k
  <1> QED BY <1>1, <1>4, <1>5, WrittenSettles DEF d

LEMMA EveryStepSettles ==
    ASSUME DeliveryInv, [Next]_vars
    PROVE  \A h \in Keys : Settles(h)
  <1>1. ASSUME UNCHANGED deliveries PROVE \A h \in Keys : Settles(h)
    BY <1>1, UnwrittenSettles DEF DeliveryInv
  <1>2. ASSUME Run PROVE \A h \in Keys : Settles(h)
    <2>1. ASSUME Enqueue PROVE \A h \in Keys : Settles(h)
      BY <2>1, QueueSettles DEF Enqueue
    <2>2. Enqueue \/ Deliver \/ UNCHANGED deliveries
      BY <1>2 DEF Run, Check, Handoff, Finish, GiveUp, EndLane, RenewIssue, Adopt, ProveAsk, Probe,
                  EndProof, AbandonProof
    <2> QED BY <1>1, <2>1, <2>2, DeliverSettles
  <1>3. ASSUME Broker PROVE \A h \in Keys : Settles(h)
    <2>1. ASSUME CatchDelivery PROVE \A h \in Keys : Settles(h)
      BY <2>1, FailSettles DEF CatchDelivery
    <2>2. Acknowledge \/ CatchDelivery \/ UNCHANGED deliveries
      BY <1>3 DEF Broker, Ask, HearAnswer, AgentFails, ConfirmDelivery
    <2> QED BY <1>1, <2>1, <2>2, AcknowledgeSettles
  <1>4. ASSUME Operator PROVE \A h \in Keys : Settles(h)
    <2>1. (\E k \in Keys : Cancel(k)) \/ UNCHANGED deliveries
      BY <1>4 DEF Operator, RunLane, Renew, Prove
    <2> QED BY <1>1, <2>1, CancelSettles
  <1>5. ASSUME CoordinatorSlip PROVE \A h \in Keys : Settles(h)
    <2>1. UNCHANGED deliveries \/ (co.at = "enqueue" /\ deliveries' \in {deliveries, Queued})
      BY <1>5 DEF CoordinatorSlip
    <2> QED BY <1>1, <2>1, QueueSettles
  <1>6. ASSUME BrokerSlip PROVE \A h \in Keys : Settles(h)
    <2>1. \/ UNCHANGED deliveries
          \/ mb.at = "caught" /\ deliveries' = [deliveries EXCEPT ![mb.key] = Failed(@)]
      BY <1>6 DEF BrokerSlip
    <2> QED BY <1>1, <2>1, FailSettles
  <1>7. UNCHANGED deliveries \/ Run \/ Broker \/ Operator \/ CoordinatorSlip \/ BrokerSlip
    BY DEF Next, vars, laneVars, Stop
  <1> QED BY <1>1, <1>2, <1>3, <1>4, <1>5, <1>6, <1>7

\* What is settled stays so, a retry has an attempt left, and only failures give a
\* delivery more attempts than its maximum.
THEOREM DeliveriesDoSettle == Spec => DeliveriesSettle
  <1> DEFINE Step == \A k \in Keys : Settles(k)
  <1>1. ASSUME DeliveryInv, [Next]_vars PROVE [Step]_deliveries
    BY <1>1, EveryStepSettles
  <1>2. Spec => [][Step]_deliveries
    <2> HIDE DEF Step
    <2> QED BY <1>1, DeliveryCorrect, PTL DEF Spec
  <1> QED BY <1>2 DEF DeliveriesSettle, Settles

-----------------------------------------------------------------------------
(* FederationPairing: the inductive invariant.                              *)

USE DEF Nodes

\* An acceptance by which the host trusts the joiner: it is the last one.
Accepted(a) == a = Len(approved) /\ a # 0 /\ invitation = "used" /\ peers["host"][a] # "none"

\* A registration of the joiner, and none before the one whose transcript the nodes share.
Arrived(q) ==
    LET j == pairing["joiner"] IN
    /\ q <= j.reg /\ (j.from = 0 => q = j.reg)
    /\ \A e \in compared["joiner"] : e[2] = 0 => e[1] <= q

\* What a record of a node may say.
RecordOK(n, r) ==
    /\ r \in Record /\ r.reg <= registrations
    /\ r.acc # 0 => Accepted(r.acc)
    /\ n = "host" => /\ r.status = "active" => r.acc # 0
                     /\ r.status = "none" => r.reg = 0
                     /\ approved # <<>> => r.reg # 0
                     /\ r.from = 0 /\ (r.reg # 0 => Arrived(r.reg))
                     /\ r.local => \E e \in compared["host"] : e[1] <= r.reg
                     /\ r.remote => \E e \in compared["joiner"] : e[2] = 0 /\ e[1] <= r.reg
    /\ n = "joiner" => /\ r.reg = 0 => r.from = 0
                       /\ \A e \in compared["joiner"] :
                            e[1] <= r.reg /\ (r.from = 0 /\ e[2] = 0 => e[1] = r.reg)

\* What a message to a node may say.
MessageOK(n, m) ==
    /\ m \in Message
    /\ m.type = "request" => n = "joiner"
    /\ m.type = "registration" => n = "host" /\ m.ref \in 1 .. registrations /\ Arrived(m.ref)
    /\ m.type = "confirmation" => <<m.ref, m.from>> \in compared[Other(n)]
    /\ m.type = "acceptance" => n = "joiner" /\ Accepted(m.ref)

\* What a node is about to send: the newest registration, or what a message may say.
Sent(n, m) ==
    /\ m.type # "registration" => MessageOK(Other(n), m)
    /\ m.type = "registration" => n = "joiner" /\ m \in Message /\ m.ref = registrations /\ m.ref # 0

\* What it is about to write: the transcript of its record, or of a newer registration.
Noted(n, r) ==
    LET p == pairing[n] IN
    /\ RecordOK(n, r)
    /\ n = "host" => r.reg = p.reg
    /\ n = "joiner" => \/ r.reg = p.reg /\ r.from = p.from
                       \/ r.reg > p.reg /\ r.from = p.reg

\* What can be left of an operation that writes r and sends m.
Plans(r, m) ==
    {<<>>, <<Just("ready")>>, <<Just("life")>>, <<Just("ready"), Just("life")>>,
     <<Just("read"), Just("ready")>>,
     <<Do("send", m)>>, <<Do("send", m), Just("life")>>,
     <<Do("send", m), Just("read"), Just("ready")>>,
     <<Do("note", r)>>, <<Do("note", r), Just("life")>>,
     <<Do("note", r), Do("send", m)>>, <<Do("note", r), Do("send", m), Just("life")>>}

\* What is left of the operation of a node.
PlanOK(n) ==
    \E r \in Record, m \in Message :
        /\ Noted(n, r) /\ Sent(n, m) /\ todo[n] \in Plans(r, m)
        /\ m.type = "registration" => r.reg = m.ref /\ (Doing(n, "note") \/ r.reg = pairing[n].reg)

\* The registrations not yet processed are in order, and none is older than the one noted.
InOrder ==
    \A i \in processed["host"] + 1 .. Len(mail["host"]) :
        mail["host"][i].type = "registration" =>
            /\ pairing["host"].reg <= mail["host"][i].ref
            /\ \A j \in i .. Len(mail["host"]) :
                 mail["host"][j].type = "registration" => mail["host"][i].ref <= mail["host"][j].ref

\* What the mailboxes hold.
MailOK == \A n \in Nodes : \A i \in 1 .. Len(mail[n]) : MessageOK(n, mail[n][i])

\* Every acceptance but one is paid for by a fault, and they all are while the invitation is open.
ApprovedOnce ==
    /\ Len(approved) <= 1 + faults
    /\ invitation = "open" => Len(approved) <= faults

\* What the host's operator has confirmed: a transcript that names the host's own nonce.
HostCompared == \A e \in compared["host"] : e[2] = 0 /\ Arrived(e[1])

\* The inductive invariant of a pairing: the peer of the joiner is of the host's last
\* acceptance, after which the host accepts no more, for the invitation is used.
PairingInv ==
    /\ PairingTypes /\ MailOK /\ InOrder /\ ApprovedOnce /\ HostCompared
    /\ \A n \in Nodes : RecordOK(n, pairing[n])
    /\ \A n \in Nodes : PlanOK(n)
    /\ \A a \in Acceptances : peers["joiner"][a] # "none" => Accepted(a)

-----------------------------------------------------------------------------
\* The steps that change what the two nodes have agreed on.
LEMMA WhoChanges ==
    ASSUME PairingNext
    PROVE  /\ registrations' = registrations \/ AcceptRequest
           /\ approved' = approved \/ Approve \/ ApproveTorn
           /\ invitation' = invitation \/ CreateRequest \/ Approve \/ ApproveTorn
           /\ compared' = compared \/ \E n \in Nodes : Confirm(n)
           /\ peers' = peers \/ Activate \/ Approve \/ ApproveTorn \/ \E n \in Nodes, a \in Acceptances : RevokePeer(n, a)
  <1> HIDE DEF Nodes
  <1>1. registrations' = registrations \/ AcceptRequest
    BY ZenonT(30) DEF PairingNext, CreateRequest, Approve, ApproveTorn, ApproveRefused, RunLate, Confirm,
           CancelPairing, Poll, Reconcile, PairingStep, Read, ProofOver, Note, Send, End, Activate, Lose, Fault,
           RevokePeer
  <1>2. approved' = approved \/ Approve \/ ApproveTorn
    BY ZenonT(30) DEF PairingNext, CreateRequest, AcceptRequest, ApproveRefused, RunLate, Confirm, CancelPairing, Poll,
           Reconcile, PairingStep, Read, ProofOver, Note, Send, End, Activate, Lose, Fault, RevokePeer
  <1>3. invitation' = invitation \/ CreateRequest \/ Approve \/ ApproveTorn
    BY ZenonT(30) DEF PairingNext, AcceptRequest, ApproveRefused, RunLate, Confirm, CancelPairing, Poll, Reconcile,
           PairingStep, Read, ProofOver, Note, Send, End, Activate, Lose, Fault, RevokePeer
  <1>4. compared' = compared \/ \E n \in Nodes : Confirm(n)
    BY ZenonT(30) DEF PairingNext, CreateRequest, AcceptRequest, Approve, ApproveTorn, ApproveRefused, RunLate,
           CancelPairing, Poll, Reconcile, PairingStep, Read, ProofOver, Note, Send, End, Activate, Lose, Fault,
           RevokePeer
  <1>5. peers' = peers \/ Activate \/ Approve \/ ApproveTorn \/ \E n \in Nodes, a \in Acceptances : RevokePeer(n, a)
    BY ZenonT(30) DEF PairingNext, CreateRequest, AcceptRequest, ApproveRefused, RunLate, Confirm, CancelPairing, Poll,
           Reconcile, PairingStep, Read, ProofOver, Note, Send, End, Lose, Fault
  <1> QED BY <1>1, <1>2, <1>3, <1>4, <1>5

LEMMA PairingPeersAgree ==
    ASSUME PairingInv
    PROVE  PeersInv
  <1>1. PairingTypes
    BY DEF PairingInv
  <1>2. Len(approved) <= 1 + faults
    BY DEF PairingInv, ApprovedOnce
  <1>3. \A a \in Acceptances : peers["joiner"][a] # "none" => a <= Len(approved) /\ peers["host"][a] # "none"
    <2>1. Len(approved) \in Nat
      BY <1>1 DEF PairingTypes
    <2> QED BY <2>1 DEF PairingInv, Accepted
  <1>4. pairing["joiner"].acc # 0 /\ pairing["host"].status = "active" =>
          pairing["joiner"].acc = pairing["host"].acc
    BY DEF PairingInv, RecordOK, Accepted
  <1> QED BY <1>1, <1>2, <1>3, <1>4 DEF PeersInv, PeersAgree

LEMMA StepConsent ==
    ASSUME PairingAssumption, PairingInv, PairingNext, approved' # approved
    PROVE  LET r == approved'[Len(approved')] IN
           \E first \in 1 .. r :
              /\ <<first, 0>> \in compared["joiner"]
              /\ \E q \in first .. r : <<q, 0>> \in compared["host"]
              /\ first = r \/ pairing["joiner"].from # 0
  <1>1. PICK p, j : p = pairing["host"] /\ j = pairing["joiner"]
    OBVIOUS
  <1>2. approved' = Append(approved, p.reg) /\ MayActivate("host")
    BY <1>1, WhoChanges DEF Approve, ApproveTorn
  <1>3. p.local /\ p.remote /\ p.reg # 0
    BY <1>1, <1>2 DEF MayActivate
  <1>4. RecordOK("host", p) /\ RecordOK("joiner", j) /\ PairingTypes /\ HostCompared
    BY <1>1 DEF PairingInv
  <1>5. PICK e \in compared["host"] : e[1] <= p.reg
    BY <1>3, <1>4 DEF RecordOK
  <1>6. PICK f \in compared["joiner"] : f[2] = 0 /\ f[1] <= p.reg
    BY <1>3, <1>4 DEF RecordOK
  <1>7. e \in (1 .. MaxRegistrations) \X (0 .. MaxRegistrations) /\ f \in (1 .. MaxRegistrations) \X (0 .. MaxRegistrations)
    BY <1>4 DEF PairingTypes
  <1>8. PICK q, first : q = e[1] /\ first = f[1]
    OBVIOUS
  <1>9. q \in Nat /\ first \in Nat /\ first >= 1 /\ p.reg \in Nat /\ e = <<q, e[2]>> /\ f = <<first, f[2]>>
    BY <1>4, <1>7, <1>8 DEF RecordOK, Record, PairingAssumption
  <1>10. e = <<q, 0>> /\ f = <<first, 0>> /\ first <= q
    BY <1>4, <1>6, <1>8, <1>9 DEF HostCompared, Arrived
  <1>11. first = p.reg \/ j.from # 0
    BY <1>1, <1>3, <1>4, <1>6, <1>8 DEF RecordOK, Arrived
  <1>12. approved'[Len(approved')] = p.reg
    <2>1. approved \in Seq(Nat)
      BY <1>4 DEF PairingTypes, PairingAssumption
    <2> QED BY <1>2, <1>9, <2>1
  <1>13. first \in 1 .. p.reg /\ q \in first .. p.reg
    BY <1>5, <1>6, <1>8, <1>9, <1>10
  <1>14. <<first, 0>> \in compared["joiner"] /\ <<q, 0>> \in compared["host"]
    BY <1>5, <1>6, <1>10
  <1>15. PICK r : r = approved'[Len(approved')] /\ r = p.reg
    BY <1>12
  <1> DEFINE Consent(z) == \E x \in 1 .. z : /\ <<x, 0>> \in compared["joiner"]
                                             /\ \E y \in x .. z : <<y, 0>> \in compared["host"]
                                             /\ x = z \/ pairing["joiner"].from # 0
  <1>16. Consent(r)
    BY <1>1, <1>11, <1>13, <1>14, <1>15, Zenon
  <1>17. Consent(approved'[Len(approved')])
    <2> HIDE DEF Consent
    <2> QED BY <1>15, <1>16
  <1> QED BY <1>17, Zenon

-----------------------------------------------------------------------------
(* The plan of an operation.                                                *)

LEMMA HeadTail ==
    /\ \A x : Head(<<x>>) = x /\ Tail(<<x>>) = <<>> /\ <<x>> # <<>>
    /\ \A x, y : Head(<<x, y>>) = x /\ Tail(<<x, y>>) = <<y>> /\ <<x, y>> # <<>>
    /\ \A x, y, z : Head(<<x, y, z>>) = x /\ Tail(<<x, y, z>>) = <<y, z>> /\ <<x, y, z>> # <<>>
  OBVIOUS

LEMMA Longer ==
    /\ \A x, z : <<x>> \o <<>> = <<x>> /\ <<x>> \o <<z>> = <<x, z>>
    /\ \A x, y, z : <<x, y>> \o <<>> = <<x, y>> /\ <<x, y>> \o <<z>> = <<x, y, z>>
  <1>1. \A x : <<x>> \o <<>> = <<x>>
    OBVIOUS
  <1>2. ASSUME NEW x, NEW z PROVE <<x>> \o <<z>> = <<x, z>>
    <2>1. Len(<<x>>) = 1 /\ Len(<<z>>) = 1 /\ Len(<<x>> \o <<z>>) = 2
      OBVIOUS
    <2>2. (<<x>> \o <<z>>)[1] = x /\ (<<x>> \o <<z>>)[2] = z
      OBVIOUS
    <2>3. <<x>> \o <<z>> \in Seq({x, z}) /\ <<x, z>> \in Seq({x, z})
      OBVIOUS
    <2>4. Len(<<x, z>>) = 2 /\ <<x, z>>[1] = x /\ <<x, z>>[2] = z
      OBVIOUS
    <2>5. \A i \in 1 .. 2 : (<<x>> \o <<z>>)[i] = <<x, z>>[i]
      BY <2>2, <2>4
    <2> HIDE DEF Nodes
    <2> QED BY <2>1, <2>3, <2>4, <2>5, SeqEqual, Zenon
  <1>3. \A x, y : <<x, y>> \o <<>> = <<x, y>>
    OBVIOUS
  <1>4. ASSUME NEW x, NEW y, NEW z PROVE <<x, y>> \o <<z>> = <<x, y, z>>
    <2>1. Len(<<x, y>>) = 2 /\ Len(<<z>>) = 1 /\ Len(<<x, y>> \o <<z>>) = 3
      OBVIOUS
    <2>2. (<<x, y>> \o <<z>>)[1] = x /\ (<<x, y>> \o <<z>>)[2] = y /\ (<<x, y>> \o <<z>>)[3] = z
      OBVIOUS
    <2>3. <<x, y>> \o <<z>> \in Seq({x, y, z}) /\ <<x, y, z>> \in Seq({x, y, z})
      OBVIOUS
    <2>4. Len(<<x, y, z>>) = 3 /\ <<x, y, z>>[1] = x /\ <<x, y, z>>[2] = y /\ <<x, y, z>>[3] = z
      OBVIOUS
    <2>5. \A i \in 1 .. 3 : (<<x, y>> \o <<z>>)[i] = <<x, y, z>>[i]
      BY <2>2, <2>4
    <2> HIDE DEF Nodes
    <2> QED BY <2>1, <2>3, <2>4, <2>5, SeqEqual, Zenon
  <1> QED BY <1>1, <1>2, <1>3, <1>4

\* What is left of an operation, by the step that comes first.
LEMMA PlanSteps ==
    ASSUME NEW r, NEW m, NEW t \in Plans(r, m), t # <<>>
    PROVE  /\ Head(t).do \in {"note", "send", "read", "ready", "life"}
           /\ Head(t).do = "note" => /\ Head(t).arg = r
                                    /\ Tail(t) \in {<<>>, <<Just("life")>>, <<Do("send", m)>>,
                                                    <<Do("send", m), Just("life")>>}
           /\ Head(t).do = "send" => /\ Head(t).arg = m
                                    /\ Tail(t) \in {<<>>, <<Just("life")>>, <<Just("read"), Just("ready")>>}
           /\ Head(t).do = "read" => Tail(t) = <<Just("ready")>>
           /\ Head(t).do = "ready" => Tail(t) \in {<<>>, <<Just("life")>>}
  <1>1. \A x, y : Do(x, y).do = x /\ Do(x, y).arg = y /\ Just(x).do = x
    BY DEF Do, Just
  <1>2. CASE t = <<Just("ready")>>
    <2>1. Head(t) = Just("ready") /\ Tail(t) = <<>>
      BY <1>2
    <2> QED BY <1>1, <2>1
  <1>3. CASE t = <<Just("life")>>
    <2>1. Head(t) = Just("life") /\ Tail(t) = <<>>
      BY <1>3
    <2> QED BY <1>1, <2>1
  <1>4. CASE t = <<Just("ready"), Just("life")>>
    <2>1. Head(t) = Just("ready") /\ Tail(t) = <<Just("life")>>
      BY <1>4
    <2> QED BY <1>1, <2>1
  <1>5. CASE t = <<Just("read"), Just("ready")>>
    <2>1. Head(t) = Just("read") /\ Tail(t) = <<Just("ready")>>
      BY <1>5
    <2> QED BY <1>1, <2>1
  <1>6. CASE t = <<Do("send", m)>>
    <2>1. Head(t) = Do("send", m) /\ Tail(t) = <<>>
      BY <1>6
    <2> QED BY <1>1, <2>1
  <1>7. CASE t = <<Do("send", m), Just("life")>>
    <2>1. Head(t) = Do("send", m) /\ Tail(t) = <<Just("life")>>
      BY <1>7
    <2> QED BY <1>1, <2>1
  <1>8. CASE t = <<Do("send", m), Just("read"), Just("ready")>>
    <2>1. Head(t) = Do("send", m) /\ Tail(t) = <<Just("read"), Just("ready")>>
      BY <1>8
    <2> QED BY <1>1, <2>1
  <1>9. CASE t = <<Do("note", r)>>
    <2>1. Head(t) = Do("note", r) /\ Tail(t) = <<>>
      BY <1>9
    <2> QED BY <1>1, <2>1
  <1>10. CASE t = <<Do("note", r), Just("life")>>
    <2>1. Head(t) = Do("note", r) /\ Tail(t) = <<Just("life")>>
      BY <1>10
    <2> QED BY <1>1, <2>1
  <1>11. CASE t = <<Do("note", r), Do("send", m)>>
    <2>1. Head(t) = Do("note", r) /\ Tail(t) = <<Do("send", m)>>
      BY <1>11
    <2> QED BY <1>1, <2>1
  <1>12. CASE t = <<Do("note", r), Do("send", m), Just("life")>>
    <2>1. Head(t) = Do("note", r) /\ Tail(t) = <<Do("send", m), Just("life")>>
      BY <1>12
    <2> QED BY <1>1, <2>1
  <1> QED BY <1>2, <1>3, <1>4, <1>5, <1>6, <1>7, <1>8, <1>9, <1>10, <1>11, <1>12 DEF Plans

-----------------------------------------------------------------------------
(* A batch of messages.                                                     *)

\* What a batch is after i messages.
Unfolds(after, record, s, k) ==
    after = [i \in 0 .. k |->
               IF i = 0 THEN [ok |-> TRUE, record |-> record] ELSE Handle(after[i - 1], s[i])]

LEMMA BatchExists ==
    ASSUME NEW record, NEW s
    PROVE  \A k \in Nat : \E after : Unfolds(after, record, s, k)
  <1> DEFINE T == {k \in Nat : ~ \E after : Unfolds(after, record, s, k)}
  <1>1. SUFFICES ASSUME T # {} PROVE FALSE
    OBVIOUS
  <1>2. PICK k \in T : \A y \in T : k <= y
    <2>1. T \subseteq Nat
      OBVIOUS
    <2> HIDE DEF T
    <2> QED BY <1>1, <2>1, LeastElement
  <1>3. CASE k = 0
    <2> DEFINE f == [i \in 0 .. 0 |-> [ok |-> TRUE, record |-> record]]
    <2>1. Unfolds(f, record, s, 0)
      BY DEF Unfolds
    <2> QED BY <1>2, <1>3, <2>1
  <1>4. CASE k # 0
    <2>1. k - 1 \in Nat /\ k \in Nat /\ k - 1 \notin T
      BY <1>2, <1>4
    <2>2. PICK f : Unfolds(f, record, s, k - 1)
      BY <2>1
    <2> DEFINE g == [i \in 0 .. k |-> IF i = k THEN Handle(f[k - 1], s[k]) ELSE f[i]]
    <2>3. \A i \in 0 .. k - 1 : f[i] = IF i = 0 THEN [ok |-> TRUE, record |-> record] ELSE Handle(f[i - 1], s[i])
      BY <2>2 DEF Unfolds
    <2>4. \A i \in 0 .. k : g[i] = IF i = 0 THEN [ok |-> TRUE, record |-> record] ELSE Handle(g[i - 1], s[i])
      <3>1. TAKE i \in 0 .. k
      <3>2. CASE i = k
        BY <3>2, <2>1, <1>4
      <3>3. CASE i # k
        <4>1. g[i] = f[i] /\ i \in 0 .. k - 1
          BY <3>1, <3>3, <2>1
        <4>2. i # 0 => g[i - 1] = f[i - 1]
          BY <3>1, <3>3, <2>1
        <4> HIDE DEF g
        <4> QED BY <4>1, <4>2, <2>3
      <3> QED BY <3>2, <3>3
    <2>5. g = [i \in 0 .. k |-> g[i]]
      OBVIOUS
    <2>6. Unfolds(g, record, s, k)
      <3> HIDE DEF g
      <3> QED BY <2>4, <2>5 DEF Unfolds
    <2> QED BY <1>2, <2>6
  <1> QED BY <1>3, <1>4

LEMMA BatchUnfolds ==
    ASSUME NEW record, NEW s, Len(s) \in Nat
    PROVE  \E after : Unfolds(after, record, s, Len(s)) /\ Batch(record, s) = after[Len(s)]
  <1> DEFINE f == CHOOSE after : Unfolds(after, record, s, Len(s))
  <1>1. Unfolds(f, record, s, Len(s))
    BY BatchExists
  <1>2. Batch(record, s) = f[Len(s)]
    BY DEF Batch, Unfolds
  <1> QED BY <1>1, <1>2

-----------------------------------------------------------------------------
(* What a node makes of its mail.                                           *)

LEMMA FirstRecord ==
    ASSUME PairingAssumption
    PROVE  NoRecord \in Record
  BY DEF NoRecord, Record, Status, PairingAssumption

\* The statuses that the steps write.
LEMMA Statuses ==
    {"none", "requested", "remote-proof-required", "comparison-required", "local-confirmed", "remote-confirmed",
     "activating", "local-proof-required", "active", "expired", "cancelled", "replacement-required"} = Status
  BY DEF Status, Terminal

\* A batch that is going well: the record it has come to from p, when it has i
\* messages behind it; the joiner's transcript stays, for registrations go to the host.
Going(n, p, s, i, b) ==
    /\ b \in [ok : BOOLEAN, record : Record] /\ RecordOK(n, b.record)
    /\ n = "joiner" => b.record.reg = p.reg /\ b.record.from = p.from
    /\ n = "host" => \A j \in i + 1 .. Len(s) : s[j].type = "registration" => b.record.reg <= s[j].ref

\* Taking one message leaves a record that may say what it says.
LEMMA HandledRecord ==
    ASSUME PairingAssumption, PairingTypes, ApprovedOnce, NEW n \in Nodes, NEW m, NEW r, RecordOK(n, r), MessageOK(n, m),
           ~ Throws(r, m), ~ (r.status = "none" /\ m.type # "request"),
           n = "host" /\ m.type = "registration" => r.reg <= m.ref
    PROVE  /\ RecordOK(n, Handled(r, m))
           /\ Handled(r, m).reg = IF m.type = "registration" THEN m.ref ELSE r.reg
           /\ Handled(r, m).from = r.from
  <1>0. /\ r \in Record /\ registrations \in Nat /\ r.reg \in 0 .. MaxRegistrations /\ r.reg <= registrations
        /\ registrations <= MaxRegistrations /\ MaxRegistrations \in Nat /\ r.reg \in Nat
    BY DEF RecordOK, Record, PairingTypes, PairingAssumption
  <1>1. CASE Handled(r, m) = r /\ m.type # "registration"
    BY <1>1
  <1>2. CASE m.type = "request" /\ r.status = "none"
    <2>1. PICK q : q = [r EXCEPT !.status = "remote-proof-required"]
      OBVIOUS
    <2>2. Handled(r, m) = q
      BY <1>2, <2>1 DEF Handled
    <2>3. q \in Record /\ q.reg = r.reg /\ q.acc = r.acc /\ q.from = r.from /\ q.local = r.local /\ q.remote = r.remote
      BY <1>0, <2>1, Statuses DEF Record
    <2>4. n # "host"
      BY <1>2 DEF MessageOK
    <2> QED BY <1>0, <1>2, <2>2, <2>3, <2>4 DEF RecordOK
  <1>3. CASE m.type = "registration"
    <2>1. PICK q : q = [r EXCEPT !.reg = m.ref, !.status = "comparison-required"]
      OBVIOUS
    <2>2. Handled(r, m) = q
      BY <1>3, <2>1 DEF Handled
    <2>3. n = "host" /\ m.ref \in 1 .. registrations /\ r.reg <= m.ref /\ m.ref \in 0 .. MaxRegistrations /\ m.ref \in Nat
      BY <1>0, <1>3 DEF MessageOK
    <2>4. q \in Record /\ q.reg = m.ref /\ q.acc = r.acc /\ q.from = r.from /\ q.local = r.local /\ q.remote = r.remote
          /\ q.status = "comparison-required"
      BY <1>0, <2>1, <2>3, Statuses DEF Record
    <2>5. Arrived(m.ref) /\ m.ref # 0
      BY <1>3, <2>3 DEF MessageOK
    <2>6. \A k \in Nodes : \A e \in compared[k] : e[1] \in Nat
      BY <1>0 DEF PairingTypes
    <2>7. q.local => \E e \in compared["host"] : e[1] <= q.reg
      BY <1>0, <2>3, <2>4, <2>6 DEF RecordOK
    <2>8. q.remote => \E e \in compared["joiner"] : e[2] = 0 /\ e[1] <= q.reg
      BY <1>0, <2>3, <2>4, <2>6 DEF RecordOK
    <2>9. r.from = 0
      BY <2>3 DEF RecordOK
    <2>10. RecordOK("host", q)
      BY <1>0, <2>3, <2>4, <2>5, <2>7, <2>8, <2>9 DEF RecordOK
    <2> QED BY <1>3, <2>2, <2>3, <2>4, <2>10
  <1>4. CASE m.type = "confirmation"
    <2>1. PICK x : x = IF r.local THEN "activating" ELSE "remote-confirmed"
      OBVIOUS
    <2>2. PICK q : q = [r EXCEPT !.remote = TRUE, !.status = x]
      OBVIOUS
    <2>3. Handled(r, m) = q
      BY <1>4, <2>1, <2>2 DEF Handled
    <2>4. x \in Status /\ x # "active" /\ x # "none"
      BY <2>1, Statuses
    <2>5. q \in Record /\ q.reg = r.reg /\ q.acc = r.acc /\ q.from = r.from /\ q.local = r.local /\ q.status = x
      BY <1>0, <2>2, <2>4 DEF Record
    <2>6. m.ref = r.reg /\ m.from = r.from /\ <<m.ref, m.from>> \in compared[Other(n)] /\ r.reg # 0
      BY <1>4 DEF Throws, MessageOK
    <2>7. RecordOK(n, q)
      <3>1. CASE n = "host"
        <4>1. r.from = 0 /\ <<r.reg, 0>> \in compared["joiner"]
          BY <2>6, <3>1 DEF RecordOK, Other
        <4>2. PICK e : e = <<r.reg, 0>>
          OBVIOUS
        <4>3. e \in compared["joiner"] /\ e[2] = 0 /\ e[1] <= q.reg
          BY <1>0, <2>5, <4>1, <4>2
        <4> QED BY <1>0, <2>4, <2>5, <2>6, <3>1, <4>3 DEF RecordOK
      <3>2. CASE n # "host"
        BY <1>0, <2>4, <2>5, <3>2 DEF RecordOK
      <3> QED BY <3>1, <3>2
    <2> QED BY <1>4, <2>3, <2>5, <2>7
  <1>5. CASE m.type = "acceptance"
    <2>1. PICK q : q = [r EXCEPT !.acc = m.ref, !.status = "activating"]
      OBVIOUS
    <2>2. Handled(r, m) = q
      BY <1>5, <2>1 DEF Handled
    <2>3. n # "host" /\ Accepted(m.ref) /\ m.ref \in Acceptances
      <3>1. n # "host" /\ Accepted(m.ref)
        BY <1>5 DEF MessageOK
      <3>2. Len(approved) \in Nat /\ Len(approved) <= 1 + faults /\ faults \in 0 .. MaxFaults /\ MaxFaults \in Nat
        BY DEF PairingTypes, ApprovedOnce, PairingAssumption
      <3> QED BY <3>1, <3>2 DEF Accepted, Acceptances
    <2>4. q \in Record /\ q.reg = r.reg /\ q.acc = m.ref /\ q.from = r.from /\ q.local = r.local /\ q.remote = r.remote
      BY <1>0, <2>1, <2>3, Statuses DEF Record
    <2>5. RecordOK(n, q)
      BY <1>0, <2>3, <2>4 DEF RecordOK
    <2> QED BY <1>5, <2>2, <2>4, <2>5
  <1>6. CASE m.type = "cancelled"
    <2>1. PICK q : q = [r EXCEPT !.status = "cancelled"]
      OBVIOUS
    <2>2. Handled(r, m) = q
      BY <1>6, <2>1 DEF Handled
    <2>3. q \in Record /\ q.reg = r.reg /\ q.acc = r.acc /\ q.from = r.from /\ q.local = r.local /\ q.remote = r.remote
          /\ q.status = "cancelled"
      BY <1>0, <2>1, Statuses DEF Record
    <2>4. RecordOK(n, q)
      BY <1>0, <2>3 DEF RecordOK
    <2> QED BY <1>6, <2>2, <2>3, <2>4
  <1> QED BY <1>1, <1>2, <1>3, <1>4, <1>5, <1>6 DEF Handled

LEMMA GoingOn ==
    ASSUME PairingAssumption, PairingTypes, ApprovedOnce, NEW n \in Nodes, NEW p, NEW s \in Seq(Message), NEW i \in 1 .. Len(s), NEW b,
           Going(n, p, s, i - 1, b), MessageOK(n, s[i]),
           n = "host" => \A j \in i .. Len(s) : s[i].type = "registration" /\ s[j].type = "registration" => s[i].ref <= s[j].ref
    PROVE  Going(n, p, s, i, Handle(b, s[i]))
  <1>0. PICK m, r : m = s[i] /\ r = b.record
    OBVIOUS
  <1>1. /\ RecordOK(n, r) /\ MessageOK(n, m) /\ i \in Nat /\ Len(s) \in Nat
        /\ b \in [ok : BOOLEAN, record : Record]
        /\ n = "joiner" => r.reg = p.reg /\ r.from = p.from
    BY <1>0 DEF Going
  <1>2. n = "host" => /\ \A j \in i + 1 .. Len(s) : s[j].type = "registration" => r.reg <= s[j].ref
                      /\ m.type = "registration" => r.reg <= m.ref
    BY <1>0, <1>1 DEF Going
  <1>3. CASE Handle(b, m) = b
    BY <1>0, <1>1, <1>2, <1>3 DEF Going
  <1>4. CASE Handle(b, m) = [b EXCEPT !.ok = FALSE]
    <2>1. Handle(b, m) \in [ok : BOOLEAN, record : Record] /\ Handle(b, m).record = r
      BY <1>0, <1>1, <1>4
    <2> QED BY <1>0, <1>1, <1>2, <2>1 DEF Going
  <1>5. CASE /\ Handle(b, m) = [b EXCEPT !.record = Handled(r, m)]
             /\ ~ Throws(r, m) /\ ~ (r.status = "none" /\ m.type # "request")
    <2>1. PICK q : q = Handled(r, m)
      OBVIOUS
    <2>2. RecordOK(n, q) /\ q.from = r.from /\ q.reg = IF m.type = "registration" THEN m.ref ELSE r.reg
      BY <1>1, <1>2, <1>5, <2>1, HandledRecord
    <2>3. Handle(b, m) \in [ok : BOOLEAN, record : Record] /\ Handle(b, m).record = q
      <3>1. q \in Record
        BY <2>2 DEF RecordOK
      <3> QED BY <1>1, <1>5, <2>1, <3>1
    <2>4. n = "host" => \A j \in i + 1 .. Len(s) : s[j].type = "registration" => q.reg <= s[j].ref
      <3>1. \A j \in i + 1 .. Len(s) : j \in i .. Len(s)
        BY <1>1
      <3> QED BY <1>0, <1>2, <2>2, <3>1
    <2>5. n = "joiner" => q.reg = p.reg /\ q.from = p.from
      BY <1>1, <2>2 DEF MessageOK
    <2> QED BY <1>0, <2>2, <2>3, <2>4, <2>5 DEF Going
  <1> QED BY <1>0, <1>3, <1>4, <1>5 DEF Handle

\* What the record of a node is after a batch of messages.
LEMMA BatchGoes ==
    ASSUME PairingAssumption, PairingTypes, ApprovedOnce, NEW n \in Nodes, NEW r, RecordOK(n, r), NEW s \in Seq(Message),
           \A i \in 1 .. Len(s) : MessageOK(n, s[i]),
           n = "host" => \A i \in 1 .. Len(s) : s[i].type = "registration" =>
             /\ r.reg <= s[i].ref
             /\ \A j \in i .. Len(s) : s[j].type = "registration" => s[i].ref <= s[j].ref
    PROVE  /\ RecordOK(n, Batch(r, s).record)
           /\ n = "joiner" => Batch(r, s).record.reg = r.reg /\ Batch(r, s).record.from = r.from
  <1>1. Len(s) \in Nat
    OBVIOUS
  <1>2. PICK after : Unfolds(after, r, s, Len(s)) /\ Batch(r, s) = after[Len(s)]
    BY <1>1, BatchUnfolds
  <1>3. /\ after[0] = [ok |-> TRUE, record |-> r]
        /\ \A i \in 1 .. Len(s) : after[i] = Handle(after[i - 1], s[i])
    <2>1. \A i \in 0 .. Len(s) : after[i] = IF i = 0 THEN [ok |-> TRUE, record |-> r] ELSE Handle(after[i - 1], s[i])
      BY <1>2, Zenon DEF Unfolds
    <2>2. 0 \in 0 .. Len(s) /\ \A i \in 1 .. Len(s) : i \in 0 .. Len(s) /\ i # 0
      BY <1>1
    <2> QED BY <2>1, <2>2, Zenon
  <1>4. Going(n, r, s, 0, after[0])
    <2>1. r \in Record
      BY DEF RecordOK
    <2> QED BY <1>1, <1>3, <2>1 DEF Going
  <1> DEFINE T == {i \in 0 .. Len(s) : ~ Going(n, r, s, i, after[i])}
  <1>5. T = {}
    <2>1. SUFFICES ASSUME T # {} PROVE FALSE
      OBVIOUS
    <2>2. PICK k \in T : \A y \in T : k <= y
      <3>1. T \subseteq Nat
        BY <1>1
      <3> HIDE DEF T
      <3> QED BY <2>1, <3>1, LeastElement
    <2>3. k \in 1 .. Len(s) /\ k - 1 \in 0 .. Len(s) /\ k - 1 \notin T
      BY <1>1, <1>4, <2>2
    <2>4. Going(n, r, s, k - 1, after[k - 1])
      BY <2>3
    <2>5. n = "host" => \A j \in k .. Len(s) : s[k].type = "registration" /\ s[j].type = "registration" => s[k].ref <= s[j].ref
      BY <2>3
    <2>6. Going(n, r, s, k, Handle(after[k - 1], s[k]))
      BY <2>3, <2>4, <2>5, GoingOn
    <2>7. Going(n, r, s, k, after[k])
      BY <1>3, <2>3, <2>6
    <2> QED BY <2>2, <2>7
  <1>6. Going(n, r, s, Len(s), after[Len(s)])
    BY <1>1, <1>5
  <1> QED BY <1>2, <1>6 DEF Going

\* The messages of a mailbox after the first d.
LEMMA Unread ==
    ASSUME NEW u \in Seq(Message), NEW d \in Nat, d <= Len(u)
    PROVE  \E s \in Seq(Message) :
             /\ s = SubSeq(u, d + 1, Len(u))
             /\ \A i \in 1 .. Len(s) : /\ s[i] = u[d + i] /\ d + i \in d + 1 .. Len(u)
                                       /\ \A j \in i .. Len(s) : s[j] = u[d + j] /\ d + j \in d + i .. Len(u)
  <1>1. PICK l \in Nat : l = Len(u)
    OBVIOUS
  <1>2. PICK s : s = SubSeq(u, d + 1, l)
    OBVIOUS
  <1>3. \A i \in d + 1 .. l : u[i] \in Message
    BY <1>1
  <1>4. d + 1 \in Int /\ l \in Int
    OBVIOUS
  <1>5. /\ s \in Seq(Message)
        /\ Len(s) = IF d + 1 <= l THEN l - (d + 1) + 1 ELSE 0
        /\ \A i \in 1 .. l - (d + 1) + 1 : s[i] = u[d + 1 + i - 1]
    <2>1. PICK e : e = d + 1
      OBVIOUS
    <2>2. e \in Int /\ l \in Int /\ s = SubSeq(u, e, l) /\ \A i \in e .. l : u[i] \in Message
      BY <1>2, <1>3, <1>4, <2>1
    <2>3. s \in Seq(Message)
      BY <2>2, SubSeqProperties, Zenon
    <2>4. Len(s) = IF e <= l THEN l - e + 1 ELSE 0
      BY <2>2, SubSeqProperties
    <2>5. \A i \in 1 .. l - e + 1 : s[i] = u[e + i - 1]
      BY <2>2, SubSeqProperties
    <2> QED BY <2>1, <2>3, <2>4, <2>5, Zenon
  <1>6. PICK z \in Nat : z = Len(s)
    <2>1. Len(s) \in Nat
      BY <1>5, Zenon, LenProperties
    <2> QED BY <2>1, Zenon
  <1>7. z = l - d /\ l - (d + 1) + 1 = z
    BY <1>1, <1>5, <1>6
  <1>8. ASSUME NEW i \in 1 .. z
        PROVE  s[i] = u[d + i] /\ d + i \in d + 1 .. l /\ \A j \in i .. z : d + j \in d + i .. l /\ j \in 1 .. z
    <2>1. d + 1 + i - 1 = d + i
      OBVIOUS
    <2>2. s[i] = u[d + i]
      BY <1>5, <1>7, <2>1
    <2>3. i \in Nat /\ d \in Nat /\ l \in Nat /\ z \in Nat /\ z = l - d
      BY <1>7
    <2>4. d + i \in d + 1 .. l /\ \A j \in i .. z : d + j \in d + i .. l /\ j \in 1 .. z
      BY <2>3
    <2> QED BY <2>2, <2>4
  <1> QED BY <1>1, <1>2, <1>5, <1>6, <1>8

\* What a node makes of its unread messages.
LEMMA ReadRecord ==
    ASSUME PairingAssumption, PairingInv, NEW n \in Nodes
    PROVE  LET r == Batch(pairing[n], SubSeq(mail[n], processed[n] + 1, Len(mail[n]))).record
           IN RecordOK(n, r) /\ (n = "joiner" => r.reg = pairing[n].reg /\ r.from = pairing[n].from)
  <1>0. PairingTypes /\ ApprovedOnce /\ InOrder /\ MailOK /\ RecordOK(n, pairing[n])
    BY DEF PairingInv
  <1>1. PICK u \in Seq(Message), d \in Nat : u = mail[n] /\ d = processed[n] /\ d <= Len(u)
    BY <1>0 DEF PairingTypes
  <1>2. PICK r : r = pairing[n] /\ RecordOK(n, r)
    BY <1>0
  <1>3. PICK s \in Seq(Message) :
             /\ s = SubSeq(u, d + 1, Len(u))
             /\ \A i \in 1 .. Len(s) : /\ s[i] = u[d + i] /\ d + i \in d + 1 .. Len(u)
                                       /\ \A j \in i .. Len(s) : s[j] = u[d + j] /\ d + j \in d + i .. Len(u)
    <2>1. d <= Len(u)
      BY <1>1
    <2> QED BY <2>1, Unread
  <1>4. \A i \in 1 .. Len(s) : /\ s[i] = u[d + i] /\ d + i \in d + 1 .. Len(u)
                               /\ \A j \in i .. Len(s) : s[j] = u[d + j] /\ d + j \in d + i .. Len(u)
    BY <1>3, Zenon
  <1>5. \A i \in 1 .. Len(s) : MessageOK(n, s[i])
    <2>1. \A k \in d + 1 .. Len(u) : k \in 1 .. Len(u)
      BY <1>1
    <2>2. \A k \in 1 .. Len(u) : MessageOK(n, u[k])
      BY <1>0, <1>1 DEF MailOK
    <2> QED BY <1>4, <2>1, <2>2, Zenon
  <1>6. n = "host" => \A i \in 1 .. Len(s) : s[i].type = "registration" =>
          /\ r.reg <= s[i].ref
          /\ \A j \in i .. Len(s) : s[j].type = "registration" => s[i].ref <= s[j].ref
    <2>1. SUFFICES ASSUME n = "host" PROVE \A i \in 1 .. Len(s) : s[i].type = "registration" =>
          /\ r.reg <= s[i].ref
          /\ \A j \in i .. Len(s) : s[j].type = "registration" => s[i].ref <= s[j].ref
      OBVIOUS
    <2>2. \A k \in d + 1 .. Len(u) : u[k].type = "registration" =>
            /\ r.reg <= u[k].ref
            /\ \A j \in k .. Len(u) : u[j].type = "registration" => u[k].ref <= u[j].ref
      BY <1>0, <1>1, <1>2, <2>1 DEF InOrder
    <2>3. ASSUME NEW i \in 1 .. Len(s), s[i].type = "registration"
          PROVE  /\ r.reg <= s[i].ref
                 /\ \A j \in i .. Len(s) : s[j].type = "registration" => s[i].ref <= s[j].ref
      <3>1. s[i] = u[d + i] /\ d + i \in d + 1 .. Len(u)
        BY <1>4, Zenon
      <3>2. /\ r.reg <= s[i].ref
            /\ \A k \in d + i .. Len(u) : u[k].type = "registration" => s[i].ref <= u[k].ref
        BY <2>2, <2>3, <3>1, Zenon
      <3>3. ASSUME NEW j \in i .. Len(s), s[j].type = "registration" PROVE s[i].ref <= s[j].ref
        <4>1. s[j] = u[d + j] /\ d + j \in d + i .. Len(u)
          BY <1>4, Zenon
        <4> QED BY <3>2, <3>3, <4>1, Zenon
      <3> QED BY <3>2, <3>3
    <2> QED BY <2>3
  <1>7. RecordOK(n, Batch(r, s).record)
        /\ (n = "joiner" => Batch(r, s).record.reg = r.reg /\ Batch(r, s).record.from = r.from)
    BY <1>0, <1>2, <1>5, <1>6, BatchGoes
  <1> QED BY <1>1, <1>2, <1>3, <1>7, Zenon

-----------------------------------------------------------------------------
(* What every step keeps.                                                   *)

\* What never goes back: registrations, confirmations and acceptances that were used.
Grows ==
    /\ registrations <= registrations'
    /\ \A n \in Nodes : compared[n] \subseteq compared'[n]
    /\ \A a : Accepted(a) => Accepted(a)'
    /\ \A q \in Nat \ {0} : Arrived(q) => Arrived(q)'

\* The transcript of the joiner stays, or it is that of a newer registration, which takes
\* the nonce of the one before for the host's.
LEMMA JoinerGoesOn ==
    ASSUME PairingAssumption, PairingInv, PairingNext
    PROVE  LET j == pairing["joiner"]
               k == pairing'["joiner"]
           IN k.reg \in Nat /\ ((k.reg = j.reg /\ k.from = j.from) \/ (k.reg > j.reg /\ k.from = j.reg))
  <1>0. PairingTypes /\ pairing["joiner"] \in Record /\ pairing["joiner"].reg \in Nat
    BY DEF PairingInv, PairingTypes, Record, PairingAssumption
  <1>1. PICK j, k : j = pairing["joiner"] /\ k = pairing'["joiner"]
    OBVIOUS
  <1>2. CASE pairing' = pairing
    BY <1>0, <1>2
  <1>3. CASE Confirm("joiner") \/ CancelPairing("joiner") \/ ProofOver("joiner")
    <2>1. PICK x : pairing' = [pairing EXCEPT !["joiner"] = x] /\ x.reg = j.reg /\ x.from = j.from
      <3>1. CASE Confirm("joiner")
        <4>1. PICK x : x = [j EXCEPT !.local = TRUE, !.actor = TRUE,
                                  !.status = IF j.remote THEN "activating" ELSE "local-confirmed"]
          OBVIOUS
        <4>2. pairing' = [pairing EXCEPT !["joiner"] = x]
          BY <1>1, <3>1, <4>1 DEF Confirm, Notes
        <4>3. x.reg = j.reg /\ x.from = j.from
          BY <1>0, <1>1, <4>1 DEF Record
        <4> QED BY <4>2, <4>3
      <3>2. CASE CancelPairing("joiner")
        <4>1. PICK x : x = [j EXCEPT !.status = "cancelled", !.actor = TRUE]
          OBVIOUS
        <4>2. pairing' = [pairing EXCEPT !["joiner"] = x]
          BY <1>1, <3>2, <4>1 DEF CancelPairing, Notes
        <4>3. x.reg = j.reg /\ x.from = j.from
          BY <1>0, <1>1, <4>1 DEF Record
        <4> QED BY <4>2, <4>3
      <3>3. CASE ProofOver("joiner")
        <4>1. PICK x : x = [j EXCEPT !.actor = FALSE, !.status = "local-proof-required"]
          OBVIOUS
        <4>2. pairing' = [pairing EXCEPT !["joiner"] = x]
          BY <1>1, <3>3, <4>1 DEF ProofOver, Notes
        <4>3. x.reg = j.reg /\ x.from = j.from
          BY <1>0, <1>1, <4>1 DEF Record
        <4> QED BY <4>2, <4>3
      <3> QED BY <1>3, <3>1, <3>2, <3>3
    <2> QED BY <1>0, <1>1, <2>1 DEF PairingTypes
  <1>4. CASE \E n \in Nodes : n # "joiner" /\ pairing' = [pairing EXCEPT ![n] = pairing'[n]]
    BY <1>0, <1>4 DEF PairingTypes
  <1>5. CASE Read("joiner") \/ Poll("joiner")
    <2>1. PICK r : r = Batch(pairing["joiner"], SubSeq(mail["joiner"], processed["joiner"] + 1, Len(mail["joiner"]))).record
      OBVIOUS
    <2>2. r.reg = pairing["joiner"].reg /\ r.from = pairing["joiner"].from
      BY <2>1, ReadRecord
    <2>3. pairing' = [pairing EXCEPT !["joiner"] = r] \/ pairing' = pairing
      BY <1>5, <2>1 DEF Read, Poll, Reconcile, Notes
    <2> QED BY <1>0, <2>2, <2>3 DEF PairingTypes
  <1>6. CASE End("joiner")
    <2>1. CASE Live("joiner")
      <3>1. PICK x : pairing' = [pairing EXCEPT !["joiner"] = [j EXCEPT !.status = x]]
        BY <1>1, <2>1 DEF Live, Notes
      <3> QED BY <1>0, <1>1, <3>1 DEF Record, PairingTypes
    <2> QED BY <1>0, <1>1, <1>6, <2>1 DEF End
  <1>7. CASE Note("joiner")
    <2>1. PICK q \in Record, m \in Message : Noted("joiner", q) /\ todo["joiner"] \in Plans(q, m)
      BY DEF PairingInv, PlanOK
    <2>2. PICK t : t = todo["joiner"]
      OBVIOUS
    <2>3. t # <<>> /\ Head(t).do = "note" /\ pairing' = [pairing EXCEPT !["joiner"] = Head(t).arg]
      BY <1>7, <2>2 DEF Note, Doing, Notes, Arg
    <2>4. Head(t).arg = q
      BY <2>1, <2>2, <2>3, PlanSteps
    <2>5. pairing'["joiner"] = q
      BY <1>0, <2>3, <2>4 DEF PairingTypes
    <2>6. q.reg \in Nat
      BY <2>1 DEF Record, PairingAssumption
    <2> QED BY <2>1, <2>5, <2>6 DEF Noted
  <1>8. \A n \in Nodes : n # "joiner" /\ (Confirm(n) \/ CancelPairing(n) \/ ProofOver(n) \/ Read(n) \/ Poll(n) \/ End(n) \/ Note(n))
          => pairing' = [pairing EXCEPT ![n] = pairing'[n]]
    <2>1. ASSUME NEW n \in Nodes, NEW r, Notes(n, r) PROVE pairing' = [pairing EXCEPT ![n] = pairing'[n]]
      BY <1>0, <2>1 DEF Notes, PairingTypes
    <2>2. ASSUME NEW n \in Nodes, pairing' = pairing PROVE pairing' = [pairing EXCEPT ![n] = pairing'[n]]
      BY <1>0, <2>2 DEF PairingTypes
    <2> QED BY <2>1, <2>2 DEF Confirm, CancelPairing, ProofOver, Read, Poll, Reconcile, End, Live, Note
  <1>9. \/ pairing' = pairing
        \/ \E n \in Nodes : Confirm(n) \/ CancelPairing(n) \/ ProofOver(n) \/ Read(n) \/ Poll(n) \/ End(n) \/ Note(n)
    BY DEF PairingNext, CreateRequest, AcceptRequest, Approve, ApproveTorn, ApproveRefused, RunLate,
           PairingStep, Send, Activate, Lose, Fault, RevokePeer
  <1> QED BY <1>2, <1>3, <1>4, <1>5, <1>6, <1>7, <1>8, <1>9

LEMMA Growing ==
    ASSUME PairingAssumption, PairingInv, PairingNext
    PROVE  Grows
  <1>0. PairingTypes
    BY DEF PairingInv
  <1>1. registrations <= registrations'
    <2>1. registrations \in Nat
      BY <1>0 DEF PairingTypes, PairingAssumption
    <2>2. registrations' = registrations \/ registrations' = registrations + 1
      BY WhoChanges DEF AcceptRequest
    <2> QED BY <2>1, <2>2
  <1>2. \A n \in Nodes : compared[n] \subseteq compared'[n]
    <2>1. CASE compared' = compared
      BY <2>1
    <2>2. ASSUME NEW k \in Nodes, Confirm(k) PROVE \A n \in Nodes : compared[n] \subseteq compared'[n]
      BY <1>0, <2>2 DEF Confirm, PairingTypes
    <2> QED BY <2>1, <2>2, WhoChanges
  <1>3. ASSUME NEW a, Accepted(a) PROVE Accepted(a)'
    <2>1. a = Len(approved) /\ a # 0 /\ invitation = "used" /\ peers["host"][a] # "none" /\ approved # <<>>
      BY <1>3 DEF Accepted
    <2>2. approved' = approved /\ invitation' = invitation
      <3>1. CASE UNCHANGED <<approved, invitation>>
        BY <3>1
      <3>2. CASE CreateRequest
        <4>1. RecordOK("host", pairing["host"])
          BY DEF PairingInv
        <4> QED BY <2>1, <3>2, <4>1 DEF CreateRequest, RecordOK
      <3>3. CASE Approve \/ ApproveTorn
        BY <2>1, <3>3 DEF Approve, ApproveTorn
      <3> QED BY <3>1, <3>2, <3>3, WhoChanges
    <2>3. peers'["host"][a] # "none"
      <3>1. CASE peers' = peers
        BY <2>1, <3>1
      <3>2. CASE Activate
        BY <1>0, <2>1, <3>2 DEF Activate, PairingTypes
      <3>3. ASSUME NEW n \in Nodes, NEW b \in Acceptances, RevokePeer(n, b) PROVE peers'["host"][a] # "none"
        <4>1. CASE n = "host"
          <5>1. peers' = [peers EXCEPT !["host"] = [peers["host"] EXCEPT ![b] = "revoked"]]
            BY <3>3, <4>1 DEF RevokePeer
          <5>2. peers'["host"] = [peers["host"] EXCEPT ![b] = "revoked"] /\ peers["host"] \in [Acceptances -> {"none", "active", "revoked"}]
            BY <1>0, <5>1 DEF PairingTypes
          <5>3. CASE a \in Acceptances
            BY <2>1, <5>2, <5>3
          <5>4. CASE a \notin Acceptances
            <6>1. Len(approved) \in Nat /\ Len(approved) <= 1 + faults /\ faults \in 0 .. MaxFaults
              BY <1>0 DEF PairingInv, ApprovedOnce, PairingTypes
            <6>2. a \in Acceptances
              BY <2>1, <6>1 DEF Acceptances, PairingAssumption
            <6> QED BY <5>4, <6>2
          <5> QED BY <5>3, <5>4
        <4>2. CASE n # "host"
          BY <1>0, <2>1, <3>3, <4>2 DEF RevokePeer, PairingTypes
        <4> QED BY <4>1, <4>2
      <3>4. CASE Approve \/ ApproveTorn
        BY <2>1, <3>4 DEF Approve, ApproveTorn
      <3> QED BY <3>1, <3>2, <3>3, <3>4, WhoChanges
    <2> QED BY <2>1, <2>2, <2>3 DEF Accepted
  <1>4. ASSUME NEW q \in Nat \ {0}, Arrived(q) PROVE Arrived(q)'
    <2>1. PICK j, k : j = pairing["joiner"] /\ k = pairing'["joiner"]
      OBVIOUS
    <2>2. j \in Record /\ j.reg \in Nat /\ j.from \in Nat /\ (j.reg = 0 => j.from = 0)
      BY <2>1 DEF PairingInv, RecordOK, Record, PairingAssumption
    <2>3. k.reg \in Nat /\ ((k.reg = j.reg /\ k.from = j.from) \/ (k.reg > j.reg /\ k.from = j.reg))
      BY <2>1, JoinerGoesOn
    <2>4. j.reg \in Nat /\ q <= j.reg /\ (j.from = 0 => q = j.reg)
      BY <1>4, <2>1 DEF PairingInv, RecordOK, Record, PairingAssumption, Arrived
    <2>5. \A e \in compared'["joiner"] : e \in compared["joiner"] \/ e = <<j.reg, j.from>>
      <3>1. CASE compared' = compared
        BY <3>1
      <3>2. ASSUME NEW n \in Nodes, Confirm(n)
            PROVE  \A e \in compared'["joiner"] : e \in compared["joiner"] \/ e = <<j.reg, j.from>>
        BY <1>0, <2>1, <3>2 DEF Confirm, PairingTypes
      <3> QED BY <3>1, <3>2, WhoChanges
    <2>6. \A e \in compared["joiner"] : e[2] = 0 => e[1] <= q
      BY <1>4 DEF Arrived
    <2>7. \A e \in compared'["joiner"] : e[2] = 0 => e[1] <= q
      <3>1. PICK x, y : x = j.reg /\ y = j.from
        OBVIOUS
      <3>2. <<x, y>>[1] = x /\ <<x, y>>[2] = y
        OBVIOUS
      <3> QED BY <2>4, <2>5, <2>6, <3>1, <3>2
    <2>8. q <= k.reg /\ (k.from = 0 => q = k.reg)
      BY <1>4, <2>2, <2>3, <2>4
    <2> QED BY <2>1, <2>7, <2>8 DEF Arrived
  <1> QED BY <1>1, <1>2, <1>3, <1>4 DEF Grows

LEMMA RecordKept ==
    ASSUME NEW n \in Nodes, NEW r, Grows, RecordOK(n, r), registrations \in Nat, registrations' \in Nat,
           n = "host" /\ approved' # approved => r.reg # 0, PairingAssumption,
           n = "joiner" => compared'["joiner"] = compared["joiner"]
    PROVE  RecordOK(n, r)'
  <1>1. r.reg \in Nat /\ r.reg <= registrations'
    BY DEF RecordOK, Record, Grows, PairingAssumption
  <1>2. CASE n = "host"
    <2>1. r.local => \E e \in compared'["host"] : e[1] <= r.reg
      BY <1>2 DEF RecordOK, Grows
    <2>2. r.remote => \E e \in compared'["joiner"] : e[2] = 0 /\ e[1] <= r.reg
      BY <1>2 DEF RecordOK, Grows
    <2>3. r.reg # 0 => Arrived(r.reg)'
      BY <1>1, <1>2 DEF RecordOK, Grows
    <2> QED BY <1>1, <1>2, <2>1, <2>2, <2>3 DEF RecordOK, Grows
  <1>3. CASE n = "joiner"
    BY <1>1, <1>3 DEF RecordOK, Grows
  <1> QED BY <1>2, <1>3

LEMMA MessageKept ==
    ASSUME NEW n \in Nodes, NEW m, Grows, MessageOK(n, m), registrations \in Nat, registrations' \in Nat
    PROVE  MessageOK(n, m)'
  <1>1. m.type = "registration" => Arrived(m.ref)'
    <2>1. m.type = "registration" => m.ref \in Nat \ {0} /\ Arrived(m.ref)
      BY DEF MessageOK
    <2> QED BY <2>1 DEF Grows
  <1>2. m.type = "acceptance" => Accepted(m.ref)'
    BY DEF MessageOK, Grows
  <1> QED BY <1>1, <1>2 DEF MessageOK, Grows, Other

\* A node that does nothing keeps its record and its plan.
LEMMA NodeKept ==
    ASSUME NEW n \in Nodes, Grows, RecordOK(n, pairing[n]), PlanOK(n), pairing'[n] = pairing[n], todo'[n] = todo[n],
           registrations \in Nat, registrations' \in Nat, PairingAssumption,
           IF n = "host" THEN approved' = approved
           ELSE registrations' = registrations /\ compared'["joiner"] = compared["joiner"]
    PROVE  RecordOK(n, pairing[n])' /\ PlanOK(n)'
  <1>1. RecordOK(n, pairing[n])'
    <2>1. PICK p : p = pairing[n]
      OBVIOUS
    <2>2. RecordOK(n, p)'
      BY <2>1, RecordKept
    <2> QED BY <2>1, <2>2
  <1>2. PICK r \in Record, m \in Message :
          /\ Noted(n, r) /\ Sent(n, m) /\ todo[n] \in Plans(r, m)
          /\ m.type = "registration" => r.reg = m.ref /\ (Doing(n, "note") \/ r.reg = pairing[n].reg)
    BY DEF PlanOK
  <1>3. Noted(n, r)'
    <2>1. RecordOK(n, r)'
      BY <1>2, RecordKept DEF Noted
    <2> QED BY <1>2, <2>1 DEF Noted
  <1>4. Sent(n, m)'
    <2>1. m.type # "registration" => MessageOK(Other(n), m)'
      <3>1. PICK k \in Nodes : k = Other(n)
        BY DEF Other
      <3> QED BY <1>2, <3>1, MessageKept DEF Sent
    <2> QED BY <1>2, <2>1 DEF Sent
  <1>5. /\ todo'[n] \in Plans(r, m)
        /\ m.type = "registration" => r.reg = m.ref /\ (Doing(n, "note")' \/ r.reg = pairing'[n].reg)
    BY <1>2 DEF Doing
  <1>6. PlanOK(n)'
    BY <1>2, <1>3, <1>4, <1>5 DEF PlanOK
  <1> QED BY <1>1, <1>6

LEMMA HostComparedKept ==
    ASSUME PairingAssumption, PairingInv, Grows, compared'["host"] = compared["host"]
    PROVE  HostCompared'
  <1>1. ASSUME NEW e \in compared["host"] PROVE e[2] = 0 /\ Arrived(e[1])'
    <2>1. PICK q : q = e[1]
      OBVIOUS
    <2>2. q \in Nat \ {0}
      BY <1>1, <2>1 DEF PairingInv, PairingTypes, PairingAssumption
    <2>3. e[2] = 0 /\ Arrived(q)
      BY <1>1, <2>1 DEF PairingInv, HostCompared
    <2>4. Arrived(q)'
      BY <2>2, <2>3 DEF Grows
    <2> QED BY <2>1, <2>3, <2>4
  <1> QED BY <1>1 DEF HostCompared

\* A step that neither sends nor reads.
LEMMA NodeStep ==
    ASSUME PairingAssumption, PairingInv, Grows, PairingTypes', ApprovedOnce', NEW n \in Nodes,
           \A k \in Nodes : k # n => pairing'[k] = pairing[k] /\ todo'[k] = todo[k],
           RecordOK(n, pairing[n])', PlanOK(n)',
           n = "host" => pairing'[n].reg = pairing[n].reg,
           mail' = mail, processed' = processed,
           n = "host" \/ approved' = approved, n = "joiner" \/ registrations' = registrations,
           n = "joiner" \/ compared'["joiner"] = compared["joiner"],
           compared'["host"] = compared["host"] \/ HostCompared',
           \A a \in Acceptances : peers'["joiner"][a] # "none" => Accepted(a)'
    PROVE  PairingInv'
  <1>0. registrations \in Nat /\ registrations' \in Nat
    BY DEF PairingInv, PairingTypes, PairingAssumption
  <1>1. ASSUME NEW k \in Nodes PROVE RecordOK(k, pairing[k])' /\ PlanOK(k)'
    <2>1. CASE k = n
      BY <2>1
    <2>2. CASE k # n
      <3>1. RecordOK(k, pairing[k]) /\ PlanOK(k) /\ pairing'[k] = pairing[k] /\ todo'[k] = todo[k]
        BY <2>2 DEF PairingInv
      <3>2. IF k = "host" THEN approved' = approved
            ELSE registrations' = registrations /\ compared'["joiner"] = compared["joiner"]
        BY <2>2
      <3> QED BY <1>0, <3>1, <3>2, NodeKept
    <2> QED BY <2>1, <2>2
  <1>2. MailOK'
    <2>1. ASSUME NEW k \in Nodes, NEW i \in 1 .. Len(mail[k]) PROVE MessageOK(k, mail[k][i])'
      <3>1. PICK m : m = mail[k][i] /\ m = mail'[k][i]
        OBVIOUS
      <3>2. MessageOK(k, m)
        BY <3>1 DEF PairingInv, MailOK
      <3> QED BY <1>0, <3>1, <3>2, MessageKept
    <2> QED BY <2>1 DEF MailOK
  <1>3. InOrder'
    <2>1. pairing'["host"].reg = pairing["host"].reg
      OBVIOUS
    <2>2. InOrder
      BY DEF PairingInv
    <2> QED BY <2>1, <2>2 DEF InOrder
  <1>4. HostCompared'
    BY HostComparedKept
  <1> QED BY <1>1, <1>2, <1>3, <1>4 DEF PairingInv

LEMMA QuietPlan ==
    ASSUME NEW n \in Nodes, RecordOK(n, pairing[n])', PairingAssumption,
           todo'[n] \in {<<>>, <<Just("ready")>>, <<Just("life")>>, <<Just("ready"), Just("life")>>,
                        <<Just("read"), Just("ready")>>}
    PROVE  PlanOK(n)'
  <1>1. PICK r : r = pairing'[n]
    OBVIOUS
  <1>2. PICK m : m = Msg("lost", 0)
    OBVIOUS
  <1>3. RecordOK(n, r)' /\ r \in Record /\ m \in Message
    BY <1>1, <1>2 DEF RecordOK, Msg, Message, PairingAssumption
  <1>4. Sent(n, m)'
    BY <1>2, <1>3 DEF Sent, MessageOK, Msg
  <1>5. Noted(n, r)'
    BY <1>1, <1>3 DEF Noted
  <1>6. todo'[n] \in Plans(r, m) /\ m.type # "registration"
    BY <1>2 DEF Plans, Msg
  <1> QED BY <1>3, <1>4, <1>5, <1>6 DEF PlanOK

LEMMA MessageWith ==
    ASSUME PairingAssumption, NEW x \in {"request", "registration", "confirmation", "acceptance", "cancelled", "lost"},
           NEW y \in 0 .. MaxRegistrations + MaxFaults + 1
    PROVE  Msg(x, y) \in Message /\ Msg(x, y).type = x /\ Msg(x, y).ref = y
  BY DEF Msg, Message

-----------------------------------------------------------------------------
(* The operations of the operators.                                         *)

LEMMA CreateRequestStep ==
    ASSUME PairingAssumption, PairingInv, Grows, CreateRequest
    PROVE  PairingInv'
  <1> DEFINE q == [NoRecord EXCEPT !.status = "requested", !.actor = TRUE]   k == Msg("request", 0)
  <1>0. PairingTypes
    BY DEF PairingInv
  <1>1. RecordOK("host", pairing["host"]) /\ pairing["host"].reg = 0 /\ approved = <<>>
    BY DEF PairingInv, RecordOK, CreateRequest
  <1>2. PairingTypes'
    BY <1>0 DEF PairingTypes, CreateRequest, Goes
  <1>3. ApprovedOnce'
    <2>1. Len(approved) = 0 /\ faults \in Nat
      BY <1>0, <1>1 DEF PairingTypes, PairingAssumption
    <2> QED BY <2>1 DEF ApprovedOnce, CreateRequest
  <1>4. RecordOK("host", pairing["host"])'
    <2>1. PICK p : p = pairing["host"]
      OBVIOUS
    <2>2. RecordOK("host", p)'
      BY <1>0, <1>1, <2>1, RecordKept DEF CreateRequest, PairingTypes, PairingAssumption
    <2> QED BY <2>1, <2>2 DEF CreateRequest
  <1>5. PICK r, m : r = q /\ m = k
    OBVIOUS
  <1>6. r \in Record /\ m \in Message /\ r.reg = 0 /\ r.from = 0 /\ r.acc = 0 /\ ~ r.local /\ ~ r.remote /\ r.status = "requested"
    <2>1. "requested" \in Status /\ TRUE \in BOOLEAN
      BY Statuses
    <2>2. r \in Record
      BY <1>5, <2>1, FirstRecord DEF Record
    <2>3. m \in Message
      BY <1>5, MessageWith DEF PairingAssumption
    <2> QED BY <1>5, <2>2, <2>3 DEF NoRecord
  <1>7. Noted("host", r)'
    BY <1>0, <1>1, <1>6 DEF Noted, RecordOK, CreateRequest, PairingTypes, PairingAssumption
  <1>8. Sent("host", m)' /\ m.type # "registration"
    BY <1>5, <1>6 DEF Sent, MessageOK, Msg, Other
  <1>9. todo'["host"] \in Plans(r, m) /\ todo'["joiner"] = todo["joiner"]
    <2>1. todo'["host"] = <<Do("note", r), Do("send", m)>> /\ todo'["joiner"] = todo["joiner"]
      BY <1>0, <1>5 DEF CreateRequest, Goes, PairingTypes
    <2> QED BY <2>1 DEF Plans
  <1>10. PlanOK("host")'
    BY <1>6, <1>7, <1>8, <1>9 DEF PlanOK
  <1>11. \A a \in Acceptances : peers'["joiner"][a] # "none" => Accepted(a)'
    BY DEF CreateRequest, PairingInv, Grows
  <1>12. /\ pairing' = pairing /\ mail' = mail /\ processed' = processed
         /\ approved' = approved /\ registrations' = registrations /\ compared' = compared
    BY DEF CreateRequest
  <1>13. \A j \in Nodes : j # "host" => pairing'[j] = pairing[j] /\ todo'[j] = todo[j]
    BY <1>9, <1>12
  <1>14. "host" \in Nodes
    OBVIOUS
  <1> HIDE DEF k, q
  <1> QED BY <1>2, <1>3, <1>4, <1>10, <1>11, <1>12, <1>13, <1>14, NodeStep

LEMMA AcceptRequestStep ==
    ASSUME PairingAssumption, PairingInv, Grows, AcceptRequest
    PROVE  PairingInv'
  <1> DEFINE q == [pairing["joiner"] EXCEPT !.status = "comparison-required", !.reg = registrations',
                                          !.from = pairing["joiner"].reg, !.actor = TRUE]
             k == Msg("registration", registrations')
  <1>0. PairingTypes /\ registrations \in Nat /\ registrations' = registrations + 1 /\ registrations' \in 0 .. MaxRegistrations
        /\ compared' = compared
    <2>1. registrations < MaxRegistrations /\ registrations' = registrations + 1 /\ compared' = compared
      BY DEF AcceptRequest
    <2>2. PairingTypes /\ registrations \in 0 .. MaxRegistrations
      BY DEF PairingInv, PairingTypes
    <2> QED BY <2>1, <2>2 DEF PairingAssumption
  <1>1. RecordOK("joiner", pairing["joiner"]) /\ pairing["joiner"] \in Record
    BY DEF PairingInv, RecordOK
  <1>2. PairingTypes'
    BY <1>0 DEF PairingTypes, AcceptRequest, Goes
  <1>3. ApprovedOnce'
    BY DEF ApprovedOnce, AcceptRequest, PairingInv
  <1>4. RecordOK("joiner", pairing["joiner"])'
    <2>1. PICK p : p = pairing["joiner"]
      OBVIOUS
    <2>2. RecordOK("joiner", p)'
      BY <1>0, <1>1, <2>1, RecordKept
    <2> QED BY <2>1, <2>2 DEF AcceptRequest
  <1>5. PICK r, m : r = q /\ m = k
    OBVIOUS
  <1>6. r \in Record /\ m \in Message /\ r.reg = registrations' /\ r.acc = pairing["joiner"].acc
        /\ r.from = pairing["joiner"].reg
    <2>1. r \in Record
      <3>1. pairing["joiner"].reg \in 0 .. MaxRegistrations
        BY <1>1 DEF Record
      <3> QED BY <1>0, <1>1, <1>5, <3>1, Statuses DEF Record
    <2>2. m \in Message
      BY <1>0, <1>5, MessageWith DEF PairingAssumption
    <2> QED BY <1>1, <1>5, <2>1, <2>2 DEF Record
  <1>7. Noted("joiner", r)'
    <2>1. r.acc # 0 => Accepted(r.acc)'
      BY <1>1, <1>6 DEF RecordOK, Grows
    <2>2. pairing["joiner"].reg <= registrations /\ pairing["joiner"].reg \in Nat
      BY <1>1 DEF RecordOK, Record, PairingAssumption
    <2>3. \A e \in compared["joiner"] : e[1] \in Nat \ {0}
      <3>1. compared["joiner"] \subseteq (1 .. MaxRegistrations) \X (0 .. MaxRegistrations)
        BY <1>0 DEF PairingTypes
      <3> QED BY <3>1 DEF PairingAssumption
    <2>4. \A e \in compared["joiner"] : e[1] <= r.reg /\ (r.from = 0 => e[2] # 0)
      BY <1>0, <1>1, <1>6, <2>2, <2>3 DEF RecordOK
    <2>5. RecordOK("joiner", r)'
      BY <1>0, <1>6, <2>1, <2>3, <2>4 DEF RecordOK
    <2>6. pairing' = pairing /\ r.reg > pairing["joiner"].reg
      BY <1>0, <1>6, <2>2 DEF AcceptRequest
    <2> QED BY <1>6, <2>5, <2>6 DEF Noted
  <1>8. Sent("joiner", m)' /\ r.reg = m.ref
    BY <1>0, <1>5, <1>6 DEF Sent, Msg
  <1>9. todo'["joiner"] \in Plans(r, m) /\ todo'["host"] = todo["host"] /\ Doing("joiner", "note")'
    <2>1. todo'["joiner"] = <<Do("note", r), Do("send", m)>> /\ todo'["host"] = todo["host"]
      BY <1>0, <1>5 DEF AcceptRequest, Goes, PairingTypes
    <2>2. Head(<<Do("note", r), Do("send", m)>>) = Do("note", r) /\ <<Do("note", r), Do("send", m)>> # <<>>
      BY HeadTail
    <2>3. Doing("joiner", "note")'
      BY <2>1, <2>2 DEF Doing, Do
    <2> QED BY <2>1, <2>3 DEF Plans
  <1>10. PlanOK("joiner")'
    BY <1>6, <1>7, <1>8, <1>9 DEF PlanOK
  <1>11. \A a \in Acceptances : peers'["joiner"][a] # "none" => Accepted(a)'
    BY DEF AcceptRequest, PairingInv, Grows
  <1>12. pairing' = pairing /\ mail' = mail /\ processed' = processed /\ approved' = approved
         /\ compared' = compared
    BY DEF AcceptRequest
  <1>13. \A j \in Nodes : j # "joiner" => pairing'[j] = pairing[j] /\ todo'[j] = todo[j]
    BY <1>9, <1>12
  <1>14. "joiner" \in Nodes
    OBVIOUS
  <1> HIDE DEF k, q
  <1> QED BY <1>2, <1>3, <1>4, <1>10, <1>11, <1>12, <1>13, <1>14, NodeStep

LEMMA ConfirmStep ==
    ASSUME PairingAssumption, PairingInv, Grows, NEW n \in Nodes, Confirm(n)
    PROVE  PairingInv'
  <1>0. PairingTypes /\ registrations \in Nat /\ registrations' = registrations
    BY DEF PairingInv, PairingTypes, Confirm, PairingAssumption
  <1>1. PICK p : p = pairing[n] /\ p \in Record /\ RecordOK(n, p) /\ p.reg # 0
    BY DEF PairingInv, RecordOK, Confirm
  <1>2. p.reg \in 1 .. MaxRegistrations /\ p.reg \in 1 .. registrations
    BY <1>0, <1>1 DEF RecordOK, Record, PairingAssumption
  <1>3. PICK r, m : /\ r = [p EXCEPT !.local = TRUE, !.actor = TRUE, !.status = IF p.remote THEN "activating" ELSE "local-confirmed"]
                    /\ m = Confirmation(p)
    OBVIOUS
  <1>4. /\ pairing' = [pairing EXCEPT ![n] = r]
        /\ todo' = [todo EXCEPT ![n] = <<Do("send", m), Just("read"), Just("ready")>>]
        /\ compared' = [compared EXCEPT ![n] = @ \cup {<<p.reg, p.from>>}]
        /\ UNCHANGED <<mail, processed, invitation, registrations, approved, peers, late, faults>>
    BY <1>1, <1>3 DEF Confirm, Notes, Goes
  <1>5. r \in Record /\ m \in Message /\ r.reg = p.reg /\ r.from = p.from /\ r.acc = p.acc /\ r.remote = p.remote
        /\ r.status \in {"activating", "local-confirmed"}
    <2>1. r \in Record
      <3>1. PICK x : x = (IF p.remote THEN "activating" ELSE "local-confirmed")
        OBVIOUS
      <3>2. x \in Status /\ TRUE \in BOOLEAN
        BY <3>1, Statuses
      <3>3. r = [p EXCEPT !.local = TRUE, !.actor = TRUE, !.status = x]
        BY <1>3, <3>1
      <3> QED BY <1>1, <3>2, <3>3 DEF Record
    <2>2. m \in Message
      BY <1>1, <1>2, <1>3 DEF Confirmation, Message, Record, PairingAssumption
    <2> QED BY <1>1, <1>3, <2>1, <2>2 DEF Record
  <1>6. /\ <<p.reg, p.from>> \in compared'[n]
        /\ compared' \in [Nodes -> SUBSET ((1 .. MaxRegistrations) \X (0 .. MaxRegistrations))]
        /\ \A k \in Nodes : k # n => compared'[k] = compared[k]
        /\ \A e \in compared'[n] : e \in compared[n] \/ e = <<p.reg, p.from>>
    <2>1. PICK c : c = <<p.reg, p.from>>
      OBVIOUS
    <2>2. c \in (1 .. MaxRegistrations) \X (0 .. MaxRegistrations)
      BY <1>1, <1>2, <2>1 DEF Record
    <2>3. compared' = [compared EXCEPT ![n] = @ \cup {c}] /\ compared \in [Nodes -> SUBSET ((1 .. MaxRegistrations) \X (0 .. MaxRegistrations))]
      BY <1>0, <1>4, <2>1 DEF PairingTypes
    <2> HIDE DEF Nodes
    <2> QED BY <2>1, <2>2, <2>3
  <1>7. PairingTypes'
    BY <1>0, <1>4, <1>5, <1>6 DEF PairingTypes
  <1>8. RecordOK(n, r)'
    <2>1. r.acc # 0 => Accepted(r.acc)'
      BY <1>1, <1>5 DEF RecordOK, Grows
    <2>2. PICK c : c = <<p.reg, p.from>>
      OBVIOUS
    <2>3. c \in compared'[n] /\ c[1] = p.reg /\ c[2] = p.from /\ p.reg \in Nat /\ p.reg # 0
      BY <1>2, <1>6, <2>2
    <2>4. CASE n = "host"
      <3>1. r.remote => \E e \in compared'["joiner"] : e[2] = 0 /\ e[1] <= r.reg
        BY <1>1, <1>5, <2>4 DEF RecordOK, Grows
      <3>2. \E e \in compared'["host"] : e[1] <= r.reg
        BY <1>5, <2>3, <2>4
      <3>3. Arrived(p.reg)'
        BY <1>1, <2>3, <2>4 DEF RecordOK, Grows
      <3> QED BY <1>0, <1>1, <1>4, <1>5, <2>1, <2>4, <3>1, <3>2, <3>3 DEF RecordOK
    <2>5. CASE n # "host"
      <3>1. n = "joiner"
        BY <2>5
      <3>2. \A e \in compared'["joiner"] : e \in compared["joiner"] \/ e = c
        BY <1>6, <2>2, <3>1
      <3>3. \A e \in compared'["joiner"] : e[1] <= r.reg /\ (r.from = 0 /\ e[2] = 0 => e[1] = r.reg)
        BY <1>1, <1>5, <2>3, <3>1, <3>2 DEF RecordOK
      <3> QED BY <1>0, <1>1, <1>5, <2>1, <2>3, <3>1, <3>3 DEF RecordOK
    <2> QED BY <2>4, <2>5
  <1>9. pairing'[n] = r /\ (\A k \in Nodes : k # n => pairing'[k] = pairing[k] /\ todo'[k] = todo[k])
    BY <1>0, <1>4 DEF PairingTypes
  <1>10. RecordOK(n, pairing[n])'
    BY <1>8, <1>9
  <1>11. Sent(n, m)' /\ m.type # "registration"
    BY <1>0, <1>3, <1>5, <1>6 DEF Sent, MessageOK, Confirmation, Other
  <1>12. todo'[n] \in Plans(r, m)
    <2>1. todo'[n] = <<Do("send", m), Just("read"), Just("ready")>>
      BY <1>0, <1>4 DEF PairingTypes
    <2> QED BY <2>1 DEF Plans
  <1>13. PlanOK(n)'
    BY <1>5, <1>8, <1>9, <1>11, <1>12 DEF PlanOK, Noted
  <1>14. ApprovedOnce'
    BY <1>4 DEF ApprovedOnce, PairingInv
  <1>15. \A a \in Acceptances : peers'["joiner"][a] # "none" => Accepted(a)'
    BY <1>4 DEF PairingInv, Grows
  <1>16. pairing'[n].reg = pairing[n].reg
    BY <1>1, <1>5, <1>9
  <1>17. compared'["host"] = compared["host"] \/ HostCompared'
    <2>1. CASE n = "host"
      <3>1. PICK c : c = <<p.reg, p.from>>
        OBVIOUS
      <3>2. c[1] = p.reg /\ c[2] = 0 /\ Arrived(p.reg)'
        BY <1>1, <1>2, <2>1, <3>1 DEF RecordOK, Grows
      <3>3. ASSUME NEW e \in compared["host"] PROVE e[2] = 0 /\ Arrived(e[1])'
        <4>1. PICK q : q = e[1]
          OBVIOUS
        <4>2. q \in Nat \ {0} /\ e[2] = 0 /\ Arrived(q)
          BY <3>3, <4>1 DEF PairingInv, PairingTypes, PairingAssumption, HostCompared
        <4> QED BY <4>1, <4>2 DEF Grows
      <3> QED BY <1>6, <2>1, <3>1, <3>2, <3>3 DEF HostCompared
    <2> QED BY <1>6, <2>1
  <1>18. n = "joiner" \/ compared'["joiner"] = compared["joiner"]
    BY <1>6
  <1> QED BY <1>4, <1>7, <1>9, <1>10, <1>13, <1>14, <1>15, <1>16, <1>17, <1>18, NodeStep

LEMMA CancelStep ==
    ASSUME PairingAssumption, PairingInv, Grows, NEW n \in Nodes, CancelPairing(n)
    PROVE  PairingInv'
  <1>0. PairingTypes /\ registrations \in Nat /\ registrations' = registrations
    BY DEF PairingInv, PairingTypes, CancelPairing, PairingAssumption
  <1>1. PICK p : p = pairing[n] /\ p \in Record /\ RecordOK(n, p)
    BY DEF PairingInv, RecordOK
  <1>3. PICK r, m : /\ r = [p EXCEPT !.status = "cancelled", !.actor = TRUE]
                    /\ m = Msg("cancelled", 0)
    OBVIOUS
  <1>4. /\ pairing' = [pairing EXCEPT ![n] = r]
        /\ todo' = [todo EXCEPT ![n] = <<Do("send", m)>>]
        /\ UNCHANGED <<mail, processed, invitation, registrations, approved, peers, late, faults, compared>>
    BY <1>1, <1>3 DEF CancelPairing, Notes, Goes
  <1>5. r \in Record /\ m \in Message /\ r.reg = p.reg /\ r.from = p.from /\ r.acc = p.acc /\ r.remote = p.remote /\ r.local = p.local
        /\ r.status = "cancelled"
    <2>1. r \in Record
      <3>1. "cancelled" \in Status /\ TRUE \in BOOLEAN
        BY Statuses
      <3> QED BY <1>1, <1>3, <3>1 DEF Record
    <2>2. m \in Message
      BY <1>3, MessageWith DEF PairingAssumption
    <2> QED BY <1>1, <1>3, <2>1, <2>2 DEF Record
  <1>7. PairingTypes'
    BY <1>0, <1>4, <1>5 DEF PairingTypes
  <1>8. RecordOK(n, r)'
    <2>1. RecordOK(n, p)'
      BY <1>0, <1>1, <1>4, RecordKept
    <2> QED BY <1>5, <2>1 DEF RecordOK
  <1>9. pairing'[n] = r /\ (\A k \in Nodes : k # n => pairing'[k] = pairing[k] /\ todo'[k] = todo[k])
    BY <1>0, <1>4 DEF PairingTypes
  <1>10. RecordOK(n, pairing[n])'
    BY <1>8, <1>9
  <1>11. Sent(n, m)' /\ m.type # "registration"
    BY <1>3, <1>5 DEF Sent, MessageOK, Msg
  <1>12. todo'[n] \in Plans(r, m)
    <2>1. todo'[n] = <<Do("send", m)>>
      BY <1>0, <1>4 DEF PairingTypes
    <2> QED BY <2>1 DEF Plans
  <1>13. PlanOK(n)'
    BY <1>5, <1>8, <1>9, <1>11, <1>12 DEF PlanOK, Noted
  <1>14. ApprovedOnce'
    BY <1>4 DEF ApprovedOnce, PairingInv
  <1>15. \A a \in Acceptances : peers'["joiner"][a] # "none" => Accepted(a)'
    BY <1>4 DEF PairingInv, Grows
  <1>16. pairing'[n].reg = pairing[n].reg
    BY <1>1, <1>5, <1>9
  <1> QED BY <1>4, <1>7, <1>9, <1>10, <1>13, <1>14, <1>15, <1>16, NodeStep

-----------------------------------------------------------------------------
(* The steps of an operation.                                               *)

LEMMA ProofOverStep ==
    ASSUME PairingAssumption, PairingInv, Grows, NEW n \in Nodes, ProofOver(n)
    PROVE  PairingInv'
  <1>0. PairingTypes /\ registrations \in Nat /\ registrations' = registrations
    BY DEF PairingInv, PairingTypes, ProofOver, PairingAssumption
  <1>1. PICK p : p = pairing[n] /\ p \in Record /\ RecordOK(n, p)
    BY DEF PairingInv, RecordOK
  <1>2. PICK r : r = [p EXCEPT !.actor = FALSE, !.status = "local-proof-required"]
    OBVIOUS
  <1>3. /\ pairing' = [pairing EXCEPT ![n] = r]
        /\ todo' = [todo EXCEPT ![n] = Tail(todo[n])]
        /\ UNCHANGED <<mail, processed, invitation, registrations, approved, peers, late, faults, compared>>
    BY <1>1, <1>2 DEF ProofOver, Notes, Goes
  <1>4. r \in Record /\ r.reg = p.reg /\ r.from = p.from /\ r.acc = p.acc /\ r.remote = p.remote /\ r.local = p.local
        /\ r.status = "local-proof-required"
    <2>1. "local-proof-required" \in Status
      BY Statuses
    <2> QED BY <1>1, <1>2, <2>1 DEF Record
  <1>5. PairingTypes'
    BY <1>0, <1>3, <1>4 DEF PairingTypes
  <1>6. RecordOK(n, r)'
    <2>1. RecordOK(n, p)'
      BY <1>0, <1>1, <1>3, RecordKept
    <2> QED BY <1>4, <2>1 DEF RecordOK
  <1>7. pairing'[n] = r /\ (\A k \in Nodes : k # n => pairing'[k] = pairing[k] /\ todo'[k] = todo[k])
    BY <1>0, <1>3 DEF PairingTypes
  <1>8. RecordOK(n, pairing[n])'
    BY <1>6, <1>7
  <1>9. todo'[n] \in {<<>>, <<Just("life")>>}
    <2>1. PICK q \in Record, m \in Message : todo[n] \in Plans(q, m)
      BY DEF PairingInv, PlanOK
    <2>2. todo[n] # <<>> /\ Head(todo[n]).do = "ready"
      BY DEF ProofOver, MayActivate, Doing
    <2>3. todo'[n] = Tail(todo[n])
      BY <1>0, <1>3 DEF PairingTypes
    <2> QED BY <2>1, <2>2, <2>3, PlanSteps
  <1>10. PlanOK(n)'
    BY <1>8, <1>9, QuietPlan
  <1>11. ApprovedOnce'
    BY <1>3 DEF ApprovedOnce, PairingInv
  <1>12. \A a \in Acceptances : peers'["joiner"][a] # "none" => Accepted(a)'
    BY <1>3 DEF PairingInv, Grows
  <1>13. pairing'[n].reg = pairing[n].reg
    BY <1>1, <1>4, <1>7
  <1> QED BY <1>3, <1>5, <1>7, <1>8, <1>10, <1>11, <1>12, <1>13, NodeStep

LEMMA NoteStep ==
    ASSUME PairingAssumption, PairingInv, Grows, NEW n \in Nodes, Note(n)
    PROVE  PairingInv'
  <1>0. PairingTypes /\ registrations \in Nat /\ registrations' = registrations
    BY DEF PairingInv, PairingTypes, Note, PairingAssumption
  <1>1. PICK q \in Record, m \in Message :
          /\ Noted(n, q) /\ Sent(n, m) /\ todo[n] \in Plans(q, m)
          /\ m.type = "registration" => q.reg = m.ref
    BY DEF PairingInv, PlanOK
  <1>2. PICK t : t = todo[n]
    OBVIOUS
  <1>3. t \in Plans(q, m) /\ t # <<>> /\ Head(t).do = "note"
    BY <1>1, <1>2 DEF Note, Doing
  <1>4. Head(t).arg = q /\ Tail(t) \in {<<>>, <<Just("life")>>, <<Do("send", m)>>, <<Do("send", m), Just("life")>>}
    BY <1>3, PlanSteps
  <1>5. /\ pairing' = [pairing EXCEPT ![n] = q]
        /\ todo' = [todo EXCEPT ![n] = Tail(t)]
        /\ UNCHANGED <<mail, processed, invitation, registrations, approved, peers, late, faults, compared>>
    BY <1>2, <1>4 DEF Note, Notes, Goes, Arg
  <1>6. PairingTypes'
    BY <1>0, <1>1, <1>5 DEF PairingTypes
  <1>7. pairing'[n] = q /\ (\A k \in Nodes : k # n => pairing'[k] = pairing[k] /\ todo'[k] = todo[k])
        /\ todo'[n] = Tail(t)
    BY <1>0, <1>5 DEF PairingTypes
  <1>8. RecordOK(n, q)'
    BY <1>0, <1>1, <1>5, RecordKept DEF Noted
  <1>9. RecordOK(n, pairing[n])'
    BY <1>7, <1>8
  <1>10. Sent(n, m)'
    <2>1. PICK k \in Nodes : k = Other(n)
      BY DEF Other
    <2>2. m.type # "registration" => MessageOK(k, m)'
      BY <1>0, <1>1, <2>1, MessageKept DEF Sent
    <2> QED BY <1>1, <1>5, <2>1, <2>2 DEF Sent
  <1>11. PlanOK(n)'
    <2>1. todo'[n] \in Plans(q, m)
      BY <1>4, <1>7 DEF Plans
    <2> QED BY <1>1, <1>7, <1>8, <1>10, <2>1 DEF PlanOK, Noted
  <1>12. ApprovedOnce'
    BY <1>5 DEF ApprovedOnce, PairingInv
  <1>13. \A a \in Acceptances : peers'["joiner"][a] # "none" => Accepted(a)'
    BY <1>5 DEF PairingInv, Grows
  <1>14. n = "host" => pairing'[n].reg = pairing[n].reg
    BY <1>1, <1>7 DEF Noted
  <1> QED BY <1>5, <1>6, <1>7, <1>9, <1>11, <1>12, <1>13, <1>14, NodeStep

LEMMA EndStep ==
    ASSUME PairingAssumption, PairingInv, Grows, NEW n \in Nodes, End(n)
    PROVE  PairingInv'
  <1>0. PairingTypes /\ registrations \in Nat /\ registrations' = registrations
    BY DEF PairingInv, PairingTypes, End, PairingAssumption
  <1>1. PICK p : p = pairing[n] /\ p \in Record /\ RecordOK(n, p)
    BY DEF PairingInv, RecordOK
  <1>2. PICK r : r \in Record /\ r.reg = p.reg /\ r.from = p.from /\ r.acc = p.acc /\ r.remote = p.remote /\ r.local = p.local
        /\ (r.status = p.status \/ (r.status = "replacement-required" /\ p.acc # 0)
                                \/ (r.status = "expired" /\ p.status # "none"))
        /\ pairing' = [pairing EXCEPT ![n] = r]
    <2>1. CASE UNCHANGED pairing
      <3>1. pairing' = [pairing EXCEPT ![n] = p]
        BY <1>0, <1>1, <2>1 DEF PairingTypes
      <3>2. PICK r : r = p
        OBVIOUS
      <3> QED BY <1>1, <3>1, <3>2
    <2>2. CASE Live(n)
      <3>1. PICK x : x = IF p.acc # 0 /\ peers[n][p.acc] = "revoked" THEN "replacement-required"
                         ELSE IF late /\ p.status \notin Terminal \cup {"none"} THEN "expired" ELSE p.status
        OBVIOUS
      <3>2. x = p.status \/ (x = "replacement-required" /\ p.acc # 0) \/ (x = "expired" /\ p.status # "none")
        BY <3>1
      <3>3. x \in Status
        BY <1>1, <3>2, Statuses DEF Record
      <3>4. PICK r : r = [p EXCEPT !.status = x]
        OBVIOUS
      <3>5. pairing' = [pairing EXCEPT ![n] = r]
        BY <1>1, <2>2, <3>1, <3>4 DEF Live, Notes
      <3>6. r \in Record /\ r.reg = p.reg /\ r.from = p.from /\ r.acc = p.acc /\ r.remote = p.remote /\ r.local = p.local /\ r.status = x
        BY <1>1, <3>3, <3>4 DEF Record
      <3> QED BY <3>2, <3>5, <3>6
    <2> QED BY <2>1, <2>2 DEF End
  <1>3. /\ todo' = [todo EXCEPT ![n] = <<>>]
        /\ UNCHANGED <<mail, processed, invitation, registrations, approved, peers, late, faults, compared>>
    BY DEF End, Goes
  <1>4. PairingTypes'
    BY <1>0, <1>2, <1>3 DEF PairingTypes
  <1>5. RecordOK(n, r)'
    <2>1. RecordOK(n, p)'
      BY <1>0, <1>1, <1>3, RecordKept
    <2> QED BY <1>2, <2>1 DEF RecordOK
  <1>6. pairing'[n] = r /\ todo'[n] = <<>> /\ (\A k \in Nodes : k # n => pairing'[k] = pairing[k] /\ todo'[k] = todo[k])
    BY <1>0, <1>2, <1>3 DEF PairingTypes
  <1>7. RecordOK(n, pairing[n])'
    BY <1>5, <1>6
  <1>8. PlanOK(n)'
    BY <1>6, <1>7, QuietPlan
  <1>9. ApprovedOnce'
    BY <1>3 DEF ApprovedOnce, PairingInv
  <1>10. \A a \in Acceptances : peers'["joiner"][a] # "none" => Accepted(a)'
    BY <1>3 DEF PairingInv, Grows
  <1>11. pairing'[n].reg = pairing[n].reg
    BY <1>1, <1>2, <1>6
  <1> QED BY <1>3, <1>4, <1>6, <1>7, <1>8, <1>9, <1>10, <1>11, NodeStep

\* Steps after which nothing is left of the operation, and the record is as it was.
LEMMA StoppedStep ==
    ASSUME PairingAssumption, PairingInv, Grows, NEW n \in Nodes, Fault(n) \/ (n = "host" /\ ApproveRefused)
    PROVE  PairingInv'
  <1>0. PairingTypes /\ registrations \in Nat /\ registrations' = registrations
    BY DEF PairingInv, PairingTypes, Fault, ApproveRefused, PairingAssumption
  <1>1. PICK p : p = pairing[n] /\ p \in Record /\ RecordOK(n, p)
    BY DEF PairingInv, RecordOK
  <1>2. /\ todo' = [todo EXCEPT ![n] = <<>>]
        /\ UNCHANGED <<pairing, mail, processed, invitation, registrations, approved, peers, late, compared>>
        /\ faults' \in 0 .. MaxFaults /\ faults <= faults'
    <2>1. faults \in 0 .. MaxFaults
      BY <1>0 DEF PairingTypes
    <2> QED BY <2>1 DEF Fault, ApproveRefused, Goes, PairingAssumption
  <1>3. PairingTypes'
    BY <1>0, <1>2 DEF PairingTypes
  <1>4. RecordOK(n, pairing[n])'
    <2>1. RecordOK(n, p)'
      BY <1>0, <1>1, <1>2, RecordKept
    <2> QED BY <1>1, <1>2, <2>1
  <1>5. todo'[n] = <<>> /\ (\A k \in Nodes : k # n => pairing'[k] = pairing[k] /\ todo'[k] = todo[k])
    BY <1>0, <1>2 DEF PairingTypes
  <1>6. PlanOK(n)'
    BY <1>4, <1>5, QuietPlan
  <1>7. ApprovedOnce'
    <2>1. Len(approved) \in Nat /\ faults \in Nat /\ faults' \in Nat
      BY <1>0, <1>2 DEF PairingTypes, PairingAssumption
    <2> QED BY <1>2, <2>1 DEF ApprovedOnce, PairingInv
  <1>8. \A a \in Acceptances : peers'["joiner"][a] # "none" => Accepted(a)'
    BY <1>2 DEF PairingInv, Grows
  <1> QED BY <1>2, <1>3, <1>4, <1>5, <1>6, <1>7, <1>8, NodeStep

LEMMA PassTimeStep ==
    ASSUME PairingAssumption, PairingInv, Grows, RunLate
    PROVE  PairingInv'
  <1>0. PairingTypes /\ registrations \in Nat
    BY DEF PairingInv, PairingTypes, PairingAssumption
  <1>1. UNCHANGED <<pairing, mail, processed, todo, invitation, registrations, approved, peers, faults, compared>>
        /\ late' = TRUE
    BY DEF RunLate
  <1>2. PairingTypes'
    BY <1>0, <1>1 DEF PairingTypes
  <1>3. RecordOK("host", pairing["host"])' /\ PlanOK("host")'
    BY <1>0, <1>1, NodeKept DEF PairingInv
  <1>4. ApprovedOnce'
    BY <1>1 DEF ApprovedOnce, PairingInv
  <1>5. \A a \in Acceptances : peers'["joiner"][a] # "none" => Accepted(a)'
    BY <1>1 DEF PairingInv, Grows
  <1> QED BY <1>1, <1>2, <1>3, <1>4, <1>5, NodeStep

LEMMA RevokePeerStep ==
    ASSUME PairingAssumption, PairingInv, Grows, NEW n \in Nodes, NEW a \in Acceptances, RevokePeer(n, a)
    PROVE  PairingInv'
  <1>0. PairingTypes /\ registrations \in Nat
    BY DEF PairingInv, PairingTypes, PairingAssumption
  <1>1. UNCHANGED <<pairing, mail, processed, todo, invitation, registrations, approved, late, faults, compared>>
        /\ peers' = [peers EXCEPT ![n] = [peers[n] EXCEPT ![a] = "revoked"]] /\ peers[n][a] = "active"
    BY DEF RevokePeer
  <1>2. peers' \in [Nodes -> [Acceptances -> {"none", "active", "revoked"}]]
        /\ \A k \in Nodes, b \in Acceptances : peers'[k][b] # "none" => peers[k][b] # "none"
    BY <1>0, <1>1 DEF PairingTypes
  <1>3. PairingTypes'
    BY <1>0, <1>1, <1>2 DEF PairingTypes
  <1>4. RecordOK("host", pairing["host"])' /\ PlanOK("host")'
    BY <1>0, <1>1, NodeKept DEF PairingInv
  <1>5. ApprovedOnce'
    BY <1>1 DEF ApprovedOnce, PairingInv
  <1>6. \A b \in Acceptances : peers'["joiner"][b] # "none" => Accepted(b)'
    BY <1>2 DEF PairingInv, Grows
  <1> QED BY <1>1, <1>3, <1>4, <1>5, <1>6, NodeStep

LEMMA ApproveStep ==
    ASSUME PairingAssumption, PairingInv, Grows, Approve
    PROVE  PairingInv'
  <1>0. PairingTypes /\ registrations \in Nat /\ registrations' = registrations
    BY DEF PairingInv, PairingTypes, Approve, PairingAssumption
  <1>1. PICK p : p = pairing["host"] /\ p \in Record /\ RecordOK("host", p)
    BY DEF PairingInv, RecordOK
  <1>2. PICK a : a = Len(approved) + 1
    OBVIOUS
  <1>3. a \in Acceptances /\ a \in Nat /\ a # 0 /\ Len(approved) = a - 1
    <2>1. Len(approved) \in Nat /\ Len(approved) <= faults /\ faults \in 0 .. MaxFaults
      BY <1>0 DEF PairingInv, ApprovedOnce, PairingTypes, Approve
    <2> QED BY <1>2, <2>1 DEF Acceptances, PairingAssumption
  <1>4. p.reg # 0 /\ p.reg \in 1 .. MaxRegistrations
    BY <1>1 DEF Approve, MayActivate, Record, PairingAssumption
  <1>5. PICK r, m : /\ r = [p EXCEPT !.acc = a, !.status = "active"]
                    /\ m = Msg("acceptance", a)
    OBVIOUS
  <1>6. /\ invitation' = "used" /\ approved' = Append(approved, p.reg)
        /\ peers' = [peers EXCEPT !["host"] = [peers["host"] EXCEPT ![a] = "active"]]
        /\ todo' = [todo EXCEPT !["host"] = <<Do("note", r), Do("send", m)>> \o Tail(todo["host"])]
        /\ UNCHANGED <<pairing, mail, processed, registrations, late, faults, compared>>
    BY <1>1, <1>2, <1>5 DEF Approve, Goes, Activated
  <1>7. r \in Record /\ m \in Message /\ r.reg = p.reg /\ r.from = p.from /\ r.acc = a /\ r.remote = p.remote /\ r.local = p.local
        /\ r.status = "active" /\ m.type = "acceptance" /\ m.ref = a
    <2>1. "active" \in Status
      BY Statuses
    <2>2. r \in Record /\ r.reg = p.reg /\ r.from = p.from /\ r.acc = a /\ r.remote = p.remote /\ r.local = p.local
        /\ r.status = "active"
      BY <1>1, <1>3, <1>5, <2>1 DEF Record
    <2>3. a \in 0 .. MaxRegistrations + MaxFaults + 1
      BY <1>3 DEF Acceptances, PairingAssumption
    <2> QED BY <1>5, <2>2, <2>3, MessageWith
  <1>8. /\ peers' \in [Nodes -> [Acceptances -> {"none", "active", "revoked"}]]
        /\ peers'["host"][a] = "active" /\ peers'["joiner"] = peers["joiner"]
    BY <1>0, <1>3, <1>6 DEF PairingTypes
  <1>9. approved' \in Seq(1 .. MaxRegistrations) /\ Len(approved') = a
    BY <1>0, <1>3, <1>4, <1>6 DEF PairingTypes
  <1>10. PairingTypes'
    BY <1>0, <1>6, <1>8, <1>9 DEF PairingTypes
  <1>11. Accepted(a)'
    BY <1>3, <1>6, <1>8, <1>9 DEF Accepted
  <1>12. RecordOK("host", p)'
    BY <1>0, <1>1, <1>4, RecordKept
  <1>13. RecordOK("host", pairing["host"])'
    BY <1>1, <1>6, <1>12
  <1>14. RecordOK("host", r)'
    BY <1>3, <1>7, <1>11, <1>12 DEF RecordOK
  <1>15. Sent("host", m)'
    BY <1>7, <1>11 DEF Sent, MessageOK, Other
  <1>16. /\ todo'["host"] \in Plans(r, m) /\ todo'["joiner"] = todo["joiner"]
    <2>1. PICK q \in Record, k \in Message : todo["host"] \in Plans(q, k)
      BY DEF PairingInv, PlanOK
    <2>2. todo["host"] # <<>> /\ Head(todo["host"]).do = "ready"
      BY DEF Approve, MayActivate, Doing
    <2>3. Tail(todo["host"]) \in {<<>>, <<Just("life")>>}
      BY <2>1, <2>2, PlanSteps
    <2>4. todo'["host"] = <<Do("note", r), Do("send", m)>> \o Tail(todo["host"]) /\ todo'["joiner"] = todo["joiner"]
      BY <1>0, <1>6 DEF PairingTypes
    <2>5. CASE Tail(todo["host"]) = <<>>
      <3>1. <<Do("note", r), Do("send", m)>> \o <<>> = <<Do("note", r), Do("send", m)>>
        BY Longer
      <3>2. todo'["host"] = <<Do("note", r), Do("send", m)>>
        BY <2>4, <2>5, <3>1, Zenon
      <3> QED BY <2>4, <3>2 DEF Plans
    <2>6. CASE Tail(todo["host"]) = <<Just("life")>>
      <3>1. <<Do("note", r), Do("send", m)>> \o <<Just("life")>> = <<Do("note", r), Do("send", m), Just("life")>>
        BY Longer
      <3>2. todo'["host"] = <<Do("note", r), Do("send", m), Just("life")>>
        BY <2>4, <2>6, <3>1, Zenon
      <3> QED BY <2>4, <3>2 DEF Plans
    <2> QED BY <2>3, <2>5, <2>6
  <1>17. PlanOK("host")'
    BY <1>1, <1>6, <1>7, <1>14, <1>15, <1>16 DEF PlanOK, Noted
  <1>18. ApprovedOnce'
    <2>1. Len(approved) <= faults /\ faults \in Nat
      BY <1>0 DEF PairingInv, ApprovedOnce, PairingTypes, Approve, PairingAssumption
    <2> QED BY <1>3, <1>6, <1>9, <2>1 DEF ApprovedOnce
  <1>19. \A b \in Acceptances : peers'["joiner"][b] # "none" => Accepted(b)'
    BY <1>8 DEF PairingInv, Grows
  <1>20. \A k \in Nodes : k # "host" => pairing'[k] = pairing[k] /\ todo'[k] = todo[k]
    BY <1>6, <1>16
  <1> QED BY <1>6, <1>10, <1>13, <1>17, <1>18, <1>19, <1>20, NodeStep

LEMMA ApproveTornStep ==
    ASSUME PairingAssumption, PairingInv, Grows, ApproveTorn
    PROVE  PairingInv'
  <1>0. PairingTypes /\ registrations \in Nat /\ registrations' = registrations
    BY DEF PairingInv, PairingTypes, ApproveTorn, PairingAssumption
  <1>1. PICK p : p = pairing["host"] /\ p \in Record /\ RecordOK("host", p)
    BY DEF PairingInv, RecordOK
  <1>2. PICK a : a = Len(approved) + 1
    OBVIOUS
  <1>3. a \in Acceptances /\ a \in Nat /\ a # 0 /\ Len(approved) = a - 1
    <2>1. Len(approved) \in Nat /\ Len(approved) <= faults /\ faults \in 0 .. MaxFaults
      BY <1>0 DEF PairingInv, ApprovedOnce, PairingTypes, ApproveTorn
    <2> QED BY <1>2, <2>1 DEF Acceptances, PairingAssumption
  <1>4. p.reg # 0 /\ p.reg \in 1 .. MaxRegistrations
    BY <1>1 DEF ApproveTorn, MayActivate, Record, PairingAssumption
  <1>6. /\ invitation' \in {"open", "used"} /\ approved' = Append(approved, p.reg)
        /\ (peers' = peers \/ peers' = [peers EXCEPT !["host"] = [peers["host"] EXCEPT ![a] = "active"]])
        /\ todo' = [todo EXCEPT !["host"] = <<>>]
        /\ faults < MaxFaults /\ faults' = faults + 1
        /\ UNCHANGED <<pairing, mail, processed, registrations, late, compared>>
    BY <1>1, <1>2 DEF ApproveTorn, Goes
  <1>8. /\ peers' \in [Nodes -> [Acceptances -> {"none", "active", "revoked"}]]
        /\ peers'["joiner"] = peers["joiner"]
    <2>1. peers \in [Nodes -> [Acceptances -> {"none", "active", "revoked"}]]
      BY <1>0 DEF PairingTypes
    <2>2. CASE peers' = peers
      BY <2>1, <2>2
    <2>3. CASE peers' = [peers EXCEPT !["host"] = [peers["host"] EXCEPT ![a] = "active"]]
      BY <1>3, <2>1, <2>3
    <2> QED BY <1>6, <2>2, <2>3
  <1>9. approved' \in Seq(1 .. MaxRegistrations) /\ Len(approved') = a /\ faults \in Nat /\ faults' \in 0 .. MaxFaults
    BY <1>0, <1>3, <1>4, <1>6 DEF PairingTypes, PairingAssumption
  <1>10. PairingTypes'
    BY <1>0, <1>6, <1>8, <1>9 DEF PairingTypes
  <1>12. RecordOK("host", p)'
    BY <1>0, <1>1, <1>4, RecordKept
  <1>13. RecordOK("host", pairing["host"])'
    BY <1>1, <1>6, <1>12
  <1>16. /\ todo'["host"] = <<>> /\ todo'["joiner"] = todo["joiner"]
    BY <1>0, <1>6 DEF PairingTypes
  <1>17. PlanOK("host")'
    BY <1>13, <1>16, QuietPlan
  <1>18. ApprovedOnce'
    <2>1. Len(approved) <= faults
      BY DEF PairingInv, ApprovedOnce, ApproveTorn
    <2> QED BY <1>3, <1>6, <1>9, <2>1 DEF ApprovedOnce
  <1>19. \A b \in Acceptances : peers'["joiner"][b] # "none" => Accepted(b)'
    BY <1>8 DEF PairingInv, Grows
  <1>20. \A k \in Nodes : k # "host" => pairing'[k] = pairing[k] /\ todo'[k] = todo[k]
    BY <1>6, <1>16
  <1> QED BY <1>6, <1>10, <1>13, <1>17, <1>18, <1>19, <1>20, NodeStep

LEMMA ActivateStep ==
    ASSUME PairingAssumption, PairingInv, Grows, Activate
    PROVE  PairingInv'
  <1>0. PairingTypes /\ registrations \in Nat /\ registrations' = registrations
    BY DEF PairingInv, PairingTypes, Activate, PairingAssumption
  <1>1. PICK p : p = pairing["joiner"] /\ p \in Record /\ RecordOK("joiner", p)
    BY DEF PairingInv, RecordOK
  <1>2. PICK a : a = p.acc
    OBVIOUS
  <1>3. a \in Acceptances /\ a # 0 /\ Accepted(a)
    BY <1>1, <1>2 DEF Activate, MayActivate, Record, RecordOK
  <1>5. PICK r : r = [p EXCEPT !.acc = a, !.status = "active"]
    OBVIOUS
  <1>6. /\ peers' = [peers EXCEPT !["joiner"] = [peers["joiner"] EXCEPT ![a] = "active"]]
        /\ todo' = [todo EXCEPT !["joiner"] = <<Do("note", r)>> \o Tail(todo["joiner"])]
        /\ UNCHANGED <<pairing, mail, processed, invitation, registrations, approved, late, faults, compared>>
    BY <1>1, <1>2, <1>5 DEF Activate, Goes, Activated
  <1>7. r \in Record /\ r.reg = p.reg /\ r.from = p.from /\ r.acc = a /\ r.remote = p.remote /\ r.local = p.local
    <2>1. "active" \in Status
      BY Statuses
    <2> QED BY <1>1, <1>3, <1>5, <2>1 DEF Record
  <1>8. /\ peers' \in [Nodes -> [Acceptances -> {"none", "active", "revoked"}]]
        /\ \A b \in Acceptances : b # a => peers'["joiner"][b] = peers["joiner"][b]
    BY <1>0, <1>3, <1>6 DEF PairingTypes
  <1>10. PairingTypes'
    BY <1>0, <1>6, <1>8 DEF PairingTypes
  <1>11. Accepted(a)'
    BY <1>3 DEF Grows
  <1>12. RecordOK("joiner", p)'
    BY <1>0, <1>1, <1>6, RecordKept
  <1>13. RecordOK("joiner", pairing["joiner"])'
    BY <1>1, <1>6, <1>12
  <1>14. RecordOK("joiner", r)'
    BY <1>3, <1>7, <1>11, <1>12 DEF RecordOK
  <1>15. PICK m : m = Msg("lost", 0)
    OBVIOUS
  <1>16. m \in Message /\ Sent("joiner", m)' /\ m.type # "registration"
    <2>1. m \in Message /\ m.type = "lost"
      BY <1>15, MessageWith DEF PairingAssumption
    <2> QED BY <2>1 DEF Sent, MessageOK
  <1>17. /\ todo'["joiner"] \in Plans(r, m) /\ todo'["host"] = todo["host"]
    <2>1. PICK q \in Record, k \in Message : todo["joiner"] \in Plans(q, k)
      BY DEF PairingInv, PlanOK
    <2>2. todo["joiner"] # <<>> /\ Head(todo["joiner"]).do = "ready"
      BY DEF Activate, MayActivate, Doing
    <2>3. Tail(todo["joiner"]) \in {<<>>, <<Just("life")>>}
      BY <2>1, <2>2, PlanSteps
    <2>4. todo'["joiner"] = <<Do("note", r)>> \o Tail(todo["joiner"]) /\ todo'["host"] = todo["host"]
      BY <1>0, <1>6 DEF PairingTypes
    <2>5. CASE Tail(todo["joiner"]) = <<>>
      <3>1. <<Do("note", r)>> \o <<>> = <<Do("note", r)>>
        BY Longer
      <3>2. todo'["joiner"] = <<Do("note", r)>>
        BY <2>4, <2>5, <3>1, Zenon
      <3> QED BY <2>4, <3>2 DEF Plans
    <2>6. CASE Tail(todo["joiner"]) = <<Just("life")>>
      <3>1. <<Do("note", r)>> \o <<Just("life")>> = <<Do("note", r), Just("life")>>
        BY Longer
      <3>2. todo'["joiner"] = <<Do("note", r), Just("life")>>
        BY <2>4, <2>6, <3>1, Zenon
      <3> QED BY <2>4, <3>2 DEF Plans
    <2> QED BY <2>3, <2>5, <2>6
  <1>18. PlanOK("joiner")'
    BY <1>1, <1>6, <1>7, <1>14, <1>16, <1>17 DEF PlanOK, Noted
  <1>19. ApprovedOnce'
    BY <1>6 DEF ApprovedOnce, PairingInv
  <1>20. \A b \in Acceptances : peers'["joiner"][b] # "none" => Accepted(b)'
    BY <1>8, <1>11 DEF PairingInv, Grows
  <1>21. \A k \in Nodes : k # "joiner" => pairing'[k] = pairing[k] /\ todo'[k] = todo[k]
    BY <1>6, <1>17
  <1> QED BY <1>6, <1>10, <1>13, <1>18, <1>19, <1>20, <1>21, NodeStep

-----------------------------------------------------------------------------
(* The mail.                                                                *)

LEMMA MailKept ==
    ASSUME PairingInv, Grows, PairingAssumption, NEW n \in Nodes, NEW i \in 1 .. Len(mail[n]), registrations' \in Nat
    PROVE  MessageOK(n, mail[n][i])' \/ mail'[n][i] # mail[n][i]
  <1>1. PICK m : m = mail[n][i]
    OBVIOUS
  <1>2. MessageOK(n, m) /\ registrations \in Nat
    BY <1>1 DEF PairingInv, MailOK, PairingTypes, PairingAssumption
  <1>3. MessageOK(n, m)'
    BY <1>2, MessageKept
  <1> QED BY <1>1, <1>3

LEMMA SendStep ==
    ASSUME PairingAssumption, PairingInv, Grows, NEW n \in Nodes, Send(n)
    PROVE  PairingInv'
  <1>0. PairingTypes /\ registrations \in Nat /\ registrations' = registrations
    BY DEF PairingInv, PairingTypes, Send, PairingAssumption
  <1>1. PICK q \in Record, m \in Message :
          /\ Noted(n, q) /\ Sent(n, m) /\ todo[n] \in Plans(q, m)
          /\ m.type = "registration" => q.reg = m.ref /\ (Doing(n, "note") \/ q.reg = pairing[n].reg)
    BY DEF PairingInv, PlanOK
  <1>2. PICK t : t = todo[n]
    OBVIOUS
  <1>3. t \in Plans(q, m) /\ t # <<>> /\ Head(t).do = "send"
    BY <1>1, <1>2 DEF Send, Doing
  <1>4. Head(t).arg = m /\ Tail(t) \in {<<>>, <<Just("life")>>, <<Just("read"), Just("ready")>>}
    BY <1>3, PlanSteps
  <1>5. PICK o \in Nodes : o = Other(n)
    BY DEF Other
  <1>6. /\ todo' = [todo EXCEPT ![n] = Tail(t)]
        /\ mail' = [mail EXCEPT ![o] = Append(mail[o], m)]
        /\ UNCHANGED <<pairing, processed, invitation, registrations, approved, peers, late, faults, compared>>
    BY <1>2, <1>4, <1>5 DEF Send, Goes, Arg
  <1>7. /\ mail' \in [Nodes -> Seq(Message)]
        /\ mail[o] \in Seq(Message) /\ mail'[o] = Append(mail[o], m)
        /\ \A k \in Nodes : k # o => mail'[k] = mail[k]
    BY <1>0, <1>1, <1>6 DEF PairingTypes
  <1>8. /\ Len(mail'[o]) = Len(mail[o]) + 1 /\ Len(mail[o]) \in Nat
        /\ mail'[o][Len(mail[o]) + 1] = m
        /\ \A i \in 1 .. Len(mail[o]) : mail'[o][i] = mail[o][i]
    BY <1>1, <1>7
  <1>9. PairingTypes'
    <2>1. \A k \in Nodes : processed'[k] <= Len(mail'[k])
      BY <1>0, <1>6, <1>7, <1>8 DEF PairingTypes
    <2> QED BY <1>0, <1>6, <1>7, <2>1 DEF PairingTypes
  <1>10. \A k \in Nodes : RecordOK(k, pairing[k])' /\ (k # n => PlanOK(k)')
    <2>1. ASSUME NEW k \in Nodes PROVE RecordOK(k, pairing[k])'
      <3>1. PICK p : p = pairing[k] /\ RecordOK(k, p)
        BY DEF PairingInv
      <3>2. RecordOK(k, p)'
        BY <1>0, <1>6, <3>1, RecordKept
      <3> QED BY <1>6, <3>1, <3>2
    <2>2. ASSUME NEW k \in Nodes, k # n PROVE PlanOK(k)'
      <3>1. todo'[k] = todo[k]
        BY <1>0, <1>6, <2>2 DEF PairingTypes
      <3> QED BY <1>0, <1>6, <3>1, NodeKept DEF PairingInv
    <2> QED BY <2>1, <2>2
  <1>11. PlanOK(n)'
    <2>1. todo'[n] = Tail(t)
      BY <1>0, <1>6 DEF PairingTypes
    <2> QED BY <1>4, <1>10, <2>1, QuietPlan
  <1>12. MessageOK(o, m)'
    <2>1. CASE m.type # "registration"
      BY <1>0, <1>1, <1>5, <2>1, MessageKept DEF Sent
    <2>2. CASE m.type = "registration"
      <3>1. n = "joiner" /\ m.ref = registrations /\ m.ref \in Nat \ {0} /\ m.ref \in 1 .. registrations'
        BY <1>0, <1>1, <2>2 DEF Sent
      <3>2. m.ref = pairing["joiner"].reg
        BY <1>1, <1>2, <1>3, <2>2, <3>1 DEF Doing
      <3>3. Arrived(m.ref)
        BY <3>1, <3>2 DEF Arrived, PairingInv, RecordOK
      <3>4. Arrived(m.ref)'
        BY <3>1, <3>3 DEF Grows
      <3> QED BY <1>1, <1>5, <2>2, <3>1, <3>4 DEF MessageOK, Other
    <2> QED BY <2>1, <2>2
  <1>13. MailOK'
    <2>1. ASSUME NEW k \in Nodes, NEW i \in 1 .. Len(mail'[k]) PROVE MessageOK(k, mail[k][i])'
      <3>1. CASE i \in 1 .. Len(mail[k])
        <4>1. mail'[k][i] = mail[k][i]
          BY <1>7, <1>8, <3>1
        <4> QED BY <1>0, <3>1, <4>1, MailKept
      <3>2. CASE i \notin 1 .. Len(mail[k])
        <4>1. k = o /\ i = Len(mail[o]) + 1
          BY <1>7, <1>8, <3>2
        <4> QED BY <1>8, <1>12, <4>1
      <3> QED BY <3>1, <3>2
    <2> QED BY <2>1 DEF MailOK
  <1>14. InOrder'
    <2>1. CASE o # "host"
      <3>1. mail'["host"] = mail["host"]
        BY <1>7, <2>1
      <3>2. InOrder
        BY DEF PairingInv
      <3>3. processed' = processed /\ pairing' = pairing
        BY <1>6
      <3> QED BY <3>1, <3>2, <3>3 DEF InOrder
    <2>2. CASE o = "host"
      <3>1. PICK l, g, h, d, reg, top :
              /\ l = Len(mail["host"]) /\ g = mail'["host"] /\ h = mail["host"] /\ d = processed["host"]
              /\ reg = pairing["host"].reg /\ top = registrations
        OBVIOUS
      <3>2. /\ l \in Nat /\ d \in Nat /\ top \in Nat /\ Len(g) = l + 1 /\ g[l + 1] = m
            /\ (\A i \in 1 .. l : g[i] = h[i]) /\ processed' = processed /\ pairing' = pairing
        BY <1>0, <1>6, <1>8, <2>2, <3>1 DEF PairingTypes
      <3>3. \A i \in 1 .. l : h[i].type = "registration" => h[i].ref \in 1 .. top
        BY <3>1 DEF PairingInv, MailOK, MessageOK
      <3>4. (m.type = "registration" => m.ref = top) /\ reg <= top
        BY <1>1, <3>1 DEF Sent, PairingInv, RecordOK
      <3>5. \A i \in d + 1 .. l : h[i].type = "registration" =>
              /\ reg <= h[i].ref
              /\ \A j \in i .. l : h[j].type = "registration" => h[i].ref <= h[j].ref
        BY <3>1 DEF InOrder, PairingInv
      <3>6. ASSUME NEW i \in d + 1 .. l + 1, g[i].type = "registration"
            PROVE  /\ reg <= g[i].ref
                   /\ \A j \in i .. l + 1 : g[j].type = "registration" => g[i].ref <= g[j].ref
        <4>1. CASE i = l + 1
          BY <3>2, <3>4, <3>6, <4>1
        <4>2. CASE i # l + 1
          <5>1. i \in d + 1 .. l /\ i \in 1 .. l /\ g[i] = h[i]
            BY <3>2, <4>2
          <5>2. /\ reg <= g[i].ref /\ g[i].ref <= top
                /\ \A j \in i .. l : h[j].type = "registration" => g[i].ref <= h[j].ref
            BY <3>3, <3>5, <3>6, <5>1
          <5>3. ASSUME NEW j \in i .. l + 1, g[j].type = "registration" PROVE g[i].ref <= g[j].ref
            <6>1. CASE j = l + 1
              BY <3>2, <3>4, <5>2, <5>3, <6>1
            <6>2. CASE j # l + 1
              <7>1. j \in i .. l /\ j \in 1 .. l /\ g[j] = h[j]
                BY <3>2, <5>1, <6>2
              <7> QED BY <5>2, <5>3, <7>1
            <6> QED BY <6>1, <6>2
          <5> QED BY <5>2, <5>3
        <4> QED BY <4>1, <4>2
      <3> QED BY <3>1, <3>2, <3>6 DEF InOrder
    <2> QED BY <2>1, <2>2
  <1>15. ApprovedOnce'
    BY <1>6 DEF ApprovedOnce, PairingInv
  <1>16. \A b \in Acceptances : peers'["joiner"][b] # "none" => Accepted(b)'
    BY <1>6 DEF PairingInv, Grows
  <1>17. HostCompared'
    BY <1>6, HostComparedKept
  <1> QED BY <1>9, <1>10, <1>11, <1>13, <1>14, <1>15, <1>16, <1>17 DEF PairingInv

LEMMA LoseStep ==
    ASSUME PairingAssumption, PairingInv, Grows, NEW n \in Nodes, Lose(n)
    PROVE  PairingInv'
  <1>0. PairingTypes /\ registrations \in Nat /\ registrations' = registrations
    BY DEF PairingInv, PairingTypes, Lose, PairingAssumption
  <1>1. PICK m : m = Msg("lost", 0)
    OBVIOUS
  <1>2. m \in Message /\ m.type = "lost"
    BY <1>1, MessageWith DEF PairingAssumption
  <1>3. PICK x \in processed[n] + 1 .. Len(mail[n]) :
          /\ mail' = [mail EXCEPT ![n] = [mail[n] EXCEPT ![x] = m]]
          /\ faults < MaxFaults /\ faults' = faults + 1
          /\ UNCHANGED <<pairing, processed, todo, invitation, registrations, approved, peers, late, compared>>
    BY <1>1 DEF Lose
  <1>4. /\ mail' \in [Nodes -> Seq(Message)] /\ mail[n] \in Seq(Message)
        /\ mail'[n] = [mail[n] EXCEPT ![x] = m]
        /\ \A k \in Nodes : k # n => mail'[k] = mail[k]
    <2>1. mail \in [Nodes -> Seq(Message)] /\ mail[n] \in Seq(Message) /\ processed[n] \in Nat
      BY <1>0 DEF PairingTypes
    <2>2. x \in 1 .. Len(mail[n])
      BY <2>1
    <2>3. [mail[n] EXCEPT ![x] = m] \in Seq(Message)
      BY <1>2, <2>1, <2>2, ExceptSeq
    <2> QED BY <1>3, <2>1, <2>3
  <1>5. /\ Len(mail'[n]) = Len(mail[n])
        /\ \A i \in 1 .. Len(mail[n]) : mail'[n][i] = IF i = x THEN m ELSE mail[n][i]
    BY <1>4
  <1>6. PairingTypes' /\ ApprovedOnce'
    <2>1. \A k \in Nodes : processed'[k] <= Len(mail'[k])
      BY <1>0, <1>3, <1>4, <1>5 DEF PairingTypes
    <2>2. faults \in Nat /\ faults' \in 0 .. MaxFaults /\ Len(approved) \in Nat
      BY <1>0, <1>3 DEF PairingTypes, PairingAssumption
    <2> QED BY <1>0, <1>3, <1>4, <2>1, <2>2 DEF PairingTypes, ApprovedOnce, PairingInv
  <1>7. \A k \in Nodes : RecordOK(k, pairing[k])' /\ PlanOK(k)'
    BY <1>0, <1>3, NodeKept DEF PairingInv
  <1>8. MailOK'
    <2>1. ASSUME NEW k \in Nodes, NEW i \in 1 .. Len(mail'[k]) PROVE MessageOK(k, mail[k][i])'
      <3>1. CASE mail'[k][i] = mail[k][i]
        BY <1>0, <1>4, <1>5, <3>1, MailKept
      <3>2. CASE mail'[k][i] # mail[k][i]
        <4>1. mail'[k][i] = m
          BY <1>4, <1>5, <3>2
        <4> QED BY <1>2, <4>1 DEF MessageOK
      <3> QED BY <3>1, <3>2
    <2> QED BY <2>1 DEF MailOK
  <1>9. InOrder'
    <2>1. \A i \in 1 .. Len(mail["host"]) : mail'["host"][i].type = "registration" => mail'["host"][i] = mail["host"][i]
      BY <1>2, <1>4, <1>5
    <2>2. Len(mail'["host"]) = Len(mail["host"]) /\ processed["host"] \in Nat /\ Len(mail["host"]) \in Nat
      BY <1>0, <1>4, <1>5 DEF PairingTypes
    <2>3. InOrder /\ processed' = processed /\ pairing' = pairing
      BY <1>3 DEF PairingInv
    <2>4. PICK g, h, d, reg, l :
             /\ g = mail'["host"] /\ h = mail["host"] /\ d = processed["host"] /\ d \in Nat
             /\ reg = pairing["host"].reg /\ l = Len(h) /\ l = Len(g)
      BY <2>2
    <2>5. \A i \in 1 .. l : g[i].type = "registration" => g[i] = h[i]
      BY <2>1, <2>2, <2>4
    <2>6. \A i \in d + 1 .. l : h[i].type = "registration" =>
             /\ reg <= h[i].ref
             /\ \A j \in i .. l : h[j].type = "registration" => h[i].ref <= h[j].ref
      BY <2>3, <2>4 DEF InOrder
    <2>7. ASSUME NEW i \in d + 1 .. l, g[i].type = "registration"
          PROVE  /\ reg <= g[i].ref
                 /\ \A j \in i .. l : g[j].type = "registration" => g[i].ref <= g[j].ref
      <3>1. l \in Nat /\ d \in Nat /\ i \in 1 .. l /\ \A j \in i .. l : j \in 1 .. l
        BY <2>2, <2>4
      <3>2. g[i] = h[i] /\ \A j \in i .. l : g[j].type = "registration" => g[j] = h[j]
        BY <2>5, <2>7, <3>1
      <3> QED BY <2>6, <2>7, <3>2
    <2> QED BY <2>3, <2>4, <2>7 DEF InOrder
  <1>10. \A b \in Acceptances : peers'["joiner"][b] # "none" => Accepted(b)'
    BY <1>3 DEF PairingInv, Grows
  <1>11. HostCompared'
    BY <1>3, HostComparedKept
  <1> QED BY <1>6, <1>7, <1>8, <1>9, <1>10, <1>11 DEF PairingInv

-----------------------------------------------------------------------------
(* Reading the mail.                                                        *)

LEMMA ReconcileStep ==
    ASSUME PairingAssumption, PairingInv, Grows, NEW n \in Nodes, Read(n) \/ Poll(n)
    PROVE  PairingInv'
  <1>0. PairingTypes /\ registrations \in Nat /\ registrations' \in Nat
    <2>1. PairingTypes
      BY DEF PairingInv
    <2>2. registrations' = registrations
      BY DEF Read, Poll, Reconcile
    <2> QED BY <2>1, <2>2 DEF PairingTypes, PairingAssumption
  <1>1. PICK next : /\ Reconcile(n, next)
                    /\ next \in {<<Just("ready")>>, <<Just("ready"), Just("life")>>}
    <2>1. CASE Poll(n)
      BY <2>1 DEF Poll
    <2>2. CASE Read(n)
      <3>1. PICK q \in Record, m \in Message : todo[n] \in Plans(q, m)
        BY DEF PairingInv, PlanOK
      <3>2. todo[n] # <<>> /\ Head(todo[n]).do = "read"
        BY <2>2 DEF Read, Doing
      <3>3. Tail(todo[n]) = <<Just("ready")>>
        BY <3>1, <3>2, PlanSteps
      <3> QED BY <2>2, <3>3 DEF Read
    <2> QED BY <2>1, <2>2
  <1>2. PICK s : s = SubSeq(mail[n], processed[n] + 1, Len(mail[n]))
    OBVIOUS
  <1>3. PICK r : r = Batch(pairing[n], s).record
    OBVIOUS
  <1>4. RecordOK(n, r) /\ (n = "joiner" => r.reg = pairing[n].reg /\ r.from = pairing[n].from)
    BY <1>2, <1>3, ReadRecord
  <1>5. UNCHANGED <<mail, invitation, registrations, approved, peers, late, faults, compared>>
    BY <1>1 DEF Reconcile
  <1>6. \/ /\ pairing' = [pairing EXCEPT ![n] = r] /\ todo' = [todo EXCEPT ![n] = next]
           /\ processed' = [processed EXCEPT ![n] = Len(mail[n])]
        \/ todo' = [todo EXCEPT ![n] = <<>>] /\ UNCHANGED <<pairing, processed>>
    BY <1>1, <1>2, <1>3 DEF Reconcile, Notes, Goes
  <1>7. PICK p : p = pairing[n] /\ RecordOK(n, p) /\ p \in Record
    BY DEF PairingInv, RecordOK
  <1>8. /\ pairing' \in [Nodes -> Record] /\ processed' \in [Nodes -> Nat] /\ DOMAIN todo' = Nodes
        /\ \A k \in Nodes : processed'[k] <= Len(mail[k])
        /\ pairing'[n] \in {p, r} /\ todo'[n] \in {next, <<>>}
        /\ \A k \in Nodes : k # n => pairing'[k] = pairing[k] /\ todo'[k] = todo[k] /\ processed'[k] = processed[k]
        /\ (pairing'[n] = r /\ processed'[n] = Len(mail[n])) \/ (pairing'[n] = p /\ processed'[n] = processed[n])
    <2>1. /\ r \in Record /\ pairing \in [Nodes -> Record] /\ processed \in [Nodes -> Nat] /\ DOMAIN todo = Nodes
          /\ \A k \in Nodes : Len(mail[k]) \in Nat /\ processed[k] <= Len(mail[k])
      BY <1>0, <1>4 DEF PairingTypes, RecordOK
    <2>2. CASE /\ pairing' = [pairing EXCEPT ![n] = r] /\ todo' = [todo EXCEPT ![n] = next]
               /\ processed' = [processed EXCEPT ![n] = Len(mail[n])]
      BY <2>1, <2>2
    <2>3. CASE todo' = [todo EXCEPT ![n] = <<>>] /\ UNCHANGED <<pairing, processed>>
      BY <1>7, <2>1, <2>3
    <2> QED BY <1>6, <2>2, <2>3
  <1>9. PairingTypes'
    BY <1>0, <1>5, <1>8 DEF PairingTypes
  <1>10. ASSUME NEW k \in Nodes PROVE RecordOK(k, pairing[k])' /\ PlanOK(k)'
    <2>1. CASE k # n
      BY <1>0, <1>5, <1>8, <2>1, NodeKept DEF PairingInv
    <2>2. CASE k = n
      <3>1. RecordOK(n, p)' /\ RecordOK(n, r)'
        BY <1>0, <1>4, <1>5, <1>7, RecordKept
      <3>2. RecordOK(n, pairing[n])'
        BY <1>8, <3>1
      <3>3. PlanOK(n)'
        BY <1>1, <1>8, <3>2, QuietPlan
      <3> QED BY <2>2, <3>2, <3>3
    <2> QED BY <2>1, <2>2
  <1>11. MailOK'
    <2>1. ASSUME NEW k \in Nodes, NEW i \in 1 .. Len(mail[k]) PROVE MessageOK(k, mail[k][i])'
      BY <1>0, <1>5, MailKept
    <2> QED BY <1>5, <2>1 DEF MailOK
  <1>12. InOrder'
    <2>1. CASE pairing'["host"] = pairing["host"] /\ processed'["host"] = processed["host"]
      <3>1. InOrder
        BY DEF PairingInv
      <3> QED BY <1>5, <2>1, <3>1 DEF InOrder
    <2>2. CASE processed'["host"] = Len(mail["host"])
      <3>1. Len(mail["host"]) \in Nat
        BY <1>0 DEF PairingTypes
      <3>2. processed'["host"] + 1 .. Len(mail'["host"]) = {}
        BY <1>5, <2>2, <3>1
      <3> QED BY <3>2 DEF InOrder
    <2> QED BY <1>7, <1>8, <2>1, <2>2
  <1>13. ApprovedOnce'
    BY <1>5 DEF ApprovedOnce, PairingInv
  <1>14. \A b \in Acceptances : peers'["joiner"][b] # "none" => Accepted(b)'
    BY <1>5 DEF PairingInv, Grows
  <1>15. HostCompared'
    BY <1>5, HostComparedKept
  <1> QED BY <1>9, <1>10, <1>11, <1>12, <1>13, <1>14, <1>15 DEF PairingInv

-----------------------------------------------------------------------------
(* The theorems.                                                            *)

LEMMA PairingStarts ==
    ASSUME PairingAssumption, PairingInit
    PROVE  PairingInv
  <1>1. PairingTypes
    <2>1. NoRecord \in Record
      BY FirstRecord
    <2>2. pairing \in [Nodes -> Record] /\ peers \in [Nodes -> [Acceptances -> {"none", "active", "revoked"}]]
      BY <2>1 DEF PairingInit
    <2>3. /\ mail \in [Nodes -> Seq(Message)] /\ processed \in [Nodes -> Nat] /\ DOMAIN todo = Nodes
          /\ \A n \in Nodes : processed[n] <= Len(mail[n])
      BY DEF PairingInit
    <2>4. /\ registrations \in 0 .. MaxRegistrations /\ approved \in Seq(1 .. MaxRegistrations)
          /\ faults \in 0 .. MaxFaults /\ compared \in [Nodes -> SUBSET ((1 .. MaxRegistrations) \X (0 .. MaxRegistrations))]
      BY DEF PairingInit, PairingAssumption
    <2> QED BY <2>2, <2>3, <2>4 DEF PairingInit, PairingTypes
  <1>2. \A n \in Nodes : pairing[n] = NoRecord /\ mail[n] = <<>> /\ todo[n] = <<>>
    BY DEF PairingInit
  <1>3. ASSUME NEW n \in Nodes PROVE RecordOK(n, pairing[n]) /\ PlanOK(n)
    <2>1. PICK r : r = NoRecord /\ r = pairing[n]
      BY <1>2
    <2>2. r \in Record /\ r.reg = 0 /\ r.from = 0 /\ r.acc = 0 /\ ~ r.local /\ ~ r.remote /\ r.status = "none"
      BY <2>1, FirstRecord DEF NoRecord
    <2>3. RecordOK(n, r)
      BY <2>2 DEF RecordOK, PairingInit
    <2>4. PICK m : m = Msg("lost", 0)
      OBVIOUS
    <2>5. m \in Message /\ m.type = "lost"
      BY <2>4, MessageWith DEF PairingAssumption
    <2>6. Sent(n, m)
      BY <2>5 DEF Sent, MessageOK
    <2>7. todo[n] \in Plans(r, m)
      BY <1>2 DEF Plans
    <2> QED BY <2>1, <2>2, <2>3, <2>5, <2>6, <2>7 DEF PlanOK, Noted
  <1>4. MailOK /\ InOrder
    BY <1>2 DEF MailOK, InOrder, PairingInit
  <1>5. ApprovedOnce
    BY DEF ApprovedOnce, PairingInit
  <1>6. \A b \in Acceptances : peers["joiner"][b] # "none" => Accepted(b)
    BY DEF PairingInit
  <1>7. HostCompared
    BY DEF HostCompared, PairingInit
  <1> QED BY <1>1, <1>3, <1>4, <1>5, <1>6, <1>7 DEF PairingInv

LEMMA PairingPreserved ==
    ASSUME PairingAssumption, PairingInv, PairingNext
    PROVE  PairingInv'
  <1>1. Grows
    BY Growing
  <1>2. CASE CreateRequest \/ AcceptRequest \/ ApproveTorn \/ RunLate
    BY <1>1, <1>2, CreateRequestStep, AcceptRequestStep, ApproveTornStep, PassTimeStep
  <1>3. ASSUME NEW n \in Nodes, Confirm(n) \/ CancelPairing(n) \/ Poll(n) \/ Lose(n) \/ Fault(n) PROVE PairingInv'
    BY <1>1, <1>3, ConfirmStep, CancelStep, ReconcileStep, LoseStep, StoppedStep
  <1>4. ASSUME NEW n \in Nodes, PairingStep(n) PROVE PairingInv'
    BY <1>1, <1>4, ReconcileStep, ProofOverStep, NoteStep, SendStep, EndStep, ApproveStep, StoppedStep, ActivateStep
       DEF PairingStep
  <1>5. ASSUME NEW n \in Nodes, NEW a \in Acceptances, RevokePeer(n, a) PROVE PairingInv'
    BY <1>1, <1>5, RevokePeerStep
  <1> QED BY <1>2, <1>3, <1>4, <1>5 DEF PairingNext

LEMMA PairingStutters ==
    ASSUME PairingAssumption, PairingInv, UNCHANGED pairingVars
    PROVE  PairingInv'
  <1>1. UNCHANGED <<pairing, mail, processed, todo, invitation, registrations, approved, peers, late, faults, compared>>
    BY DEF pairingVars
  <1>2. ASSUME NEW n \in Nodes PROVE RecordOK(n, pairing[n])' /\ PlanOK(n)'
    <2>1. RecordOK(n, pairing[n])'
      BY <1>1 DEF PairingInv, RecordOK, Accepted, Arrived
    <2>2. PlanOK(n)'
      <3>1. PICK r \in Record, m \in Message :
              /\ Noted(n, r) /\ Sent(n, m) /\ todo[n] \in Plans(r, m)
              /\ m.type = "registration" => r.reg = m.ref /\ (Doing(n, "note") \/ r.reg = pairing[n].reg)
        BY DEF PairingInv, PlanOK
      <3>2. Noted(n, r)'
        BY <1>1, <3>1 DEF Noted, RecordOK, Accepted, Arrived
      <3>3. Sent(n, m)'
        BY <1>1, <3>1 DEF Sent, MessageOK, Accepted, Arrived
      <3>4. /\ todo'[n] \in Plans(r, m)
            /\ m.type = "registration" => r.reg = m.ref /\ (Doing(n, "note")' \/ r.reg = pairing'[n].reg)
        BY <1>1, <3>1 DEF Doing
      <3> QED BY <3>1, <3>2, <3>3, <3>4 DEF PlanOK
    <2> QED BY <2>1, <2>2
  <1>3. MailOK'
    BY <1>1 DEF PairingInv, MailOK, MessageOK, Accepted, Arrived
  <1>4. PairingTypes' /\ HostCompared' /\ InOrder' /\ ApprovedOnce' /\ \A a \in Acceptances : peers'["joiner"][a] # "none" => Accepted(a)'
    BY <1>1 DEF PairingInv, PairingTypes, HostCompared, Arrived, InOrder, ApprovedOnce, Accepted
  <1> QED BY <1>2, <1>3, <1>4 DEF PairingInv

\* The records, messages and plans of the two nodes say only what happened.
THEOREM PairingInvariant == PairingSpec => []PairingInv
  <1>1. PairingInit => PairingInv
    BY PairingAssumption, PairingStarts
  <1>2. PairingInv /\ [PairingNext]_pairingVars => PairingInv'
    BY PairingAssumption, PairingPreserved, PairingStutters
  <1> QED BY <1>1, <1>2, PTL DEF PairingSpec

\* What the joiner trusts, the host has accepted (PeersInv of the pairing).
THEOREM PeersOfBothAgree == PairingSpec => []PeersInv
  <1>1. PairingInv => PeersInv
    BY PairingPeersAgree
  <1> QED BY <1>1, PairingInvariant, PTL

\* The host accepts only what the operator of each node has confirmed, which is one
\* transcript unless the joiner accepted the request again (ConsentFirst).
THEOREM BothConsentFirst == PairingSpec => ConsentFirst
  <1>1. ASSUME PairingInv, [PairingNext]_pairingVars
        PROVE  [approved' # approved =>
                 LET r == approved'[Len(approved')] IN
                 \E first \in 1 .. r :
                    /\ <<first, 0>> \in compared["joiner"]
                    /\ \E q \in first .. r : <<q, 0>> \in compared["host"]
                    /\ first = r \/ pairing["joiner"].from # 0]_pairingVars
    BY <1>1, PairingAssumption, StepConsent
  <1> QED BY <1>1, PairingInvariant, PTL DEF PairingSpec, ConsentFirst

=============================================================================
