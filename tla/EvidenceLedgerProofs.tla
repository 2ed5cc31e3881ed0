------------------------- MODULE EvidenceLedgerProofs -------------------------
(***************************************************************************)
(* Proofs about EvidenceLedger, for any number of ledgers, events, faults  *)
(* and outside changes: a ledger that verifies is the true and the whole   *)
(* history, one ledger alone never breaks its chain, and the file          *)
(* implements the log that SealedLog promises.                             *)
(***************************************************************************)
EXTENDS EvidenceLedger, TLAPS, SequenceTheorems, WellFoundedInduction

-----------------------------------------------------------------------------
(* The inductive invariant.                                                 *)

Pending == {"queued", "verified", "written"}
Unwritten == {"none", "queued", "verified"}
OnFile == {"written", "acknowledged"}

\* An event waits in the queue of the one ledger it was handed to, and only the
\* first of a queue has been begun.
Queues ==
    /\ \A w \in Writers : \A i, j \in DOMAIN queue[w] :
          /\ by[queue[w][i]] = {w}
          /\ queue[w][i] = queue[w][j] => i = j
          /\ i > 1 => status[queue[w][i]] = "queued"
    /\ \A e \in Event : status[e] \in Pending =>
          \E w \in Writers : \E i \in DOMAIN queue[w] : queue[w][i] = e

\* What an append found is a chain of what earlier appends found, and its record
\* names the last of it.
Chained(ids) == ids = <<>> \/ \E x \in Event : ids = Append(before[x], x) /\ status[x] \notin Unwritten

Records ==
    /\ \A i \in DOMAIN file :
          /\ file[i].prev = HeadOf(before[file[i].id])
          /\ status[file[i].id] \notin Unwritten
          /\ \A j \in DOMAIN file : file[j].id = file[i].id => j = i
    /\ \A e \in Event : Chained(before[e])

\* A record that was written is there, or the file shows that one was spoilt.
Complete ==
    damage = 0 =>
        \A e \in Event : status[e] \in OnFile =>
            \E i \in DOMAIN file : file[i].id = e \/ ~ file[i].sound

\* Neither of two appends of different ledgers found the other's record.
Apart(d, e) ==
    /\ by[d] # by[e]
    /\ \A i \in DOMAIN before[d] : before[d][i] # e
    /\ \A i \in DOMAIN before[e] : before[e][i] # d

\* The file has only grown past what the append of e found, and by the records of
\* other ledgers.
Found(e) ==
    /\ Len(before[e]) <= Len(file)
    /\ \A i \in DOMAIN before[e] : before[e][i] = file[i].id
    /\ \A i \in DOMAIN file : i > Len(before[e]) => Apart(file[i].id, e)

Undisturbed ==
    /\ ended
    /\ \A i \in DOMAIN file : file[i].sound /\ status[file[i].id] \in OnFile
    /\ \A e \in Event : status[e] = "verified" => Found(e)
    /\ Overlapped \/ Verified

Alone == (faults = 0 /\ damage = 0) => Undisturbed

LedgerInv == TypeOK /\ Queues /\ Records /\ Complete /\ Alone

-----------------------------------------------------------------------------
(* Numbers and sequences.                                                   *)

\* A set of numbers has a least one: what induction would show of every line of the
\* file, or of every record an append found, is shown of the first one it fails for.
LEMMA LeastElement ==
    ASSUME NEW T, T \subseteq Nat, T # {}
    PROVE  \E x \in T : \A y \in T : x <= y
  <1> DEFINE Less == {ss \in Nat \X Nat : ss[1] < ss[2]}
  <1>1. IsWellFoundedOn(Less, Nat)
    BY NatLessThanWellFounded DEF OpToRel
  <1>2. PICK x \in T : \A y \in T : ~ (<<y, x>> \in Less)
    <2> HIDE DEF Less
    <2> QED BY <1>1, WFMin
  <1>3. ASSUME NEW y \in T PROVE x <= y
    <2>1. x \in Nat /\ y \in Nat /\ ~ (<<y, x>> \in Less)
      BY <1>2
    <2>2. ~ (y < x)
      BY <2>1
    <2> QED BY <2>1, <2>2
  <1> QED BY <1>3

LEMMA SeqFacts ==
    ASSUME NEW S, NEW s \in Seq(S)
    PROVE  /\ Len(s) \in Nat /\ DOMAIN s = 1..Len(s)
           /\ \A i \in DOMAIN s : s[i] \in S
           /\ s = <<>> <=> Len(s) = 0
  OBVIOUS

LEMMA AppendFacts ==
    ASSUME NEW S, NEW s \in Seq(S), NEW e \in S
    PROVE  /\ Append(s, e) \in Seq(S)
           /\ Len(Append(s, e)) = Len(s) + 1 /\ DOMAIN Append(s, e) = 1..(Len(s) + 1)
           /\ \A i \in DOMAIN s : Append(s, e)[i] = s[i]
           /\ Append(s, e)[Len(s) + 1] = e
  OBVIOUS

LEMMA TailFacts ==
    ASSUME NEW S, NEW s \in Seq(S), s # <<>>
    PROVE  /\ 1 \in DOMAIN s /\ Head(s) = s[1]
           /\ Tail(s) \in Seq(S) /\ DOMAIN Tail(s) = 1..(Len(s) - 1)
           /\ \A i \in DOMAIN Tail(s) : i + 1 \in DOMAIN s /\ Tail(s)[i] = s[i + 1]
  <1>1. Len(s) \in Nat /\ DOMAIN s = 1..Len(s) /\ Len(s) # 0
    BY SeqFacts
  <1>2. Tail(s) \in Seq(S) /\ Len(Tail(s)) = Len(s) - 1 /\ \A i \in 1..Len(Tail(s)) : Tail(s)[i] = s[i + 1]
    BY HeadTailProperties
  <1>3. DOMAIN Tail(s) = 1..(Len(s) - 1)
    BY <1>2, SeqFacts
  <1>4. Head(s) = s[1]
    OBVIOUS
  <1> QED BY <1>1, <1>2, <1>3, <1>4

LEMMA EqualSeqs ==
    ASSUME NEW S, NEW s \in Seq(S), NEW t \in Seq(S), Len(s) = Len(t),
           \A i \in 1..Len(s) : s[i] = t[i]
    PROVE  s = t
  BY SeqEqual

LEMMA Grows ==
    ASSUME NEW S, NEW s \in Seq(S), NEW n \in 1..Len(s)
    PROVE  /\ SubSeq(s, 1, n - 1) \in Seq(S) /\ SubSeq(s, 1, n) \in Seq(S)
           /\ Append(SubSeq(s, 1, n - 1), s[n]) = SubSeq(s, 1, n)
  <1>1. Len(s) \in Nat /\ n \in Nat /\ \A i \in 1..n : s[i] \in S
    BY SeqFacts
  <1>2. /\ SubSeq(s, 1, n) \in Seq(S) /\ Len(SubSeq(s, 1, n)) = n
        /\ \A i \in 1..n : SubSeq(s, 1, n)[i] = s[i]
    BY <1>1, SubSeqProperties
  <1>3. /\ SubSeq(s, 1, n - 1) \in Seq(S) /\ Len(SubSeq(s, 1, n - 1)) = n - 1
        /\ \A i \in 1..(n - 1) : SubSeq(s, 1, n - 1)[i] = s[i]
    BY <1>1, SubSeqProperties
  <1> DEFINE t == Append(SubSeq(s, 1, n - 1), s[n])
  <1>4. t \in Seq(S) /\ Len(t) = n /\ t[n] = s[n] /\ \A i \in 1..(n - 1) : t[i] = s[i]
    BY <1>1, <1>3, AppendFacts, SeqFacts
  <1>5. \A i \in 1..n : t[i] = SubSeq(s, 1, n)[i]
    BY <1>1, <1>2, <1>4
  <1>6. t = SubSeq(s, 1, n)
    <2> HIDE DEF t
    <2> QED BY <1>2, <1>4, <1>5, EqualSeqs
  <1> QED BY <1>2, <1>3, <1>6

-----------------------------------------------------------------------------
(* The lines of the file.                                                   *)

LEMMA Lines ==
    ASSUME TypeOK
    PROVE  /\ Len(file) \in Nat /\ DOMAIN file = 1..Len(file)
           /\ \A i \in DOMAIN file : /\ file[i] \in Line /\ file[i].id \in Event
                                     /\ file[i].prev \in Event \cup {None} /\ file[i].sound \in BOOLEAN
           /\ Ids \in Seq(Event) /\ Len(Ids) = Len(file) /\ DOMAIN Ids = 1..Len(file)
           /\ \A i \in DOMAIN file : Ids[i] = file[i].id
  <1>1. Len(file) \in Nat /\ DOMAIN file = 1..Len(file) /\ \A i \in DOMAIN file : file[i] \in Line
    BY SeqFacts DEF TypeOK
  <1>2. \A i \in DOMAIN file : /\ file[i].id \in Event
                               /\ file[i].prev \in Event \cup {None} /\ file[i].sound \in BOOLEAN
    BY <1>1 DEF Line
  <1>3. Ids \in [1..Len(file) -> Event]
    BY <1>1, <1>2 DEF Ids
  <1> QED BY <1>1, <1>2, <1>3 DEF Ids

LEMMA Heads ==
    ASSUME NEW ids \in Seq(Event)
    PROVE  /\ HeadOf(ids) \in Event \cup {None}
           /\ HeadOf(ids) = None <=> ids = <<>>
           /\ \A s \in Seq(Event), x \in Event : ids = Append(s, x) => HeadOf(ids) = x
  <1>1. None \notin Event /\ Len(ids) \in Nat /\ (ids # <<>> => (Len(ids) \in DOMAIN ids /\ ids[Len(ids)] \in Event))
    <2>1. None \notin Event
      BY BoundsAssumption DEF Event, None
    <2> QED BY <2>1, SeqFacts
  <1>2. ASSUME NEW s \in Seq(Event), NEW x \in Event, ids = Append(s, x) PROVE HeadOf(ids) = x
    <2>1. Len(ids) = Len(s) + 1 /\ ids[Len(s) + 1] = x /\ Len(s) \in Nat
      BY <1>2, AppendFacts, SeqFacts
    <2>2. ids # <<>>
      BY <2>1
    <2> QED BY <2>1, <2>2 DEF HeadOf
  <1> QED BY <1>1, <1>2 DEF HeadOf

\* The true history: were there a first line that does not stand after what its append
\* found, its append found a chain with the line before as its last record, and that
\* line stands after what its own append found.
LEMMA TrueHistory ==
    ASSUME TypeOK, Records
    PROVE  VerifiedIsHistory
  <1> SUFFICES ASSUME Verified, NEW n \in DOMAIN file, before[file[n].id] # SubSeq(Ids, 1, n - 1)
               PROVE  FALSE
    BY DEF VerifiedIsHistory
  <1> DEFINE Wrong == {i \in DOMAIN file : before[file[i].id] # SubSeq(Ids, 1, i - 1)}
  <1>1. Wrong \subseteq Nat /\ Wrong # {}
    BY Lines
  <1>2. PICK i \in Wrong : \A j \in Wrong : i <= j
    BY <1>1, LeastElement
  <1> DEFINE e == file[i].id
  <1>3. /\ i \in 1..Len(file) /\ i \in DOMAIN file /\ i \in Nat /\ e \in Event
        /\ before[e] # SubSeq(Ids, 1, i - 1) /\ before[e] \in Seq(Event)
    <2>1. i \in DOMAIN file /\ before[e] # SubSeq(Ids, 1, i - 1)
      BY <1>2
    <2>2. i \in 1..Len(file) /\ i \in Nat /\ e \in Event
      BY <2>1, Lines
    <2> QED BY <2>1, <2>2 DEF TypeOK
  <1>4. Linked(i) /\ file[i].prev = HeadOf(before[e]) /\ Chained(before[e])
    BY <1>3 DEF Verified, Records
  <1>5. CASE i = 1
    <2>1. HeadOf(before[e]) = None
      BY <1>4, <1>5 DEF Linked
    <2>2. before[e] = <<>>
      BY <2>1, <1>3, Heads
    <2>3. SubSeq(Ids, 1, i - 1) = <<>>
      BY <1>5, SubSeqEmpty
    <2> QED BY <2>2, <2>3, <1>3
  <1>6. CASE i # 1
    <2>1. i - 1 \in DOMAIN file /\ i - 1 \in 1..Len(file) /\ file[i - 1].id \in Event
      BY <1>3, <1>6, Lines
    <2>2. HeadOf(before[e]) = file[i - 1].id
      BY <1>4, <1>6 DEF Linked
    <2>3. before[e] # <<>>
      BY <2>1, <2>2, <1>3 DEF HeadOf, Event, None
    <2>4. PICK x \in Event : before[e] = Append(before[x], x)
      BY <1>4, <2>3 DEF Chained
    <2>5. before[x] \in Seq(Event)
      BY DEF TypeOK
    <2>6. x = file[i - 1].id
      BY <2>2, <2>4, <2>5, <1>3, Heads
    <2>7. i - 1 \notin Wrong
      BY <1>2, <1>3
    <2>8. before[x] = SubSeq(Ids, 1, (i - 1) - 1)
      BY <2>1, <2>6, <2>7
    <2>9. Append(SubSeq(Ids, 1, (i - 1) - 1), Ids[i - 1]) = SubSeq(Ids, 1, i - 1)
      BY <2>1, Lines, Grows
    <2> QED BY <2>4, <2>6, <2>8, <2>9, <2>1, <1>3, Lines
  <1> QED BY <1>5, <1>6

-----------------------------------------------------------------------------
(* The queues.                                                              *)

QueueTypes ==
    /\ status \in [Event -> Status]
    /\ queue \in [Writers -> Seq(Event)]
    /\ \A w \in Writers : \A i \in DOMAIN queue[w] : status[queue[w][i]] \in Pending
    /\ by \in [Event -> SUBSET Writers]

LEMMA TypesOfQueues == TypeOK => QueueTypes
  BY DEF TypeOK, QueueTypes, Pending

\* An event that has been begun is the first of its ledger's queue, and in no other.
LEMMA Begun ==
    ASSUME QueueTypes, Queues, NEW w \in Writers, NEW e \in Event, Turn(w, e)
    PROVE  /\ queue[w] \in Seq(Event) /\ queue[w] # <<>> /\ 1 \in DOMAIN queue[w] /\ queue[w][1] = e
           /\ by[e] = {w} /\ status[e] \in Pending
           /\ \A v \in Writers : \A i \in DOMAIN queue[v] : queue[v][i] = e => (v = w /\ i = 1)
  <1>1. queue[w] \in Seq(Event) /\ queue[w] # <<>> /\ 1 \in DOMAIN queue[w] /\ queue[w][1] = e
    BY TailFacts DEF QueueTypes, Turn
  <1>2. by[e] = {w} /\ status[e] \in Pending
    BY <1>1 DEF QueueTypes, Queues
  <1>3. ASSUME NEW v \in Writers, NEW i \in DOMAIN queue[v], queue[v][i] = e PROVE v = w /\ i = 1
    <2>1. {v} = {w}
      BY <1>2, <1>3 DEF Queues
    <2> QED BY <1>1, <1>3, <2>1 DEF Queues
  <1> QED BY <1>1, <1>2, <1>3

\* Two events that have been begun were handed to different ledgers.
LEMMA OneBegun ==
    ASSUME QueueTypes, Queues, NEW w \in Writers, NEW e \in Event, Turn(w, e),
           NEW d \in Event, d # e, status[d] \in {"verified", "written"}
    PROVE  by[d] # by[e]
  <1>1. PICK v \in Writers : \E i \in DOMAIN queue[v] : queue[v][i] = d
    BY DEF Queues, Pending
  <1>2. PICK i \in DOMAIN queue[v] : queue[v][i] = d
    BY <1>1
  <1>3. by[d] = {v} /\ ~ (i > 1)
    BY <1>2 DEF Queues
  <1>4. i = 1
    BY <1>2, <1>3, SeqFacts DEF QueueTypes
  <1>5. v # w
    BY <1>2, <1>4, Begun
  <1>6. by[e] = {w}
    BY Begun
  <1> QED BY <1>3, <1>5, <1>6

LEMMA EnqueueQueues ==
    ASSUME QueueTypes, Queues, NEW w \in Writers, NEW e \in Event, Enqueue(w, e)
    PROVE  QueueTypes' /\ Queues'
  <1>1. /\ queue[w] \in Seq(Event) /\ Len(queue[w]) \in Nat /\ DOMAIN queue[w] = 1..Len(queue[w])
        /\ status[e] = "none"
    BY SeqFacts DEF QueueTypes, Enqueue
  <1>2. /\ queue' \in [Writers -> Seq(Event)] /\ queue'[w] = Append(queue[w], e)
        /\ \A v \in Writers : v # w => queue'[v] = queue[v]
        /\ status' \in [Event -> Status] /\ status'[e] = "queued"
        /\ \A d \in Event : d # e => status'[d] = status[d]
        /\ by' \in [Event -> SUBSET Writers] /\ by'[e] = {w}
        /\ \A d \in Event : d # e => by'[d] = by[d]
    BY <1>1, AppendFacts DEF Enqueue, QueueTypes, Status
  <1>3. /\ DOMAIN queue'[w] = 1..(Len(queue[w]) + 1) /\ queue'[w][Len(queue[w]) + 1] = e
        /\ \A i \in DOMAIN queue[w] : queue'[w][i] = queue[w][i]
    BY <1>1, <1>2, AppendFacts
  <1>4. \A v \in Writers : \A i \in DOMAIN queue[v] : queue[v][i] \in Event /\ queue[v][i] # e
    BY <1>1, SeqFacts DEF QueueTypes, Pending
  <1>5. ASSUME NEW v \in Writers, NEW i \in DOMAIN queue'[v]
        PROVE  \/ i \in DOMAIN queue[v] /\ queue'[v][i] = queue[v][i]
               \/ v = w /\ i = Len(queue[w]) + 1 /\ queue'[v][i] = e
    BY <1>1, <1>2, <1>3
  <1>6. QueueTypes'
    <2>1. ASSUME NEW v \in Writers, NEW i \in DOMAIN queue'[v] PROVE status'[queue'[v][i]] \in Pending
      BY <1>2, <1>4, <1>5 DEF QueueTypes, Pending
    <2> QED BY <1>2, <2>1 DEF QueueTypes
  <1>7. ASSUME NEW v \in Writers, NEW i \in DOMAIN queue'[v], NEW j \in DOMAIN queue'[v]
        PROVE  /\ by'[queue'[v][i]] = {v}
               /\ queue'[v][i] = queue'[v][j] => i = j
               /\ i > 1 => status'[queue'[v][i]] = "queued"
    <2>1. by'[queue'[v][i]] = {v}
      <3>1. CASE i \in DOMAIN queue[v] /\ queue'[v][i] = queue[v][i]
        <4>1. by[queue[v][i]] = {v} /\ queue[v][i] \in Event /\ queue[v][i] # e
          BY <3>1, <1>4 DEF Queues
        <4> QED BY <3>1, <4>1, <1>2
      <3>2. CASE v = w /\ queue'[v][i] = e
        BY <3>2, <1>2
      <3> QED BY <3>1, <3>2, <1>5
    <2>2. queue'[v][i] = queue'[v][j] => i = j
      BY <1>4, <1>5 DEF Queues
    <2>3. i > 1 => status'[queue'[v][i]] = "queued"
      BY <1>2, <1>4, <1>5 DEF Queues
    <2> QED BY <2>1, <2>2, <2>3
  <1>8. ASSUME NEW d \in Event, status'[d] \in Pending
        PROVE  \E v \in Writers : \E i \in DOMAIN queue'[v] : queue'[v][i] = d
    <2>1. CASE d = e
      BY <2>1, <1>1, <1>3
    <2>2. CASE d # e
      <3>1. PICK v \in Writers : \E i \in DOMAIN queue[v] : queue[v][i] = d
        BY <2>2, <1>2, <1>8 DEF Queues
      <3>2. PICK i \in DOMAIN queue[v] : queue[v][i] = d
        BY <3>1
      <3>3. i \in DOMAIN queue'[v] /\ queue'[v][i] = d
        <4>1. CASE v = w
          BY <3>2, <4>1, <1>1, <1>3
        <4>2. CASE v # w
          BY <3>2, <4>2, <1>2
        <4> QED BY <4>1, <4>2
      <3> QED BY <3>3
    <2> QED BY <2>1, <2>2
  <1>9. Queues'
    BY <1>7, <1>8 DEF Queues
  <1> QED BY <1>6, <1>9

LEMMA AdvanceQueues ==
    ASSUME QueueTypes, Queues, NEW w \in Writers, NEW e \in Event, Turn(w, e),
           NEW s \in Pending, status' = [status EXCEPT ![e] = s], UNCHANGED <<queue, by>>
    PROVE  QueueTypes' /\ Queues'
  <1>1. /\ status' \in [Event -> Status] /\ status'[e] = s
        /\ \A d \in Event : d # e => status'[d] = status[d]
    BY DEF QueueTypes, Status, Pending
  <1>2. \A v \in Writers : \A i \in DOMAIN queue[v] : queue[v][i] \in Event /\ (queue[v][i] = e => (v = w /\ i = 1))
    BY Begun, SeqFacts DEF QueueTypes
  <1>3. QueueTypes'
    <2>1. ASSUME NEW v \in Writers, NEW i \in DOMAIN queue[v] PROVE status'[queue[v][i]] \in Pending
      BY <1>1, <1>2 DEF QueueTypes
    <2> QED BY <1>1, <2>1 DEF QueueTypes
  <1>4. ASSUME NEW v \in Writers, NEW i \in DOMAIN queue[v], i > 1 PROVE status'[queue[v][i]] = "queued"
    BY <1>1, <1>2, <1>4 DEF Queues
  <1>5. ASSUME NEW d \in Event, status'[d] \in Pending PROVE status[d] \in Pending
    BY <1>1, <1>5, Begun
  <1>6. Queues'
    <2>1. queue' = queue /\ by' = by
      OBVIOUS
    <2>2. ASSUME NEW d \in Event, status'[d] \in Pending
          PROVE  \E v \in Writers : \E i \in DOMAIN queue[v] : queue[v][i] = d
      BY <1>5, <2>2 DEF Queues
    <2>3. ASSUME NEW v \in Writers, NEW i \in DOMAIN queue[v], NEW j \in DOMAIN queue[v]
          PROVE  /\ by[queue[v][i]] = {v}
                 /\ queue[v][i] = queue[v][j] => i = j
                 /\ i > 1 => status[queue[v][i]] = "queued"
      BY DEF Queues
    <2> QED BY <1>4, <2>1, <2>2, <2>3 DEF Queues
  <1> QED BY <1>3, <1>6

LEMMA SettleQueues ==
    ASSUME QueueTypes, Queues, NEW w \in Writers, NEW e \in Event, Turn(w, e),
           NEW o \in {"acknowledged", "refused"}, Settle(w, e, o), UNCHANGED by
    PROVE  QueueTypes' /\ Queues'
  <1>1. /\ status' \in [Event -> Status] /\ status'[e] = o
        /\ \A d \in Event : d # e => status'[d] = status[d]
    BY DEF QueueTypes, Status, Settle
  <1>2. /\ queue[w] \in Seq(Event) /\ queue[w] # <<>> /\ Len(queue[w]) \in Nat
        /\ DOMAIN queue[w] = 1..Len(queue[w])
    BY Begun, SeqFacts
  <1>3. /\ queue' \in [Writers -> Seq(Event)] /\ queue'[w] = Tail(queue[w])
        /\ \A v \in Writers : v # w => queue'[v] = queue[v]
    BY <1>2, TailFacts DEF Settle, QueueTypes
  <1>4. /\ DOMAIN queue'[w] = 1..(Len(queue[w]) - 1)
        /\ \A i \in DOMAIN queue'[w] : i + 1 \in DOMAIN queue[w] /\ queue'[w][i] = queue[w][i + 1]
    BY <1>2, <1>3, TailFacts
  <1>5. \A v \in Writers : \A i \in DOMAIN queue[v] :
           queue[v][i] \in Event /\ i \in Nat /\ (queue[v][i] = e <=> (v = w /\ i = 1))
    BY Begun, SeqFacts DEF QueueTypes
  <1>6. ASSUME NEW v \in Writers, NEW i \in DOMAIN queue'[v]
        PROVE  \E k \in DOMAIN queue[v] : /\ queue'[v][i] = queue[v][k] /\ queue[v][k] # e
                                          /\ k = (IF v = w THEN i + 1 ELSE i)
    <2>1. CASE v = w
      BY <2>1, <1>2, <1>4, <1>5
    <2>2. CASE v # w
      BY <2>2, <1>3, <1>5
    <2> QED BY <2>1, <2>2
  <1>7. QueueTypes'
    <2>1. ASSUME NEW v \in Writers, NEW i \in DOMAIN queue'[v] PROVE status'[queue'[v][i]] \in Pending
      <3>1. PICK k \in DOMAIN queue[v] : queue'[v][i] = queue[v][k] /\ queue[v][k] # e
        BY <1>6
      <3> QED BY <3>1, <1>1, <1>5 DEF QueueTypes
    <2> QED BY <1>1, <1>3, <2>1 DEF QueueTypes
  <1>8. ASSUME NEW v \in Writers, NEW i \in DOMAIN queue'[v], NEW j \in DOMAIN queue'[v]
        PROVE  /\ by[queue'[v][i]] = {v}
               /\ queue'[v][i] = queue'[v][j] => i = j
               /\ i > 1 => status'[queue'[v][i]] = "queued"
    <2>1. i \in Nat /\ j \in Nat
      BY <1>3, SeqFacts
    <2>2. PICK k \in DOMAIN queue[v] : /\ queue'[v][i] = queue[v][k] /\ queue[v][k] # e
                                       /\ k = (IF v = w THEN i + 1 ELSE i)
      BY <1>6
    <2>3. PICK m \in DOMAIN queue[v] : /\ queue'[v][j] = queue[v][m]
                                       /\ m = (IF v = w THEN j + 1 ELSE j)
      BY <1>6
    <2>4. by[queue'[v][i]] = {v}
      BY <2>2 DEF Queues
    <2>5. queue'[v][i] = queue'[v][j] => i = j
      <3>1. queue[v][k] = queue[v][m] => k = m
        BY DEF Queues
      <3> QED BY <3>1, <2>1, <2>2, <2>3
    <2>6. i > 1 => status'[queue'[v][i]] = "queued"
      <3>1. k > 1 => status[queue[v][k]] = "queued"
        BY DEF Queues
      <3> QED BY <3>1, <2>1, <2>2, <1>1, <1>5
    <2> QED BY <2>4, <2>5, <2>6
  <1>9. ASSUME NEW d \in Event, status'[d] \in Pending
        PROVE  \E v \in Writers : \E i \in DOMAIN queue'[v] : queue'[v][i] = d
    <2>1. d # e /\ status[d] \in Pending
      BY <1>1, <1>9 DEF Pending
    <2>2. PICK v \in Writers : \E i \in DOMAIN queue[v] : queue[v][i] = d
      BY <2>1 DEF Queues
    <2>3. PICK i \in DOMAIN queue[v] : queue[v][i] = d
      BY <2>2
    <2>4. CASE v = w
      <3>1. i # 1
        BY <2>1, <2>3, <2>4, <1>5
      <3>2. i - 1 \in DOMAIN queue'[w]
        BY <3>1, <2>3, <2>4, <1>2, <1>4
      <3>3. queue'[w][i - 1] = d
        BY <3>2, <2>3, <2>4, <1>2, <1>4
      <3> QED BY <3>2, <3>3
    <2>5. CASE v # w
      BY <2>3, <2>5, <1>3
    <2> QED BY <2>4, <2>5
  <1>10. Queues'
    BY <1>8, <1>9 DEF Queues
  <1> QED BY <1>7, <1>10

LEMMA CrashQueues ==
    ASSUME QueueTypes, Queues, NEW w \in Writers, Crash(w)
    PROVE  QueueTypes' /\ Queues'
  <1> DEFINE Lost(d) == \E i \in DOMAIN queue[w] : queue[w][i] = d
  <1>1. /\ status' = [d \in Event |-> IF Lost(d) THEN "lost" ELSE status[d]]
        /\ queue' = [queue EXCEPT ![w] = <<>>] /\ by' = by
    BY DEF Crash, history
  <1>2. /\ status' \in [Event -> Status]
        /\ \A d \in Event : status'[d] = IF Lost(d) THEN "lost" ELSE status[d]
    BY <1>1 DEF QueueTypes, Status
  <1>3. /\ queue' \in [Writers -> Seq(Event)] /\ queue'[w] = <<>>
        /\ \A v \in Writers : v # w => queue'[v] = queue[v]
    BY <1>1 DEF QueueTypes
  <1>4. ASSUME NEW v \in Writers, NEW i \in DOMAIN queue'[v]
        PROVE  /\ v # w /\ i \in DOMAIN queue[v] /\ queue'[v][i] = queue[v][i]
               /\ queue[v][i] \in Event /\ ~ Lost(queue[v][i])
    <2>1. v # w /\ i \in DOMAIN queue[v] /\ queue'[v][i] = queue[v][i]
      BY <1>3
    <2>2. queue[v][i] \in Event /\ by[queue[v][i]] = {v}
      BY <2>1, SeqFacts DEF QueueTypes, Queues
    <2>3. Lost(queue[v][i]) => by[queue[v][i]] = {w}
      BY DEF Queues
    <2> QED BY <2>1, <2>2, <2>3
  <1>5. QueueTypes'
    <2>1. ASSUME NEW v \in Writers, NEW i \in DOMAIN queue'[v] PROVE status'[queue'[v][i]] \in Pending
      BY <1>2, <1>4 DEF QueueTypes
    <2> QED BY <1>1, <1>2, <1>3, <2>1 DEF QueueTypes
  <1>6. ASSUME NEW v \in Writers, NEW i \in DOMAIN queue'[v], NEW j \in DOMAIN queue'[v]
        PROVE  /\ by'[queue'[v][i]] = {v}
               /\ queue'[v][i] = queue'[v][j] => i = j
               /\ i > 1 => status'[queue'[v][i]] = "queued"
    <2>1. /\ i \in DOMAIN queue[v] /\ queue'[v][i] = queue[v][i] /\ queue[v][i] \in Event
          /\ j \in DOMAIN queue[v] /\ queue'[v][j] = queue[v][j]
          /\ status'[queue[v][i]] = status[queue[v][i]]
      BY <1>2, <1>4
    <2>2. /\ by[queue[v][i]] = {v}
          /\ queue[v][i] = queue[v][j] => i = j
          /\ i > 1 => status[queue[v][i]] = "queued"
      BY <2>1 DEF Queues
    <2> QED BY <1>1, <2>1, <2>2
  <1>7. ASSUME NEW d \in Event, status'[d] \in Pending
        PROVE  \E v \in Writers : \E i \in DOMAIN queue'[v] : queue'[v][i] = d
    <2>1. ~ Lost(d) /\ status[d] \in Pending
      BY <1>2, <1>7 DEF Pending
    <2>2. PICK v \in Writers : \E i \in DOMAIN queue[v] : queue[v][i] = d
      BY <2>1 DEF Queues
    <2> QED BY <2>1, <2>2, <1>3
  <1>8. Queues'
    BY <1>6, <1>7 DEF Queues
  <1> QED BY <1>5, <1>8

-----------------------------------------------------------------------------
(* What a step may do to the lines.                                         *)

\* One record more, that of e, or the unfinished last line spoilt.
Grown(e) ==
    /\ ended /\ Len(file') = Len(file) + 1 /\ DOMAIN file' = 1..(Len(file) + 1)
    /\ \A i \in DOMAIN file : file'[i] = file[i]
    /\ file'[Len(file) + 1].id = e /\ file'[Len(file) + 1].prev = HeadOf(before[e])

Spoilt ==
    /\ ~ ended /\ Len(file) > 0 /\ Len(file') = Len(file) /\ DOMAIN file' = DOMAIN file
    /\ \A i \in DOMAIN file : file'[i].id = file[i].id /\ file'[i].prev = file[i].prev
    /\ \A i \in DOMAIN file : i < Len(file) => file'[i].sound = file[i].sound
    /\ ~ file'[Len(file)].sound

LEMMA LaidFacts ==
    ASSUME TypeOK, NEW e \in Event, NEW s \in BOOLEAN, file' = Laid(e, s)
    PROVE  /\ file' \in Seq(Line) /\ file' # <<>>
           /\ (Grown(e) /\ file'[Len(file) + 1].sound = s) \/ Spoilt
  <1>1. before[e] \in Seq(Event)
    BY DEF TypeOK
  <1>2. Record(e, s) \in Line
    BY <1>1, Heads DEF Record, Line
  <1>3. file \in Seq(Line) /\ Len(file) \in Nat /\ DOMAIN file = 1..Len(file)
    BY Lines DEF TypeOK
  <1>4. CASE ended
    <2>1. file' = Append(file, Record(e, s))
      BY <1>4 DEF Laid
    <2>2. /\ file' \in Seq(Line) /\ Len(file') = Len(file) + 1 /\ DOMAIN file' = 1..(Len(file) + 1)
          /\ \A i \in DOMAIN file : file'[i] = file[i]
          /\ file'[Len(file) + 1] = Record(e, s)
      BY <1>2, <1>3, <2>1, AppendFacts
    <2>3. Grown(e) /\ file'[Len(file) + 1].sound = s
      BY <1>4, <2>2 DEF Grown, Record
    <2>4. file' # <<>>
      BY <1>3, <2>2
    <2> QED BY <2>2, <2>3, <2>4
  <1>5. CASE ~ ended
    <2>1. file' = [file EXCEPT ![Len(file)].sound = FALSE] /\ file # <<>>
      BY <1>5 DEF Laid, TypeOK
    <2>2. Len(file) \in DOMAIN file /\ Len(file) > 0 /\ file[Len(file)] \in Line
      BY <1>3, <2>1, SeqFacts
    <2>3. [file[Len(file)] EXCEPT !.sound = FALSE] \in Line
      BY <2>2 DEF Line
    <2>4. file' = [file EXCEPT ![Len(file)] = [file[Len(file)] EXCEPT !.sound = FALSE]]
      BY <2>1
    <2>5. /\ file' \in Seq(Line) /\ Len(file') = Len(file)
          /\ \A j \in 1..Len(file) : file'[j] = IF j = Len(file) THEN [file[Len(file)] EXCEPT !.sound = FALSE]
                                                ELSE file[j]
      BY <1>3, <2>2, <2>3, <2>4, ExceptSeq
    <2>6. DOMAIN file' = DOMAIN file
      BY <1>3, <2>5, SeqFacts
    <2>7. /\ \A i \in DOMAIN file : file'[i].id = file[i].id /\ file'[i].prev = file[i].prev
          /\ \A i \in DOMAIN file : i < Len(file) => file'[i].sound = file[i].sound
          /\ ~ file'[Len(file)].sound
      <3>1. \A i \in DOMAIN file : file[i] \in Line
        BY Lines
      <3> QED BY <1>3, <2>2, <2>5, <3>1 DEF Line
    <2>8. file' # <<>>
      BY <2>2, <2>5
    <2> QED BY <1>5, <2>2, <2>5, <2>6, <2>7, <2>8 DEF Spoilt
  <1> QED BY <1>4, <1>5

\* What is left of a write: the same, one record more, or a spoilt line.
LEMMA RemnantFacts ==
    ASSUME TypeOK, NEW e \in Event, Remnant(e)
    PROVE  /\ file' \in Seq(Line) /\ ended' \in BOOLEAN /\ (file' = <<>> => ended')
           /\ UNCHANGED <<file, ended>> \/ Grown(e) \/ Spoilt
  <1>1. CASE UNCHANGED <<file, ended>>
    BY <1>1 DEF TypeOK
  <1>2. CASE file' = Laid(e, TRUE) /\ ended' \in BOOLEAN
    BY <1>2, LaidFacts
  <1>3. CASE file' = Laid(e, FALSE) /\ ended' = FALSE
    BY <1>3, LaidFacts
  <1> QED BY <1>1, <1>2, <1>3 DEF Remnant

\* The lines there are after an outside change were there before, none of them twice.
LEMMA DamageFacts ==
    ASSUME TypeOK, Damage
    PROVE  /\ file' \in Seq(Line) /\ ended' \in BOOLEAN /\ (file' = <<>> => ended')
           /\ \E f \in [DOMAIN file' -> DOMAIN file] :
                 /\ \A i \in DOMAIN file' : file'[i].id = file[f[i]].id /\ file'[i].prev = file[f[i]].prev
                 /\ \A i, j \in DOMAIN file' : f[i] = f[j] => i = j
  <1>0. /\ file \in Seq(Line) /\ Len(file) \in Nat /\ DOMAIN file = 1..Len(file) /\ ended \in BOOLEAN
        /\ \A i \in DOMAIN file : file[i] \in Line
        /\ file = <<>> => ended
    BY Lines DEF TypeOK
  <1>1. ASSUME NEW i \in DOMAIN file, file' = [file EXCEPT ![i].sound = FALSE], UNCHANGED ended
        PROVE  /\ file' \in Seq(Line) /\ ended' \in BOOLEAN /\ (file' = <<>> => ended')
               /\ \E f \in [DOMAIN file' -> DOMAIN file] :
                     /\ \A k \in DOMAIN file' : file'[k].id = file[f[k]].id /\ file'[k].prev = file[f[k]].prev
                     /\ \A k, j \in DOMAIN file' : f[k] = f[j] => k = j
    <2>1. [file[i] EXCEPT !.sound = FALSE] \in Line
      BY <1>0, <1>1 DEF Line
    <2>2. file' = [file EXCEPT ![i] = [file[i] EXCEPT !.sound = FALSE]]
      BY <1>1
    <2>3. /\ file' \in Seq(Line) /\ Len(file') = Len(file)
          /\ \A j \in 1..Len(file) : file'[j] = IF j = i THEN [file[i] EXCEPT !.sound = FALSE] ELSE file[j]
      BY <1>0, <2>1, <2>2, ExceptSeq
    <2>4. DOMAIN file' = DOMAIN file /\ file' # <<>>
      BY <1>0, <2>3, SeqFacts
    <2>5. \A k \in DOMAIN file : file'[k].id = file[k].id /\ file'[k].prev = file[k].prev
      BY <1>0, <2>3 DEF Line
    <2> DEFINE f == [k \in DOMAIN file |-> k]
    <2>6. f \in [DOMAIN file' -> DOMAIN file] /\ \A k \in DOMAIN file : f[k] = k
      BY <2>4
    <2>7. /\ \A k \in DOMAIN file' : file'[k].id = file[f[k]].id /\ file'[k].prev = file[f[k]].prev
          /\ \A k, j \in DOMAIN file' : f[k] = f[j] => k = j
      BY <2>4, <2>5, <2>6
    <2> QED BY <1>0, <1>1, <2>3, <2>4, <2>6, <2>7
  <1>2. ASSUME NEW i \in DOMAIN file, file' = Without(i), ended' = (ended \/ i = Len(file))
        PROVE  /\ file' \in Seq(Line) /\ ended' \in BOOLEAN /\ (file' = <<>> => ended')
               /\ \E f \in [DOMAIN file' -> DOMAIN file] :
                     /\ \A k \in DOMAIN file' : file'[k].id = file[f[k]].id /\ file'[k].prev = file[f[k]].prev
                     /\ \A k, j \in DOMAIN file' : f[k] = f[j] => k = j
    <2>1. Len(file) - 1 \in Nat
      BY <1>0
    <2>2. file' = [j \in 1..(Len(file) - 1) |-> IF j < i THEN file[j] ELSE file[j + 1]]
      BY <1>2 DEF Without
    <2>3. file' \in [1..(Len(file) - 1) -> Line]
      BY <1>0, <2>1, <2>2
    <2>4. file' \in Seq(Line) /\ DOMAIN file' = 1..(Len(file) - 1)
      BY <2>1, <2>3
    <2> DEFINE f == [k \in DOMAIN file' |-> IF k < i THEN k ELSE k + 1]
    <2>5. f \in [DOMAIN file' -> DOMAIN file] /\ \A k \in DOMAIN file' : f[k] = IF k < i THEN k ELSE k + 1
      BY <1>0, <2>4
    <2>6. /\ \A k \in DOMAIN file' : file'[k].id = file[f[k]].id /\ file'[k].prev = file[f[k]].prev
          /\ \A k, j \in DOMAIN file' : f[k] = f[j] => k = j
      BY <1>0, <2>2, <2>4, <2>5
    <2>7. file' = <<>> => i = Len(file)
      BY <1>0, <2>4
    <2>8. ended' \in BOOLEAN /\ (file' = <<>> => ended')
      BY <1>2, <2>7
    <2> QED BY <2>4, <2>5, <2>6, <2>8
  <1>3. ASSUME NEW i \in DOMAIN file, i > 1, file' = [file EXCEPT ![i] = file[i - 1], ![i - 1] = file[i]], ended' = TRUE
        PROVE  /\ file' \in Seq(Line) /\ ended' \in BOOLEAN /\ (file' = <<>> => ended')
               /\ \E f \in [DOMAIN file' -> DOMAIN file] :
                     /\ \A k \in DOMAIN file' : file'[k].id = file[f[k]].id /\ file'[k].prev = file[f[k]].prev
                     /\ \A k, j \in DOMAIN file' : f[k] = f[j] => k = j
    <2>1. i - 1 \in DOMAIN file /\ i - 1 # i
      BY <1>0, <1>3
    <2>2. /\ DOMAIN file' = DOMAIN file /\ file'[i] = file[i - 1] /\ file'[i - 1] = file[i]
          /\ \A k \in DOMAIN file : (k # i /\ k # i - 1) => file'[k] = file[k]
      BY <1>3, <2>1
    <2>3. file' \in Seq(Line)
      <3>1. [file EXCEPT ![i] = file[i - 1]] \in Seq(Line)
        BY <1>0, <1>3, <2>1, ExceptSeq
      <3>2. Len([file EXCEPT ![i] = file[i - 1]]) = Len(file)
        BY <1>0, <1>3, <2>1, ExceptSeq
      <3> QED BY <1>0, <1>3, <2>1, <3>1, <3>2, ExceptSeq
    <2> DEFINE f == [k \in DOMAIN file |-> IF k = i THEN i - 1 ELSE IF k = i - 1 THEN i ELSE k]
    <2>4. /\ f \in [DOMAIN file' -> DOMAIN file]
          /\ \A k \in DOMAIN file : f[k] = IF k = i THEN i - 1 ELSE IF k = i - 1 THEN i ELSE k
      BY <2>1, <2>2
    <2>5. /\ \A k \in DOMAIN file' : file'[k].id = file[f[k]].id /\ file'[k].prev = file[f[k]].prev
          /\ \A k, j \in DOMAIN file' : f[k] = f[j] => k = j
      BY <1>0, <2>1, <2>2, <2>4
    <2> QED BY <1>3, <2>3, <2>4, <2>5
  <1> QED BY <1>1, <1>2, <1>3 DEF Damage

-----------------------------------------------------------------------------
(* What a step does, in the terms of the invariant.                         *)

NextQueues == QueueTypes' /\ Queues'

LEMMA QueuesStep ==
    ASSUME QueueTypes, Queues, [Next]_vars
    PROVE  NextQueues
  <1> USE DEF NextQueues
  <1>1. ASSUME NEW w \in Writers, NEW e \in Event, Enqueue(w, e) PROVE NextQueues
    BY <1>1, EnqueueQueues
  <1>2. ASSUME NEW w \in Writers, NEW e \in Event, Verify(w, e) PROVE NextQueues
    BY <1>2, AdvanceQueues DEF Verify, Pending
  <1>3. ASSUME NEW w \in Writers, NEW e \in Event, Write(w, e) PROVE NextQueues
    BY <1>3, AdvanceQueues DEF Write, Pending, history
  <1>4. ASSUME NEW w \in Writers, NEW e \in Event, Refuse(w, e) PROVE NextQueues
    BY <1>4, SettleQueues DEF Refuse, history
  <1>5. ASSUME NEW w \in Writers, NEW e \in Event, Sync(w, e) PROVE NextQueues
    BY <1>5, SettleQueues DEF Sync, history
  <1>6. ASSUME NEW w \in Writers, NEW e \in Event, WriteFails(w, e) PROVE NextQueues
    BY <1>6, SettleQueues DEF WriteFails, history
  <1>7. ASSUME NEW w \in Writers, Crash(w) PROVE NextQueues
    BY <1>7, CrashQueues
  <1>8. ASSUME UNCHANGED <<queue, status, by>> PROVE NextQueues
    BY <1>8 DEF QueueTypes, Queues
  <1>9. CASE Damage
    BY <1>9, <1>8 DEF Damage, history
  <1>10. CASE UNCHANGED vars
    BY <1>10, <1>8 DEF vars, history
  <1> QED BY <1>1, <1>2, <1>3, <1>4, <1>5, <1>6, <1>7, <1>9, <1>10 DEF Next, Operate

\* Nothing that was written is pending again; an event is on file from the step that
\* writes its record.
Keeps(E) ==
    \A x \in Event : /\ status[x] \notin Unwritten => status'[x] \notin Unwritten
                     /\ status'[x] \in OnFile => (x \in E \/ status[x] \in OnFile)

Untouched == Keeps({}) /\ UNCHANGED <<file, ended, before, damage>>
Begins(e) ==
    /\ Keeps({}) /\ UNCHANGED <<file, ended, faults, damage>>
    /\ Verified /\ status[e] = "queued" /\ status'[e] = "verified"
    /\ \A x \in Event : x # e => status'[x] = status[x]
    /\ before' = [before EXCEPT ![e] = Ids]
Lays(e) ==
    /\ Keeps({e}) /\ UNCHANGED <<before, by, damage>>
    /\ status[e] = "verified" /\ status'[e] \notin Unwritten
    /\ file' \in Seq(Line) /\ ended' \in BOOLEAN /\ (file' = <<>> => ended')
    /\ Grown(e) \/ Spoilt
Rearranged ==
    /\ UNCHANGED <<status, before>> /\ damage' = damage + 1
    /\ file' \in Seq(Line) /\ ended' \in BOOLEAN /\ (file' = <<>> => ended')
    /\ \E f \in [DOMAIN file' -> DOMAIN file] :
          /\ \A i \in DOMAIN file' : file'[i].id = file[f[i]].id /\ file'[i].prev = file[f[i]].prev
          /\ \A i, j \in DOMAIN file' : f[i] = f[j] => i = j

Effect == Untouched \/ Rearranged \/ \E e \in Event : Begins(e) \/ Lays(e)

LEMMA Effects ==
    ASSUME TypeOK, Queues, [Next]_vars
    PROVE  Effect
  <1> USE DEF OnFile, Unwritten, history
  <1>0. QueueTypes
    BY TypesOfQueues
  <1>1. ASSUME NEW w \in Writers, NEW e \in Event, Enqueue(w, e) PROVE Effect
    <2>1. Keeps({})
      BY <1>1, <1>0 DEF Enqueue, Keeps, QueueTypes
    <2> QED BY <1>1, <2>1 DEF Effect, Untouched, Enqueue
  <1>2. ASSUME NEW w \in Writers, NEW e \in Event, Verify(w, e) PROVE Effect
    <2>1. Keeps({}) /\ \A x \in Event : x # e => status'[x] = status[x]
      BY <1>2, <1>0 DEF Verify, Keeps, QueueTypes
    <2>2. status'[e] = "verified"
      BY <1>2, <1>0 DEF Verify, QueueTypes
    <2>3. Begins(e)
      BY <1>2, <2>1, <2>2 DEF Begins, Verify
    <2> QED BY <2>3 DEF Effect
  <1>3. ASSUME NEW w \in Writers, NEW e \in Event, Write(w, e) PROVE Effect
    <2>1. Keeps({e}) /\ status'[e] = "written"
      BY <1>3, <1>0 DEF Write, Keeps, QueueTypes
    <2>2. file' \in Seq(Line) /\ file' # <<>> /\ (Grown(e) \/ Spoilt) /\ ended' = TRUE
      BY <1>3, LaidFacts DEF Write
    <2>3. Lays(e)
      BY <1>3, <2>1, <2>2 DEF Lays, Write
    <2> QED BY <2>3 DEF Effect
  <1>4. ASSUME NEW w \in Writers, NEW e \in Event, Refuse(w, e) PROVE Effect
    <2>1. Keeps({})
      BY <1>4, <1>0 DEF Refuse, Settle, Keeps, QueueTypes
    <2> QED BY <1>4, <2>1 DEF Effect, Untouched, Refuse
  <1>5. ASSUME NEW w \in Writers, NEW e \in Event, Sync(w, e) PROVE Effect
    <2>1. Keeps({})
      BY <1>5, <1>0 DEF Sync, Settle, Keeps, QueueTypes
    <2> QED BY <1>5, <2>1 DEF Effect, Untouched, Sync
  <1>6. ASSUME NEW w \in Writers, NEW e \in Event, WriteFails(w, e) PROVE Effect
    <2>1. Keeps({}) /\ Keeps({e}) /\ status'[e] = "refused"
      BY <1>6, <1>0 DEF WriteFails, Settle, Keeps, QueueTypes
    <2>2. CASE UNCHANGED <<file, ended>>
      BY <1>6, <2>1, <2>2 DEF Effect, Untouched, WriteFails
    <2>3. CASE status[e] = "verified" /\ Remnant(e)
      <3>1. /\ file' \in Seq(Line) /\ ended' \in BOOLEAN /\ (file' = <<>> => ended')
            /\ UNCHANGED <<file, ended>> \/ Grown(e) \/ Spoilt
        BY <2>3, RemnantFacts
      <3>2. Grown(e) \/ Spoilt => Lays(e)
        BY <1>6, <2>1, <2>3, <3>1 DEF Lays, WriteFails
      <3> QED BY <3>1, <3>2, <2>2 DEF Effect
    <2> QED BY <1>6, <2>2, <2>3 DEF WriteFails
  <1>7. ASSUME NEW w \in Writers, Crash(w) PROVE Effect
    <2> DEFINE Lost(d) == \E i \in DOMAIN queue[w] : queue[w][i] = d
    <2>1. \A x \in Event : status'[x] = IF Lost(x) THEN "lost" ELSE status[x]
      BY <1>7 DEF Crash
    <2>2. Keeps({}) /\ \A x \in Event : Keeps({x})
      BY <2>1 DEF Keeps
    <2>3. CASE UNCHANGED <<file, ended>>
      BY <1>7, <2>2, <2>3 DEF Effect, Untouched, Crash
    <2>4. ASSUME NEW e \in Event, Turn(w, e), status[e] = "verified", Remnant(e) PROVE Effect
      <3>1. /\ file' \in Seq(Line) /\ ended' \in BOOLEAN /\ (file' = <<>> => ended')
            /\ UNCHANGED <<file, ended>> \/ Grown(e) \/ Spoilt
        BY <2>4, RemnantFacts
      <3>2. Lost(e)
        BY <2>4, <1>0, Begun
      <3>3. status'[e] = "lost"
        BY <2>1, <3>2
      <3>4. Grown(e) \/ Spoilt => Lays(e)
        BY <1>7, <2>2, <2>4, <3>1, <3>3 DEF Lays, Crash
      <3> QED BY <3>1, <3>4, <2>3 DEF Effect
    <2> QED BY <1>7, <2>3, <2>4 DEF Crash
  <1>8. CASE Damage
    <2>1. Rearranged
      BY <1>8, DamageFacts DEF Rearranged, Damage
    <2> QED BY <2>1 DEF Effect
  <1>9. CASE UNCHANGED vars
    <2>1. Keeps({})
      BY <1>9 DEF Keeps, vars
    <2> QED BY <1>9, <2>1 DEF Effect, Untouched, vars
  <1> QED BY <1>1, <1>2, <1>3, <1>4, <1>5, <1>6, <1>7, <1>8, <1>9 DEF Next, Operate

LEMMA TypeStep ==
    ASSUME TypeOK, Queues, [Next]_vars
    PROVE  TypeOK'
  <1>1. QueueTypes'
    BY TypesOfQueues, QueuesStep DEF NextQueues
  <1>2. Effect
    BY Effects
  <1>3. file' \in Seq(Line) /\ ended' \in BOOLEAN /\ (file' = <<>> => ended') /\ before' \in [Event -> Seq(Event)]
    <2>1. CASE Untouched
      BY <2>1 DEF Untouched, TypeOK
    <2>2. CASE Rearranged
      BY <2>2 DEF Rearranged, TypeOK
    <2>3. ASSUME NEW e \in Event, Begins(e) PROVE before' \in [Event -> Seq(Event)]
      BY <2>3, Lines DEF Begins, TypeOK
    <2>4. ASSUME NEW e \in Event, Begins(e) PROVE file' \in Seq(Line) /\ ended' \in BOOLEAN /\ (file' = <<>> => ended')
      BY <2>4 DEF Begins, TypeOK
    <2>5. ASSUME NEW e \in Event, Lays(e)
          PROVE  file' \in Seq(Line) /\ ended' \in BOOLEAN /\ (file' = <<>> => ended') /\ before' \in [Event -> Seq(Event)]
      BY <2>5 DEF Lays, TypeOK
    <2> QED BY <1>2, <2>1, <2>2, <2>3, <2>4, <2>5 DEF Effect
  <1>4. faults \in Nat /\ damage \in Nat
    BY DEF TypeOK
  <1>5. faults' \in {faults, faults + 1} /\ damage' \in {damage, damage + 1}
    <2>1. ASSUME NEW w \in Writers, NEW e \in Event, Operate(w, e) PROVE UNCHANGED <<faults, damage>>
      BY <2>1 DEF Operate, Verify, Write, Refuse, Sync
    <2>2. ASSUME NEW w \in Writers, NEW e \in Event, Enqueue(w, e) PROVE UNCHANGED <<faults, damage>>
      BY <2>2 DEF Enqueue
    <2>3. ASSUME NEW w \in Writers, NEW e \in Event, WriteFails(w, e) PROVE faults' = faults + 1 /\ damage' = damage
      BY <2>3 DEF WriteFails
    <2>4. ASSUME NEW w \in Writers, Crash(w) PROVE faults' = faults + 1 /\ damage' = damage
      BY <2>4 DEF Crash
    <2>5. CASE Damage
      BY <2>5 DEF Damage
    <2>6. CASE UNCHANGED vars
      BY <2>6 DEF vars
    <2> QED BY <2>1, <2>2, <2>3, <2>4, <2>5, <2>6 DEF Next
  <1>6. faults' \in Nat /\ damage' \in Nat
    BY <1>4, <1>5
  <1> QED BY <1>1, <1>3, <1>6 DEF TypeOK, QueueTypes, Pending

\* An append chains what it found, and nothing that stands in the file has still to be
\* written: what the append of e found does not matter to any record.
LEMMA RecordsStep ==
    ASSUME TypeOK, Queues, Records, [Next]_vars
    PROVE  Records'
  <1>0. Effect /\ TypeOK'
    BY Effects, TypeStep
  <1>1. ASSUME NEW E, Keeps(E), before' = before PROVE \A e \in Event : Chained(before[e])'
    <2> SUFFICES ASSUME NEW e \in Event PROVE Chained(before[e])'
      OBVIOUS
    <2>1. Chained(before[e])
      BY DEF Records
    <2> QED BY <1>1, <2>1 DEF Chained, Keeps
  <1>2. CASE Untouched
    <2>1. \A e \in Event : Chained(before[e])'
      BY <1>1, <1>2 DEF Untouched
    <2>2. \A i \in DOMAIN file : status'[file[i].id] \notin Unwritten
      BY <1>2, Lines DEF Untouched, Keeps, Records
    <2>3. file' = file /\ before' = before
      BY <1>2 DEF Untouched
    <2> QED BY <2>1, <2>2, <2>3 DEF Records
  <1>3. CASE Rearranged
    <2>1. PICK f \in [DOMAIN file' -> DOMAIN file] :
             /\ \A i \in DOMAIN file' : file'[i].id = file[f[i]].id /\ file'[i].prev = file[f[i]].prev
             /\ \A i, j \in DOMAIN file' : f[i] = f[j] => i = j
      BY <1>3 DEF Rearranged
    <2>2. before' = before /\ status' = status
      BY <1>3 DEF Rearranged
    <2>3. \A e \in Event : Chained(before[e])'
      BY <2>2 DEF Records, Chained
    <2>4. ASSUME NEW i \in DOMAIN file'
          PROVE  /\ file'[i].prev = HeadOf(before[file'[i].id])
                 /\ status[file'[i].id] \notin Unwritten
      BY <2>1 DEF Records
    <2>5. ASSUME NEW i \in DOMAIN file', NEW j \in DOMAIN file', file'[j].id = file'[i].id
          PROVE  j = i
      <3>1. f[i] \in DOMAIN file /\ f[j] \in DOMAIN file /\ file[f[j]].id = file[f[i]].id
        BY <2>1, <2>5
      <3>2. f[j] = f[i]
        BY <3>1 DEF Records
      <3> QED BY <2>1, <3>2
    <2> QED BY <2>2, <2>3, <2>4, <2>5 DEF Records
  <1>4. ASSUME NEW e \in Event, Begins(e) PROVE Records'
    <2>1. /\ file' = file /\ status[e] = "queued" /\ before'[e] = Ids
          /\ \A x \in Event : x # e => before'[x] = before[x]
      BY <1>4 DEF Begins, TypeOK
    <2>2. \A x \in Event : status[x] \notin Unwritten => (x # e /\ status'[x] \notin Unwritten)
      BY <1>4, <2>1 DEF Begins, Keeps, Unwritten
    <2>3. ASSUME NEW i \in DOMAIN file
          PROVE  file[i].prev = HeadOf(before'[file[i].id]) /\ status'[file[i].id] \notin Unwritten
      BY <2>1, <2>2, Lines DEF Records
    <2>4. ASSUME NEW x \in Event, x # e PROVE Chained(before[x])'
      <3>1. Chained(before[x])
        BY DEF Records
      <3> QED BY <2>1, <2>2, <2>4, <3>1 DEF Chained
    <2>5. Chained(before[e])'
      <3>1. CASE Len(file) = 0
        <4>1. Ids = <<>>
          BY <3>1, Lines
        <4> QED BY <2>1, <4>1 DEF Chained
      <3>2. CASE Len(file) # 0
        <4> DEFINE n == Len(file)
        <4>1. n \in DOMAIN file /\ n \in 1..Len(Ids)
          BY <3>2, Lines
        <4>2. before[file[n].id] = SubSeq(Ids, 1, n - 1)
          BY <1>4, <4>1, TrueHistory DEF Begins, VerifiedIsHistory
        <4>3. file[n].id \in Event /\ status[file[n].id] \notin Unwritten
          BY <4>1, Lines DEF Records
        <4>4. Append(SubSeq(Ids, 1, n - 1), Ids[n]) = SubSeq(Ids, 1, n)
          BY <4>1, Lines, Grows
        <4>5. SubSeq(Ids, 1, n) = Ids
          BY <4>1, Lines, SubSeqFull
        <4>6. Ids = Append(before[file[n].id], file[n].id)
          BY <4>1, <4>2, <4>4, <4>5, Lines
        <4>7. before'[e] = Append(before'[file[n].id], file[n].id) /\ status'[file[n].id] \notin Unwritten
          BY <4>3, <4>6, <2>1, <2>2
        <4> QED BY <4>3, <4>7 DEF Chained
      <3> QED BY <3>1, <3>2
    <2>6. \A i, j \in DOMAIN file : file[j].id = file[i].id => j = i
      BY DEF Records
    <2> QED BY <2>1, <2>3, <2>4, <2>5, <2>6 DEF Records
  <1>5. ASSUME NEW e \in Event, Lays(e) PROVE Records'
    <2>1. /\ before' = before /\ status[e] \in Unwritten /\ status'[e] \notin Unwritten
          /\ \A x \in Event : status[x] \notin Unwritten => status'[x] \notin Unwritten
      BY <1>5 DEF Lays, Keeps, Unwritten
    <2>2. \A x \in Event : Chained(before[x])'
      BY <1>1, <1>5 DEF Lays
    <2>3. \A i \in DOMAIN file : /\ file[i].id # e /\ status'[file[i].id] \notin Unwritten
                                 /\ file[i].prev = HeadOf(before[file[i].id])
      BY <2>1, Lines DEF Records
    <2>4. \A i, j \in DOMAIN file : file[j].id = file[i].id => j = i
      BY DEF Records
    <2>5. CASE Spoilt
      BY <2>1, <2>2, <2>3, <2>4, <2>5 DEF Records, Spoilt
    <2>6. CASE Grown(e)
      <3>1. \A i \in DOMAIN file' : \/ i \in DOMAIN file /\ file'[i] = file[i]
                                    \/ i = Len(file) + 1 /\ file'[i].id = e /\ file'[i].prev = HeadOf(before[e])
        BY <2>6, Lines DEF Grown
      <3>2. ASSUME NEW i \in DOMAIN file'
            PROVE  file'[i].prev = HeadOf(before[file'[i].id]) /\ status'[file'[i].id] \notin Unwritten
        BY <3>1, <2>1, <2>3
      <3>3. ASSUME NEW i \in DOMAIN file', NEW j \in DOMAIN file', file'[j].id = file'[i].id PROVE j = i
        BY <3>1, <3>3, <2>3, <2>4
      <3> QED BY <2>1, <2>2, <3>2, <3>3 DEF Records
    <2> QED BY <1>5, <2>5, <2>6 DEF Lays
  <1> QED BY <1>0, <1>2, <1>3, <1>4, <1>5 DEF Effect

LEMMA CompleteStep ==
    ASSUME TypeOK, Queues, Complete, [Next]_vars
    PROVE  Complete'
  <1>0. Effect
    BY Effects
  <1> USE DEF OnFile
  <1>1. CASE Untouched
    BY <1>1 DEF Untouched, Keeps, Complete
  <1>2. CASE Rearranged
    <2>1. damage' # 0
      BY <1>2 DEF Rearranged, TypeOK
    <2> QED BY <2>1 DEF Complete
  <1>3. ASSUME NEW e \in Event, Begins(e) PROVE Complete'
    BY <1>3 DEF Begins, Keeps, Complete
  <1>4. ASSUME NEW e \in Event, Lays(e) PROVE Complete'
    <2> SUFFICES ASSUME damage = 0, NEW x \in Event, status'[x] \in OnFile
                 PROVE  \E i \in DOMAIN file' : file'[i].id = x \/ ~ file'[i].sound
      BY <1>4 DEF Complete, Lays
    <2>1. x = e \/ \E i \in DOMAIN file : file[i].id = x \/ ~ file[i].sound
      BY <1>4 DEF Lays, Keeps, Complete
    <2>2. CASE Spoilt
      <3>1. Len(file) \in DOMAIN file'
        BY <2>2, Lines DEF Spoilt
      <3> QED BY <2>2, <3>1 DEF Spoilt
    <2>3. CASE Grown(e)
      <3>1. DOMAIN file \subseteq DOMAIN file' /\ Len(file) + 1 \in DOMAIN file'
        BY <2>3, Lines DEF Grown
      <3> QED BY <2>1, <2>3, <3>1 DEF Grown
    <2> QED BY <1>4, <2>2, <2>3 DEF Lays
  <1> QED BY <1>0, <1>1, <1>2, <1>3, <1>4 DEF Effect

\* Two appends that overlapped have overlapped.
LEMMA OverlapStays ==
    ASSUME \A x \in Event : status[x] \in OnFile =>
              (status'[x] \in OnFile /\ by'[x] = by[x] /\ before'[x] = before[x]),
           Overlapped
    PROVE  Overlapped'
  <1>1. PICK d \in Event, e \in Event :
           /\ by[d] # by[e] /\ {status[d], status[e]} \subseteq OnFile
           /\ \A i \in DOMAIN before[d] : before[d][i] # e
           /\ \A i \in DOMAIN before[e] : before[e][i] # d
    BY DEF Overlapped, OnFile
  <1>2. /\ by'[d] # by'[e] /\ {status'[d], status'[e]} \subseteq OnFile
        /\ \A i \in DOMAIN before'[d] : before'[d][i] # e
        /\ \A i \in DOMAIN before'[e] : before'[e][i] # d
    BY <1>1
  <1> QED BY <1>2 DEF Overlapped, OnFile

\* The file is left as it is, and no append begins.
LEMMA QuietStep ==
    ASSUME TypeOK, Records, Undisturbed, UNCHANGED <<file, ended>>,
           \A x \in Event : /\ status[x] \in OnFile =>
                                 (status'[x] \in OnFile /\ by'[x] = by[x] /\ before'[x] = before[x])
                            /\ status'[x] = "verified" =>
                                 (status[x] = "verified" /\ by'[x] = by[x] /\ before'[x] = before[x])
    PROVE  Undisturbed'
  <1>1. ended' /\ \A i \in DOMAIN file' : file'[i].sound /\ status'[file'[i].id] \in OnFile
    BY Lines DEF Undisturbed
  <1>2. ASSUME NEW e \in Event, status'[e] = "verified" PROVE Found(e)'
    <2>1. Found(e) /\ before'[e] = before[e] /\ by'[e] = by[e] /\ file' = file
      BY <1>2 DEF Undisturbed
    <2>2. ASSUME NEW i \in DOMAIN file, i > Len(before[e]) PROVE Apart(file[i].id, e)'
      <3>1. Apart(file[i].id, e)
        BY <2>1, <2>2 DEF Found
      <3>2. file[i].id \in Event /\ status[file[i].id] \in OnFile
        BY Lines DEF Undisturbed
      <3>3. by'[file[i].id] = by[file[i].id] /\ before'[file[i].id] = before[file[i].id]
        BY <3>2
      <3> QED BY <2>1, <3>1, <3>3 DEF Apart
    <2> QED BY <2>1, <2>2 DEF Found
  <1>3. Overlapped' \/ Verified'
    <2>1. CASE Overlapped
      BY <2>1, OverlapStays
    <2>2. CASE Verified
      BY <2>2 DEF Verified, Linked
    <2> QED BY <2>1, <2>2 DEF Undisturbed
  <1> QED BY <1>1, <1>2, <1>3 DEF Undisturbed

LEMMA VerifyAlone ==
    ASSUME TypeOK, Queues, Records, Undisturbed, NEW w \in Writers, NEW e \in Event, Verify(w, e)
    PROVE  Undisturbed'
  <1>1. /\ file' = file /\ ended' = ended /\ by' = by /\ status[e] = "queued" /\ status'[e] = "verified"
        /\ before'[e] = Ids
        /\ \A x \in Event : x # e => (status'[x] = status[x] /\ before'[x] = before[x])
    BY DEF Verify, TypeOK
  <1>2. \A i \in DOMAIN file : file[i].id \in Event /\ file[i].id # e /\ status'[file[i].id] \in OnFile
    BY <1>1, Lines DEF Undisturbed, OnFile
  <1>3. Found(e)'
    BY <1>1, Lines DEF Found
  <1>4. ASSUME NEW x \in Event, x # e, status[x] = "verified" PROVE Found(x)'
    <2>1. Found(x) /\ before'[x] = before[x]
      BY <1>1, <1>4 DEF Undisturbed
    <2>2. ASSUME NEW i \in DOMAIN file, i > Len(before[x]) PROVE Apart(file[i].id, x)'
      <3>1. Apart(file[i].id, x)
        BY <2>1, <2>2 DEF Found
      <3>2. before'[file[i].id] = before[file[i].id]
        BY <1>1, <1>2
      <3> QED BY <2>1, <1>1, <3>1, <3>2 DEF Apart
    <2> QED BY <1>1, <2>1, <2>2 DEF Found
  <1>5. Overlapped' \/ Verified'
    BY <1>1 DEF Verify, Verified, Linked
  <1> QED BY <1>1, <1>2, <1>3, <1>4, <1>5 DEF Undisturbed

\* An append that wrote behind a record it had not found overlapped with it.
LEMMA WriteAlone ==
    ASSUME TypeOK, Queues, Records, Records', Undisturbed, NEW w \in Writers, NEW e \in Event, Write(w, e)
    PROVE  Undisturbed'
  <1> DEFINE n == Len(file)
  <1>1. /\ Turn(w, e) /\ status[e] = "verified" /\ status'[e] = "written" /\ ended' = TRUE
        /\ before' = before /\ by' = by
        /\ \A x \in Event : x # e => status'[x] = status[x]
    BY DEF Write, TypeOK, history
  <1>2. /\ n \in Nat /\ DOMAIN file = 1..n /\ DOMAIN file' = 1..(n + 1) /\ Len(file') = n + 1
        /\ \A i \in DOMAIN file : file'[i] = file[i]
        /\ file'[n + 1].id = e /\ file'[n + 1].prev = HeadOf(before[e]) /\ file'[n + 1].sound
    <2>1. file' = Laid(e, TRUE) /\ ended
      BY DEF Write, Undisturbed
    <2>2. Grown(e) /\ file'[n + 1].sound = TRUE
      BY <2>1, LaidFacts DEF Spoilt
    <2> QED BY <2>2, Lines DEF Grown
  <1>3. \A i \in DOMAIN file : /\ file[i].id \in Event /\ status[file[i].id] \in OnFile /\ file[i].id # e
                               /\ status'[file[i].id] \in OnFile /\ file[i].sound
    BY <1>1, Lines DEF Undisturbed, OnFile
  <1>4. \A i \in DOMAIN file' : file'[i].sound /\ status'[file'[i].id] \in OnFile
    BY <1>1, <1>2, <1>3 DEF OnFile
  <1>5. \A x \in Event : status[x] = "verified" =>
           (Found(x) /\ Len(before[x]) \in Nat /\ DOMAIN before[x] = 1..Len(before[x]))
    BY SeqFacts DEF TypeOK, Undisturbed
  <1>6. ASSUME NEW x \in Event, NEW y \in Event, status[x] = "verified", status[y] = "verified",
               NEW i \in DOMAIN before[x]
        PROVE  before[x][i] # y
    <2>1. Found(x) /\ DOMAIN before[x] = 1..Len(before[x]) /\ Len(before[x]) \in Nat
      BY <1>5, <1>6
    <2>2. i \in DOMAIN file /\ before[x][i] = file[i].id
      BY <2>1, <1>2, <1>6 DEF Found
    <2>3. status[before[x][i]] \in OnFile
      BY <2>2, <1>3
    <2> QED BY <2>3, <1>6 DEF OnFile
  <1>7. ASSUME NEW x \in Event, status'[x] = "verified" PROVE Found(x)'
    <2>1. x # e /\ status[x] = "verified"
      BY <1>1, <1>7
    <2>2. by[x] # by[e]
      BY <1>1, <2>1, OneBegun, TypesOfQueues
    <2>3. Apart(e, x)
      BY <1>1, <1>6, <2>1, <2>2 DEF Apart
    <2>4. Found(x)
      BY <2>1, <1>5
    <2>5. ASSUME NEW i \in DOMAIN file', i > Len(before[x]) PROVE Apart(file'[i].id, x)
      <3>1. CASE i \in DOMAIN file
        BY <3>1, <1>2, <2>4, <2>5 DEF Found
      <3>2. CASE i \notin DOMAIN file
        BY <3>2, <1>2, <2>3
      <3> QED BY <3>1, <3>2
    <2>6. Len(before[x]) <= Len(file') /\ \A i \in DOMAIN before[x] : before[x][i] = file'[i].id
      BY <1>2, <1>5, <2>1, <2>4 DEF Found
    <2> QED BY <1>1, <2>5, <2>6 DEF Found, Apart
  <1>8. Overlapped' \/ Verified'
    <2>1. CASE Overlapped
      <3>1. \A x \in Event : status[x] \in OnFile =>
               (status'[x] \in OnFile /\ by'[x] = by[x] /\ before'[x] = before[x])
        BY <1>1 DEF OnFile
      <3> QED BY <2>1, <3>1, OverlapStays
    <2>2. CASE Len(before[e]) < n
      <3> DEFINE k == Len(before[e]) + 1
                 d == file[k].id
      <3>1. k \in DOMAIN file /\ k > Len(before[e])
        BY <2>2, <1>1, <1>2, <1>5
      <3>2. Apart(d, e) /\ d \in Event /\ status'[d] \in OnFile /\ status'[e] \in OnFile
        BY <3>1, <1>1, <1>3, <1>5 DEF Found, OnFile
      <3>3. /\ by'[d] # by'[e] /\ {status'[d], status'[e]} \subseteq OnFile
            /\ \A i \in DOMAIN before'[d] : before'[d][i] # e
            /\ \A i \in DOMAIN before'[e] : before'[e][i] # d
        BY <3>2, <1>1 DEF Apart
      <3> HIDE DEF d
      <3> QED BY <3>2, <3>3 DEF Overlapped, OnFile
    <2>3. CASE Verified /\ ~ (Len(before[e]) < n)
      <3>1. Len(before[e]) = n /\ \A i \in DOMAIN before[e] : before[e][i] = file[i].id
        BY <2>3, <1>1, <1>2, <1>5 DEF Found
      <3>2. HeadOf(before[e]) = IF n = 0 THEN None ELSE file[n].id
        <4>1. before[e] = <<>> <=> n = 0
          BY <3>1, SeqFacts DEF TypeOK
        <4>2. n # 0 => n \in DOMAIN before[e]
          BY <1>1, <1>2, <1>5, <3>1
        <4> QED BY <3>1, <4>1, <4>2 DEF HeadOf
      <3>3. \A i \in DOMAIN file' : Linked(i)'
        <4>1. ASSUME NEW i \in DOMAIN file PROVE Linked(i)'
          <5>1. Linked(i)
            BY <2>3 DEF Verified
          <5>2. i # 1 => i - 1 \in DOMAIN file
            BY <1>2
          <5> QED BY <1>2, <5>1, <5>2 DEF Linked
        <4>2. ASSUME NEW i \in Nat, i = n + 1 PROVE Linked(i)'
          <5>1. n # 0 => (n \in DOMAIN file /\ file'[n] = file[n])
            BY <1>2
          <5>2. i - 1 = n /\ (i = 1 <=> n = 0)
            BY <1>2, <4>2
          <5> QED BY <1>2, <3>2, <4>2, <5>1, <5>2 DEF Linked
        <4> QED BY <4>1, <4>2, <1>2
      <3>4. \A i, j \in DOMAIN file' : file'[j].id = file'[i].id => j = i
        BY DEF Records
      <3> QED BY <1>4, <3>3, <3>4 DEF Verified
    <2> QED BY <2>1, <2>2, <2>3 DEF Undisturbed
  <1> QED BY <1>1, <1>4, <1>7, <1>8 DEF Undisturbed

LEMMA AloneStep ==
    ASSUME TypeOK, Queues, Records, Alone, [Next]_vars
    PROVE  Alone'
  <1>0. Records'
    BY RecordsStep
  <1> SUFFICES ASSUME faults' = 0, damage' = 0 PROVE Undisturbed'
    BY DEF Alone
  <1> USE DEF OnFile, history
  <1>1. faults \in Nat /\ damage \in Nat /\ faults' # faults + 1 /\ damage' # damage + 1
    BY DEF TypeOK
  <1>2. (faults = 0 /\ damage = 0) => Undisturbed
    BY DEF Alone
  <1>3. ASSUME NEW w \in Writers, NEW e \in Event, Enqueue(w, e) PROVE Undisturbed'
    BY <1>2, <1>3, QuietStep DEF Enqueue, TypeOK
  <1>4. ASSUME NEW w \in Writers, NEW e \in Event, Verify(w, e) PROVE Undisturbed'
    BY <1>2, <1>4, VerifyAlone DEF Verify
  <1>5. ASSUME NEW w \in Writers, NEW e \in Event, Write(w, e) PROVE Undisturbed'
    BY <1>0, <1>2, <1>5, WriteAlone DEF Write
  <1>6. ASSUME NEW w \in Writers, NEW e \in Event, Refuse(w, e) PROVE Undisturbed'
    BY <1>2, <1>6, QuietStep DEF Refuse, Settle, TypeOK
  <1>7. ASSUME NEW w \in Writers, NEW e \in Event, Sync(w, e) PROVE Undisturbed'
    BY <1>2, <1>7, QuietStep DEF Sync, Settle, TypeOK
  <1>8. CASE UNCHANGED vars
    BY <1>2, <1>8, QuietStep DEF vars
  <1>9. \A w \in Writers, e \in Event : ~ WriteFails(w, e)
    BY <1>1 DEF WriteFails
  <1>10. \A w \in Writers : ~ Crash(w)
    BY <1>1 DEF Crash
  <1>11. ~ Damage
    BY <1>1 DEF Damage
  <1> QED BY <1>3, <1>4, <1>5, <1>6, <1>7, <1>8, <1>9, <1>10, <1>11 DEF Next, Operate

-----------------------------------------------------------------------------
(* The theorems.                                                            *)

LEMMA InitLedger == Init => LedgerInv
  <1> SUFFICES ASSUME Init PROVE LedgerInv
    OBVIOUS
  <1>1. TypeOK
    BY DEF Init, TypeOK, Status
  <1>2. Queues
    BY DEF Init, Queues, Pending
  <1>3. Records
    BY DEF Init, Records, Chained
  <1>4. Complete
    BY DEF Init, Complete, OnFile
  <1>5. Undisturbed
    BY DEF Init, Undisturbed, Verified
  <1> QED BY <1>1, <1>2, <1>3, <1>4, <1>5 DEF LedgerInv, Alone

\* Each event waits once, each record chains what its append found, a record that was
\* written is there or the file shows the damage, and nothing but two ledgers that append
\* at once breaks the chain by itself.
THEOREM LedgerCorrect == Spec => []LedgerInv
  <1>1. LedgerInv /\ [Next]_vars => LedgerInv'
    <2> SUFFICES ASSUME LedgerInv, [Next]_vars PROVE LedgerInv'
      OBVIOUS
    <2>1. TypeOK' /\ Queues'
      BY TypesOfQueues, QueuesStep, TypeStep DEF LedgerInv, NextQueues
    <2> QED BY <2>1, RecordsStep, CompleteStep, AloneStep DEF LedgerInv
  <1> QED BY <1>1, InitLedger, PTL DEF Spec

\* The ledger object's promise: a file that verifies is the true history of what its
\* appends found and, unless somebody else changed it, holds all that was acknowledged;
\* without failures, only two ledgers that append at once can break it.
THEOREM HistoryHolds == Spec => []HistoryInv
  <1>1. LedgerInv => HistoryInv
    <2> SUFFICES ASSUME LedgerInv PROVE HistoryInv
      OBVIOUS
    <2>1. VerifiedIsHistory
      BY TrueHistory DEF LedgerInv
    <2>2. NeverBreaksAlone
      BY DEF LedgerInv, Alone, Undisturbed, NeverBreaksAlone
    <2>3. VerifiedIsComplete
      BY DEF LedgerInv, Complete, OnFile, Verified, VerifiedIsComplete
    <2> QED BY <2>1, <2>2, <2>3 DEF LedgerInv, HistoryInv
  <1> QED BY <1>1, LedgerCorrect, PTL

-----------------------------------------------------------------------------
(* The file implements the sealed log: Kept is the prefix of good lines, so *)
(* a step either leaves that prefix or, where the whole file is good, adds  *)
(* the record after the last.                                               *)

KeptIds == [i \in Kept |-> file[i].id]

LEMMA KeptIsPrefix ==
    ASSUME TypeOK
    PROVE  /\ \E k \in 0..Len(file) : Kept = 1..k
           /\ KeptIds \in Seq(Event)
  <1>0. Len(file) \in Nat /\ DOMAIN file = 1..Len(file) /\ \A i \in DOMAIN file : file[i].id \in Event
    BY Lines
  <1> DEFINE Bad == {i \in DOMAIN file : ~ Good(i)}
  <1>1. \E k \in 0..Len(file) : Kept = 1..k
    <2>1. CASE Bad = {}
      <3>1. \A i \in 1..Len(file) : Good(i)
        BY <2>1, <1>0
      <3> HIDE DEF Bad
      <3>2. Kept = 1..Len(file)
        BY <1>0, <3>1 DEF Kept
      <3>3. Len(file) \in 0..Len(file)
        BY <1>0
      <3> QED BY <3>2, <3>3
    <2>2. CASE Bad # {}
      <3>1. Bad \subseteq Nat
        BY <1>0
      <3>2. PICK m \in Bad : \A i \in Bad : m <= i
        BY <2>2, <3>1, LeastElement
      <3>3. m \in 1..Len(file) /\ ~ Good(m) /\ \A i \in 1..Len(file) : i < m => Good(i)
        BY <3>2, <1>0
      <3> HIDE DEF Bad
      <3>4. \A i \in 1..Len(file) : i \in Kept <=> i < m
        BY <1>0, <3>3 DEF Kept
      <3>5. Kept = 1..(m - 1)
        BY <1>0, <3>3, <3>4 DEF Kept
      <3>6. m - 1 \in 0..Len(file)
        BY <1>0, <3>3
      <3> QED BY <3>5, <3>6
    <2> QED BY <2>1, <2>2
  <1>2. KeptIds \in Seq(Event)
    <2>1. PICK k \in 0..Len(file) : Kept = 1..k
      BY <1>1
    <2>2. KeptIds \in [1..k -> Event] /\ k \in Nat
      BY <1>0, <2>1 DEF KeptIds
    <2> QED BY <2>2
  <1> QED BY <1>1, <1>2

LEMMA KeptIsSeq == TypeOK => KeptIds \in Seq(Event)
  BY KeptIsPrefix

LEMMA LogInit == Init => Log!Init
  <1> SUFFICES ASSUME Init PROVE Log!Init
    OBVIOUS
  <1>1. file = <<>> /\ Kept = {}
    BY DEF Init, Kept
  <1>2. [i \in Kept |-> file[i].id] = <<>>
    BY <1>1
  <1>3. Verified /\ damage = 0
    BY <1>1 DEF Init, Verified
  <1> QED BY <1>2, <1>3 DEF Log!Init

LEMMA LogUntouched ==
    ASSUME UNCHANGED <<file, ended, damage>>
    PROVE  UNCHANGED <<KeptIds, ~ Verified, damage>>
  BY DEF KeptIds, Kept, Good, Linked, Verified
\* A record laid on an unfinished line is not kept, and what was kept still is.
LEMMA LogSpoilt ==
    ASSUME TypeOK, Spoilt
    PROVE  KeptIds' = KeptIds /\ ~ Verified'
  <1> DEFINE n == Len(file)
  <1>0. /\ n \in Nat /\ n > 0 /\ ~ ended /\ DOMAIN file = 1..n /\ DOMAIN file' = 1..n /\ Len(file') = n
        /\ \A i \in 1..n : file'[i].id = file[i].id /\ file'[i].prev = file[i].prev
        /\ \A i \in 1..n : i < n => file'[i].sound = file[i].sound
        /\ ~ file'[n].sound
    BY Lines DEF Spoilt
  <1>1. ~ Good(n)
    BY <1>0 DEF Good
  <1>10. ASSUME NEW i \in 1..n, i = n PROVE ~ Good(i)'
    BY <1>0, <1>10 DEF Good
  <1>2. ASSUME NEW i \in 1..n, i < n PROVE Good(i)' <=> Good(i)
    <2>1. i # 1 => (i - 1 \in 1..n)
      BY <1>0
    <2>2. Linked(i)' <=> Linked(i)
      BY <1>0, <2>1 DEF Linked
    <2> QED BY <1>0, <1>2, <2>2 DEF Good
  <1>3. ASSUME NEW i \in 1..n PROVE i \in Kept' <=> i \in Kept
    <2>1. CASE i = n
      <3>1. i \in 1..i
        BY <1>0
      <3>2. ~ Good(i) /\ ~ Good(i)'
        BY <1>1, <1>10, <2>1
      <3> QED BY <3>1, <3>2 DEF Kept
    <2>2. CASE i # n
      <3>1. \A j \in 1..i : j \in 1..n /\ j < n
        <4>1. n \in Nat
          BY <1>0
        <4> HIDE DEF n
        <4> QED BY <2>2, <4>1
      <3> QED BY <1>0, <1>2, <3>1 DEF Kept
    <2> QED BY <2>1, <2>2
  <1>4. Kept' = Kept /\ \A i \in Kept : file'[i].id = file[i].id
    BY <1>0, <1>3 DEF Kept
  <1>5. ~ Verified'
    BY <1>0 DEF Verified
  <1> QED BY <1>4, <1>5 DEF KeptIds

\* A record laid after a finished line is kept if the whole file is good and its link
\* holds; if not, what was kept is what is kept.
LEMMA LogGrown ==
    ASSUME TypeOK, Records, Records', NEW e \in Event, Grown(e), status[e] = "verified", file' \in Seq(Line)
    PROVE  \/ Verified /\ Verified' /\ KeptIds' = Append(KeptIds, e) /\ \A i \in DOMAIN KeptIds : KeptIds[i] # e
           \/ KeptIds' = KeptIds /\ (Verified' => Verified)
  <1> DEFINE n == Len(file)
  <1>0. /\ n \in Nat /\ ended /\ DOMAIN file = 1..n /\ DOMAIN file' = 1..(n + 1) /\ Len(file') = n + 1
        /\ \A i \in 1..n : file'[i] = file[i]
        /\ file'[n + 1].id = e
    BY Lines DEF Grown
  <1>1. ASSUME NEW i \in 1..n
        PROVE  (Linked(i)' <=> Linked(i)) /\ (Good(i)' <=> Good(i)) /\ (Good(i) <=> file[i].sound /\ Linked(i))
    <2>1. i # 1 => i - 1 \in 1..n
      BY <1>0
    <2>2. Linked(i)' <=> Linked(i)
      BY <1>0, <2>1 DEF Linked
    <2> QED BY <1>0, <2>2 DEF Good
  <1>2. ASSUME NEW i \in 1..n PROVE i \in Kept' <=> i \in Kept
    <2>1. \A j \in 1..i : j \in 1..n
      BY <1>0
    <2> QED BY <1>0, <1>1, <2>1 DEF Kept
  <1>3. Verified' => Verified
    BY <1>0, <1>1 DEF Verified, Records
  <1>4. CASE n + 1 \notin Kept'
    <2>1. Kept' = Kept /\ \A i \in Kept : file'[i].id = file[i].id
      BY <1>0, <1>2, <1>4 DEF Kept
    <2> QED BY <1>3, <2>1 DEF KeptIds
  <1>5. CASE n + 1 \in Kept'
    <2>1. \A i \in 1..(n + 1) : Good(i)'
      BY <1>0, <1>5 DEF Kept
    <2>2. \A i \in 1..(n + 1) : file'[i].sound /\ Linked(i)'
      BY <2>1 DEF Good
    <2>3. Verified'
      BY <1>0, <2>2 DEF Verified, Records
    <2>4. \A i \in 1..n : Good(i)
      BY <1>0, <1>1, <2>1
    <2>5. Kept = 1..n
      BY <1>0, <2>4 DEF Kept
    <2>6. Kept' = 1..(n + 1)
      BY <1>0, <1>2, <1>5, <2>5 DEF Kept
    <2>7. KeptIds \in Seq(Event) /\ Len(KeptIds) = n /\ DOMAIN KeptIds = 1..n /\ \A i \in 1..n : KeptIds[i] = file[i].id
      <3>1. DOMAIN KeptIds = 1..n /\ \A i \in 1..n : KeptIds[i] = file[i].id
        BY <2>5 DEF KeptIds
      <3>2. KeptIds \in Seq(Event)
        BY KeptIsPrefix
      <3>3. Len(KeptIds) = n
        BY <1>0, <3>1, <3>2, SeqFacts
      <3> QED BY <3>1, <3>2, <3>3
    <2>8. /\ KeptIds' = [i \in 1..(n + 1) |-> file'[i].id]
          /\ KeptIds' \in [1..(n + 1) -> Event]
      <3>1. KeptIds' = [i \in 1..(n + 1) |-> file'[i].id]
        BY <2>6 DEF KeptIds
      <3>2. \A i \in 1..(n + 1) : file'[i].id \in Event
        BY <1>0, Lines
      <3> QED BY <3>1, <3>2
    <2>9. KeptIds' = Append(KeptIds, e)
      <3> DEFINE s == Append(KeptIds, e)
      <3>1. s \in Seq(Event) /\ Len(s) = n + 1 /\ s[n + 1] = e /\ \A i \in 1..n : s[i] = file[i].id
        BY <2>7, AppendFacts
      <3>2. KeptIds' \in Seq(Event) /\ Len(KeptIds') = n + 1
        BY <1>0, <2>8
      <3>3. \A i \in 1..(n + 1) : KeptIds'[i] = s[i]
        BY <1>0, <2>8, <3>1
      <3> DEFINE k == KeptIds'
      <3>4. k \in Seq(Event) /\ s \in Seq(Event) /\ Len(k) = Len(s) /\ \A i \in 1..Len(k) : k[i] = s[i]
        BY <1>0, <3>1, <3>2, <3>3
      <3>5. k = s
        <4> HIDE DEF s, k
        <4> QED BY <3>4, EqualSeqs
      <3> QED BY <3>5
    <2>10. \A i \in DOMAIN KeptIds : KeptIds[i] # e
      BY <1>0, <2>7 DEF Records, Unwritten
    <2> QED BY <1>3, <2>3, <2>9, <2>10
  <1> QED BY <1>4, <1>5

LEMMA LogStep ==
    ASSUME LedgerInv, LedgerInv', [Next]_vars
    PROVE  Log!Next \/ UNCHANGED <<KeptIds, ~ Verified, damage>>
  <1> DEFINE Step == Log!Next \/ UNCHANGED <<KeptIds, ~ Verified, damage>>
  <1>0. TypeOK /\ TypeOK' /\ Queues /\ Records /\ Records' /\ Effect
    BY Effects DEF LedgerInv
  <1>1. CASE Untouched
    BY <1>1, LogUntouched DEF Untouched
  <1>2. CASE Rearranged
    <2>1. (KeptIds \in Seq(Event))'
      BY <1>0, KeptIsSeq, PTL
    <2>2. damage' = damage + 1 /\ (~ Verified') \in BOOLEAN
      BY <1>2 DEF Rearranged
    <2>3. Log!Tamper
      BY <2>1, <2>2 DEF Log!Tamper, KeptIds
    <2> QED BY <2>3 DEF Log!Next
  <1>3. ASSUME NEW e \in Event, Begins(e) PROVE Step
    BY <1>3, LogUntouched DEF Begins
  <1>4. ASSUME NEW e \in Event, Lays(e) PROVE Step
    <2>0. damage' = damage /\ status[e] = "verified" /\ file' \in Seq(Line)
      BY <1>4 DEF Lays
    <2>1. ASSUME KeptIds' = KeptIds, Verified' => Verified PROVE Step
      <3>1. CASE Verified' <=> Verified
        BY <2>0, <2>1, <3>1
      <3>2. CASE Verified /\ ~ Verified'
        <4>1. Log!Seal
          BY <2>0, <2>1, <3>2 DEF Log!Seal, KeptIds
        <4> QED BY <4>1 DEF Log!Next
      <3> QED BY <2>1, <3>1, <3>2
    <2>2. CASE Spoilt
      BY <1>0, <2>1, <2>2, LogSpoilt
    <2>3. CASE Grown(e)
      <3>1. ASSUME Verified, Verified', KeptIds' = Append(KeptIds, e), \A i \in DOMAIN KeptIds : KeptIds[i] # e
            PROVE  Step
        <4>1. Log!Record(e)
          BY <2>0, <3>1 DEF Log!Record, KeptIds
        <4> QED BY <4>1 DEF Log!Next
      <3> QED BY <1>0, <2>0, <2>1, <2>3, <3>1, LogGrown
    <2> QED BY <1>4, <2>2, <2>3 DEF Lays
  <1> QED BY <1>0, <1>1, <1>2, <1>3, <1>4 DEF Effect

\* The file implements the log: what a ledger has kept is only added to at the end, each
\* event once and only while the file verifies, and no code makes a file that fails
\* verify again, whatever fails, crashes or overlaps.
THEOREM LedgerIsALog == Spec => RefinesLog
  <1>1. LedgerInv /\ LedgerInv' /\ [Next]_vars => (Log!Next \/ UNCHANGED <<KeptIds, ~ Verified, damage>>)
    BY LogStep
  <1>2. LedgerInv /\ LedgerInv' /\ [Next]_vars => [Log!Next]_<<KeptIds, ~ Verified, damage>>
    BY <1>1
  <1> QED BY <1>2, LogInit, LedgerCorrect, PTL DEF Spec, RefinesLog, Log!Spec, KeptIds
==============================================================================
