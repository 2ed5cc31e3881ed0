---------------------------- MODULE EvidenceLedger ----------------------------
(***************************************************************************)
(* LocalAuthorityEventLedger (packages/evidence/src/index.ts): authority   *)
(* events in a file of JSON lines, each carrying the hash of the one       *)
(* before.                                                                 *)
(*                                                                         *)
(* An append reads and verifies the whole file, then writes one line, then *)
(* flushes it: three steps, which a queue keeps in order within one ledger *)
(* object.  The write is not atomic.  What is left of it may be nothing, a *)
(* fragment, or the whole record without its newline, and the next line    *)
(* then starts on the same one.                                            *)
(*                                                                         *)
(* A hash is modelled by what it binds: prev names the record before, and  *)
(* a line is sound when it parses and its content matches its hash.        *)
(***************************************************************************)
EXTENDS Naturals, Sequences

CONSTANTS
    Writers,    \* ledger objects open on the file
    MaxEvents,  \* bound on the events handed to the ledger
    MaxFaults,  \* bound on crashes and failed writes
    MaxDamage   \* bound on changes made to the file by anyone else

ASSUME BoundsAssumption == {MaxEvents, MaxFaults, MaxDamage} \subseteq Nat

VARIABLES
    file,       \* the lines of the file
    ended,      \* the file ends with a newline (or is empty)
    queue,      \* writer -> the events whose append has not settled, in order
    status,     \* event -> how far its append has come
    by,         \* event -> the ledger it was handed to (history)
    before,     \* event -> the records its append found in the file (history)
    faults, damage

history == <<by, before>>
vars == <<file, ended, queue, status, history, faults, damage>>

Event == 1..MaxEvents
None == 0
Line == [id : Event, prev : Event \cup {None}, sound : BOOLEAN]
Status == {"none", "queued", "verified", "written", "acknowledged", "refused", "lost"}

Ids == [i \in DOMAIN file |-> file[i].id]
HeadOf(ids) == IF ids = <<>> THEN None ELSE ids[Len(ids)]

\* Mutant of Linked: a record is not compared with the one before.
LinkedBlindly(i) == TRUE

Linked(i) == file[i].prev = (IF i = 1 THEN None ELSE file[i - 1].id)

\* verify, which list precedes: every line parses, names are unique, every link
\* and every hash match
Verified ==
    \A i \in DOMAIN file :
        /\ file[i].sound /\ Linked(i)
        /\ \A j \in DOMAIN file : file[j].id = file[i].id => j = i

Init ==
    /\ file = <<>> /\ ended = TRUE
    /\ queue = [w \in Writers |-> <<>>]
    /\ status = [e \in Event |-> "none"]
    /\ by = [e \in Event |-> {}] /\ before = [e \in Event |-> <<>>]
    /\ faults = 0 /\ damage = 0

-----------------------------------------------------------------------------
(* append and appendUnlocked                                                *)

Enqueue(w, e) ==
    /\ status[e] = "none" /\ \A d \in Event : d < e => status[d] # "none"
    /\ status' = [status EXCEPT ![e] = "queued"]
    /\ queue' = [queue EXCEPT ![w] = Append(@, e)]
    /\ by' = [by EXCEPT ![e] = {w}]
    /\ UNCHANGED <<file, ended, before, faults, damage>>

Turn(w, e) == queue[w] # <<>> /\ Head(queue[w]) = e

\* Mutant: a failed append leaves the queue rejected, and nothing runs after it.
SettleStuck(w, e, outcome) ==
    /\ status' = [status EXCEPT ![e] = outcome]
    /\ queue' = IF outcome = "refused" THEN queue
                ELSE [queue EXCEPT ![w] = Tail(@)]

\* The operation whose turn it was settles; the queue goes on after a failure as
\* after a success.
Settle(w, e, outcome) ==
    /\ status' = [status EXCEPT ![e] = outcome]
    /\ queue' = [queue EXCEPT ![w] = Tail(@)]

Verify(w, e) ==
    /\ Turn(w, e) /\ status[e] = "queued" /\ Verified
    /\ status' = [status EXCEPT ![e] = "verified"]
    /\ before' = [before EXCEPT ![e] = Ids]
    /\ UNCHANGED <<file, ended, queue, by, faults, damage>>

\* The chain does not verify, or the event fails its schema.
Refuse(w, e) ==
    /\ Turn(w, e)
    /\ (status[e] = "queued" /\ ~ Verified) \/ status[e] = "verified"
    /\ Settle(w, e, "refused")
    /\ UNCHANGED <<file, ended, history, faults, damage>>

Record(e, sound) == [id |-> e, prev |-> HeadOf(before[e]), sound |-> sound]

\* Mutant: the file is opened to be rewritten, not to be appended to.
LaidTruncating(e, sound) == <<Record(e, sound)>>

\* What a write leaves in the file: a record that starts on an unfinished line
\* spoils that line and is itself lost.
Laid(e, sound) ==
    IF ended THEN Append(file, Record(e, sound))
    ELSE [file EXCEPT ![Len(file)].sound = FALSE]

Write(w, e) ==
    /\ Turn(w, e) /\ status[e] = "verified"
    /\ file' = Laid(e, TRUE) /\ ended' = TRUE
    /\ status' = [status EXCEPT ![e] = "written"]
    /\ UNCHANGED <<queue, history, faults, damage>>

Sync(w, e) ==
    /\ Turn(w, e) /\ status[e] = "written"
    /\ Settle(w, e, "acknowledged")
    /\ UNCHANGED <<file, ended, history, faults, damage>>

\* What may be left of a write that did not return: nothing, all of it, all but
\* its newline, or a fragment.
Remnant(e) ==
    \/ UNCHANGED <<file, ended>>
    \/ file' = Laid(e, TRUE) /\ ended' \in BOOLEAN
    \/ file' = Laid(e, FALSE) /\ ended' = FALSE

\* writeFile or sync throws (the disk is full): the caller is told.
WriteFails(w, e) ==
    /\ Turn(w, e) /\ faults < MaxFaults /\ faults' = faults + 1
    /\ \/ status[e] = "verified" /\ Remnant(e)
       \/ status[e] = "written" /\ UNCHANGED <<file, ended>>
    /\ Settle(w, e, "refused")
    /\ UNCHANGED <<history, damage>>

\* The process of w stops; power lost before the flush leaves what a write that
\* did not return leaves.
Crash(w) ==
    /\ faults < MaxFaults /\ faults' = faults + 1
    /\ LET running == {e \in Event : Turn(w, e) /\ status[e] = "verified"}
       IN IF running = {} THEN UNCHANGED <<file, ended>> ELSE \E e \in running : Remnant(e)
    /\ status' = [e \in Event |-> IF \E i \in DOMAIN queue[w] : queue[w][i] = e
                                  THEN "lost" ELSE status[e]]
    /\ queue' = [queue EXCEPT ![w] = <<>>]
    /\ UNCHANGED <<history, damage>>

\* The file is changed by someone else: a line edited, removed or moved.
Without(i) == [j \in 1..(Len(file) - 1) |-> IF j < i THEN file[j] ELSE file[j + 1]]

Damage ==
    /\ damage < MaxDamage /\ damage' = damage + 1
    /\ \E i \in DOMAIN file :
        \/ file' = [file EXCEPT ![i].sound = FALSE] /\ UNCHANGED ended
        \/ /\ file' = Without(i)
           /\ ended' = (ended \/ i = Len(file))
        \/ /\ i > 1 /\ file' = [file EXCEPT ![i] = file[i - 1], ![i - 1] = file[i]]
           /\ ended' = TRUE
    /\ UNCHANGED <<queue, status, history, faults>>

Operate(w, e) == Verify(w, e) \/ Refuse(w, e) \/ Write(w, e) \/ Sync(w, e)

Next ==
    \/ \E w \in Writers, e \in Event : Enqueue(w, e) \/ Operate(w, e) \/ WriteFails(w, e)
    \/ \E w \in Writers : Crash(w)
    \/ Damage

Spec == Init /\ [][Next]_vars

\* A started append runs on: its promise chain needs nothing from outside.
FairSpec == Spec /\ \A w \in Writers, e \in Event : WF_vars(Operate(w, e))

-----------------------------------------------------------------------------
(* Properties.                                                              *)

\* Besides the types: a queue holds appends that have not settled, each once.
TypeOK ==
    /\ file \in Seq(Line) /\ ended \in BOOLEAN
    /\ file = <<>> => ended
    /\ status \in [Event -> Status]
    /\ queue \in [Writers -> Seq(Event)]
    /\ \A w \in Writers : \A i \in DOMAIN queue[w] :
          status[queue[w][i]] \in {"queued", "verified", "written"}
    /\ by \in [Event -> SUBSET Writers] /\ before \in [Event -> Seq(Event)]
    /\ faults \in Nat /\ damage \in Nat

\* Whatever is edited, removed or moved, a ledger that still verifies is a true
\* history: each record stands after exactly the records its append found there.
VerifiedIsHistory ==
    Verified => \A i \in DOMAIN file : before[file[i].id] = SubSeq(Ids, 1, i - 1)

\* Two appends of different ledgers overlapped: neither found the other's record.
Overlapped ==
    \E d, e \in Event : /\ by[d] # by[e] /\ {status[d], status[e]} \subseteq {"written", "acknowledged"}
                        /\ \A i \in DOMAIN before[d] : before[d][i] # e
                        /\ \A i \in DOMAIN before[e] : before[e][i] # d

\* Without faults or outside changes the chain breaks only by two ledgers that append
\* at once: one ledger keeps it whole, although every append verifies, writes and
\* flushes in separate steps, and so do ledgers that take turns.
NeverBreaksAlone == (faults = 0 /\ damage = 0 /\ ~ Overlapped) => Verified

\* A ledger nobody else changed either verifies and holds every event that was
\* acknowledged, or fails: it never verifies without one of them.
VerifiedIsComplete ==
    (damage = 0 /\ Verified) =>
        \A e \in Event : status[e] = "acknowledged" => \E i \in DOMAIN file : file[i].id = e

\* The chain in all its parts, through failed and torn writes, crashes, two ledgers that
\* append at once and outside changes.
HistoryInv == TypeOK /\ VerifiedIsHistory /\ NeverBreaksAlone /\ VerifiedIsComplete

\* Every append settles, also behind one that was refused or failed.
Settled(e) == status[e] \in {"acknowledged", "refused", "lost"}
EveryAppendSettles == \A e \in Event : status[e] = "queued" ~> Settled(e)

(* The log this promises: the records of whole, sound and linked lines, and     *)
(* whether the ledger has stopped accepting.  However many ledgers append, *)
(* fail or crash, nothing kept is lost or moved, and no code makes a       *)
(* ledger that fails verify again: only someone else's change may.         *)
Good(i) == file[i].sound /\ Linked(i) /\ (i < Len(file) \/ ended)
Kept == {i \in DOMAIN file : \A j \in 1..i : Good(j)}
Log == INSTANCE SealedLog WITH Entry <- Event,
                               log <- [i \in Kept |-> file[i].id],
                               sealed <- ~ Verified,
                               tampered <- damage
RefinesLog == Log!Spec
==============================================================================
