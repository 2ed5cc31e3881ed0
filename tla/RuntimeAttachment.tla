---------------------------- MODULE RuntimeAttachment ----------------------------
(***************************************************************************)
(* RuntimeAttachmentService (packages/agents/src/runtimeAttachmentService. *)
(* ts): the terminals of one runtime session, and the clients that attach  *)
(* to them with leases.                                                    *)
(*                                                                         *)
(* Nothing serializes the operations.  The sessions and the events are     *)
(* written through one queue, the leases are not: whoever changes them     *)
(* reads the file and writes it back.  A step of the model is what runs    *)
(* between two awaits; a write in the queue keeps the record that was      *)
(* computed when it was put there.  A terminal that awaits input is        *)
(* running here; what the events contain, and the capability to observe,   *)
(* are left out.                                                           *)
(***************************************************************************)
EXTENDS Naturals, Sequences, FiniteSetsExt, Functions

CONSTANTS
    Terminals,  \* the terminals that may be started, each once
    Clients,    \* the clients; each makes one call at a time
    KeptOwn,    \* how many events of a terminal are retained
    KeptAll,    \* how many events are retained
    MaxCalls,   \* bound on the calls of the clients
    MaxTurns    \* bound on outputs, failed writes and ends of the application together

ASSUME AttachmentAssumption ==
    /\ {KeptOwn, KeptAll, MaxCalls, MaxTurns} \subseteq Nat /\ IsFiniteSet(Terminals)
    /\ Clients \cap {"open", "guarded", "detached", "output", "host"} = {}

VARIABLES
    host,       \* the application: "down", "recovering", "up" or "closing"
    authority,  \* passport, binding, session and mandate are in force
    contained,  \* the terminals were told that it is gone
    stored,     \* terminal -> its record: a status and the cursor of its last event
    kept,       \* the retained events of all terminals, oldest first
    chain,      \* persistenceQueue: the writes of records and events that have not settled
    opening,    \* terminal -> where its start stands
    endings,    \* terminal, way -> where its end stands
    pty,        \* terminal -> its process
    active,     \* the terminals under control
    finishing,  \* the terminals that terminate or complete is ending
    leases,     \* the leases, oldest first
    past,       \* the clients and numbers of the leases whose time is over
    call,       \* client -> its call
    calls,      \* client -> the number of its calls
    outputs, failures, stops,
    slips,      \* a record was stored over a newer one, or an event without its cursor
    missed,     \* the terminals that were starting when the others were contained
    intruded    \* an input reached a process after the containment

files == <<stored, kept, chain>>
endVars == <<endings, pty, active, finishing>>
clients == <<leases, past, call, calls>>
bounds == <<outputs, failures, stops>>
attachmentVars == <<host, authority, contained, files, opening, endVars, clients, bounds, slips, missed, intruded>>

LiveStatus == {"starting", "running"}
EndedAs == {"exited", "failed", "cancelled", "revoked"}
Stored == [status : {"none"} \cup LiveStatus \cup EndedAs, cursor : Nat]
Place == {"none", "prepending", "recording", "spawning", "storing", "taking",
          "reporting", "detaching", "done"}

\* terminate and complete are kept apart by finishing; completeDetached is not.
Ways == {"guarded", "detached"}
NoEnd == [place |-> "idle", outcome |-> "failed", exited |-> FALSE, to |-> <<>>]
NoCall == [what |-> "none", of |-> "none", lease |-> 0, owns |-> FALSE, place |-> "idle", to |-> <<>>]

AttachmentInit ==
    /\ host = "up" /\ authority = TRUE /\ contained = FALSE
    /\ stored = [t \in Terminals |-> [status |-> "none", cursor |-> 0]]
    /\ kept = <<>> /\ chain = <<>>
    /\ opening = [t \in Terminals |-> "none"]
    /\ endings = [x \in Terminals \X Ways |-> NoEnd]
    /\ pty = [t \in Terminals |-> "none"] /\ active = {} /\ finishing = {}
    /\ leases = <<>> /\ past = {} /\ call = [c \in Clients |-> NoCall] /\ calls = [c \in Clients |-> 0]
    /\ outputs = 0 /\ failures = 0 /\ stops = 0
    /\ slips = {} /\ missed = {} /\ intruded = FALSE

Running == host \in {"up", "closing"}
MayTurn == outputs + failures + stops < MaxTurns

\* appendEvent and replaceSession, as they are put into the queue.
Event(t, by) == [do |-> "event", of |-> t, by |-> by, from |-> stored[t], to |-> stored[t]]
Store(t, by, from, to) == [do |-> "store", of |-> t, by |-> by, from |-> from, to |-> to]

-----------------------------------------------------------------------------
(* terminate and complete                                                   *)

Ending(endedAs, exited) == [NoEnd EXCEPT !.place = "reading", !.outcome = endedAs, !.exited = exited]
BeginEnd(S, endedAs, exited) ==
    /\ finishing' = finishing \cup S
    /\ endings' = [x \in Terminals \X Ways |->
                    IF x[1] \in S /\ x[2] = "guarded" THEN Ending(endedAs, exited) ELSE endings[x]]

\* Mutant: a terminal that is ended is not killed.
TerminateAlive(S, endedAs) ==
    /\ BeginEnd(S \ finishing, endedAs, FALSE)
    /\ active' = active \ (S \ finishing)
    /\ pty' = pty

Terminate(S, endedAs) ==
    LET T == S \ finishing
    IN /\ BeginEnd(T, endedAs, FALSE)
       /\ active' = active \ T
       /\ pty' = [t \in Terminals |->
                    IF t \in T \cap active /\ pty[t] = "alive" THEN "killed" ELSE pty[t]]

\* The process exits; "exited" stands for both outcomes of an exit.  It is heard once the
\* terminal was taken under control.
Exit(t) ==
    /\ pty[t] \in {"alive", "killed"} /\ pty' = [pty EXCEPT ![t] = "dead"]
    /\ IF (t \in active \/ pty[t] = "killed") /\ t \notin finishing
       THEN BeginEnd({t}, "exited", TRUE)
       ELSE UNCHANGED <<endings, finishing>>
    /\ UNCHANGED <<host, authority, contained, files, opening, active, clients, bounds,
                   slips, missed, intruded>>

unended == <<host, authority, contained, opening, pty, calls, past, call, bounds, slips, missed, intruded>>

\* A terminal that was ended is left alone; complete leaves it in active, too.
ReadSession(t) ==
    LET x == <<t, "guarded">>
    IN /\ Running /\ endings[x].place = "reading"
       /\ \/ /\ stored[t].status \in LiveStatus
             /\ active' = IF endings[x].exited THEN active \ {t} ELSE active
             /\ endings' = [endings EXCEPT ![x].place = "event"]
             /\ chain' = Append(chain, Event(t, "guarded"))
             /\ UNCHANGED finishing
          \/ /\ stored[t].status \notin LiveStatus
             /\ endings' = [endings EXCEPT ![x] = NoEnd] /\ finishing' = finishing \ {t}
             /\ UNCHANGED <<active, chain>>
       /\ UNCHANGED <<unended, stored, kept, leases>>

\* finish: the outcome is stored with the cursor that the record has now.
StoreOutcome(t, way) ==
    LET x == <<t, way>>
    IN /\ Running /\ endings[x].place = "latest"
       /\ endings' = [endings EXCEPT ![x].place = "store"]
       /\ chain' = Append(chain, Store(t, way, stored[t], [stored[t] EXCEPT !.status = endings[x].outcome]))
       /\ UNCHANGED <<unended, stored, kept, active, finishing, leases>>

Closed(S) == [l \in DOMAIN leases |-> [leases[l] EXCEPT !.open = @ /\ l \notin S]]
LeasesOf(t) == {l \in DOMAIN leases : leases[l].of = t}

EndReleased(x) ==
    /\ endings' = [endings EXCEPT ![x] = NoEnd]
    /\ finishing' = IF x[2] = "guarded" THEN finishing \ {x[1]} ELSE finishing

\* revokeSessionLeases, which writes what it computed from the leases it read; the event of
\* the outcome is appended at last.
CloseLeases(t, way) ==
    LET x == <<t, way>>
    IN /\ Running
       /\ \/ /\ endings[x].place = "leases"
             /\ endings' = [endings EXCEPT ![x] = [@ EXCEPT !.place = "closing",
                                                            !.to = Closed(LeasesOf(t))]]
             /\ UNCHANGED <<finishing, leases>>
          \/ /\ endings[x].place = "closing" /\ EndReleased(x) /\ leases' = endings[x].to
       /\ UNCHANGED <<unended, files, active>>

-----------------------------------------------------------------------------
(* start                                                                    *)

Go(t, place) == opening' = [opening EXCEPT ![t] = place]
unopened == <<host, authority, contained, endings, finishing, clients, bounds, slips, missed, intruded>>

\* The authority is checked, and that no terminal is under control; otherwise the start is
\* refused and leaves nothing.
StartTerminal(t) ==
    /\ host = "up" /\ opening[t] = "none" /\ authority /\ active = {}
    /\ Go(t, "prepending")
    /\ chain' = Append(chain, Store(t, "open", stored[t], [status |-> "starting", cursor |-> 0]))
    /\ UNCHANGED <<unopened, stored, kept, pty, active>>

RecordStart(t) ==
    /\ Running /\ opening[t] = "recording" /\ Go(t, "spawning")
    /\ UNCHANGED <<unopened, files, pty, active>>

\* What is stored as running is the record as it was first stored.
Spawn(t) ==
    /\ Running /\ opening[t] = "spawning" /\ Go(t, "storing")
    /\ pty' = [pty EXCEPT ![t] = "alive"]
    /\ chain' = Append(chain, Store(t, "open", [status |-> "starting", cursor |-> 0],
                                    [status |-> "running", cursor |-> 0]))
    /\ UNCHANGED <<unopened, stored, kept, active>>

SpawnFails(t) ==
    /\ Running /\ opening[t] = "spawning" /\ Go(t, "detaching")
    /\ chain' = Append(chain, Event(t, "open"))
    /\ UNCHANGED <<unopened, stored, kept, pty, active>>

Take(t) ==
    /\ Running /\ opening[t] = "taking" /\ Go(t, "reporting")
    /\ active' = active \cup {t}
    /\ chain' = Append(chain, Event(t, "open"))
    /\ UNCHANGED <<unopened, stored, kept, pty>>

\* capture
Output(t) ==
    /\ Running /\ t \in active /\ pty[t] = "alive" /\ MayTurn
    /\ outputs' = outputs + 1 /\ chain' = Append(chain, Event(t, "output"))
    /\ UNCHANGED <<host, authority, contained, stored, kept, opening, endVars, clients, failures,
                   stops, slips, missed, intruded>>

-----------------------------------------------------------------------------
(* persist: the oldest write settles, and what awaits it goes on            *)

\* The newest of the terminal, then the newest of all: one event was appended, so the oldest
\* of each may be one too many.
Without(all, i) == [j \in 1..(Len(all) - 1) |-> all[IF j < i THEN j ELSE j + 1]]
Retain(t, all) ==
    LET own == {i \in DOMAIN all : all[i].of = t}
        mine == IF Cardinality(own) > KeptOwn THEN Without(all, Min(own)) ELSE all
    IN IF Len(mine) > KeptAll THEN Without(mine, 1) ELSE mine

\* The write w has settled: what awaits it goes on, which may put the next one.
GoesOn(w, others) ==
    LET x == <<w.of, w.by>>
    IN CASE w.by = "open" /\ opening[w.of] = "detaching" ->
              /\ Go(w.of, "done") /\ chain' = Append(others, Event(w.of, "detached"))
              /\ endings' = [endings EXCEPT ![<<w.of, "detached">>] = [NoEnd EXCEPT !.place = "event"]]
              /\ UNCHANGED call
         [] w.by = "open" /\ opening[w.of] # "detaching" ->
              /\ Go(w.of, CASE opening[w.of] = "prepending" -> "recording"
                            [] opening[w.of] = "storing" -> "taking"
                            [] OTHER -> "done")
              /\ chain' = others /\ UNCHANGED <<endings, call>>
         [] w.by \in Ways ->
              /\ endings' = [endings EXCEPT ![x].place = IF @ = "event" THEN "latest" ELSE "leases"]
              /\ chain' = others /\ UNCHANGED <<opening, call>>
         [] w.by \in Clients ->
              call' = [call EXCEPT ![w.by] = NoCall] /\ chain' = others /\ UNCHANGED <<opening, endings>>
         [] OTHER -> chain' = others /\ UNCHANGED <<opening, endings, call>>

\* An event is two writes: that of the events, then that of the cursor.
Persist ==
    /\ host # "down" /\ chain # <<>>
    /\ LET w == Head(chain) n == stored[w.of].cursor + 1
       IN \/ /\ w.do = "store" /\ stored' = [stored EXCEPT ![w.of] = w.to]
             /\ slips' = IF stored[w.of] = w.from THEN slips ELSE slips \cup {"sessions"}
             /\ GoesOn(w, Tail(chain)) /\ UNCHANGED kept
          \/ /\ w.do = "event"
             /\ kept' = Retain(w.of, Append(kept, [of |-> w.of, cursor |-> n]))
             /\ chain' = <<[w EXCEPT !.do = "count"]>> \o Tail(chain)
             /\ UNCHANGED <<stored, slips, opening, endings, call>>
          \/ /\ w.do = "count" /\ stored' = [stored EXCEPT ![w.of].cursor = n]
             /\ GoesOn(w, Tail(chain)) /\ UNCHANGED <<kept, slips>>
    /\ UNCHANGED <<host, authority, contained, pty, active, finishing, leases, past, calls, bounds,
                   missed, intruded>>

-----------------------------------------------------------------------------
(* The calls of the clients                                                 *)

uncalled == <<host, authority, contained, stored, kept, opening, calls, past, bounds, slips, missed>>
At(c, place) == Running /\ call[c].place = place
Then(c, place) == call' = [call EXCEPT ![c].place = place]
Return(c) == call' = [call EXCEPT ![c] = NoCall]
WriteBack(c, place, to) == call' = [call EXCEPT ![c] = [@ EXCEPT !.place = place, !.to = to]]

Overdue == {l \in DOMAIN leases : leases[l].open /\ <<leases[l].client, leases[l].id>> \in past}
Named(c, id) == {l \in DOMAIN leases : leases[l].client = c /\ leases[l].id = id}

\* attach asks for a terminal, and to own its input and control or only to observe it; its
\* lease has the number of the call, which no other lease of the client has.  The other
\* operations give the lease they use; getState has none.
Call(c) ==
    /\ host = "up" /\ call[c] = NoCall /\ SumFunction(calls) < MaxCalls /\ calls' = [calls EXCEPT ![c] = @ + 1]
    /\ \/ \E t \in Terminals, owns \in BOOLEAN :
             call' = [call EXCEPT ![c] = [NoCall EXCEPT !.what = "attach", !.of = t, !.owns = owns,
                                                        !.lease = calls'[c], !.place = "expiring"]]
       \/ \E l \in {l \in DOMAIN leases : leases[l].client = c},
             what \in {"detach", "write", "resize", "cancel"} :
             call' = [call EXCEPT ![c] = [NoCall EXCEPT !.what = what, !.of = leases[l].of,
                                                        !.lease = leases[l].id,
                                                        !.place = "expiring"]]
       \/ /\ Overdue # {}
          /\ call' = [call EXCEPT ![c] = [NoCall EXCEPT !.what = "getState", !.place = "expiring"]]
    /\ UNCHANGED <<host, authority, contained, files, opening, endVars, leases, past, bounds, slips,
                   missed, intruded>>

\* expireLeases, when it found a lease whose time was over.
Expire(c) ==
    /\ \/ /\ At(c, "expiring") /\ Overdue # {} /\ WriteBack(c, "expired", Closed(Overdue))
          /\ UNCHANGED leases
       \/ At(c, "expired") /\ Then(c, "checking") /\ leases' = call[c].to
    /\ UNCHANGED <<uncalled, chain, endVars, intruded>>

\* The session of an attach; the lease of the others (assertLease), and for all that use
\* the terminal that it is under control.
Admitted(c) ==
    LET what == call[c].what
    IN /\ what = "attach" => stored[call[c].of].status = "running"
       /\ what # "attach" => \E l \in Named(c, call[c].lease) \ Overdue :
                                /\ leases[l].open /\ leases[l].of = call[c].of
                                /\ what # "detach" => leases[l].owns
       /\ what # "detach" => call[c].of \in active

Check(c) ==
    /\ At(c, "expiring") \/ At(c, "checking")
    /\ IF call[c].what # "getState" /\ Admitted(c) THEN Then(c, call[c].what) ELSE Return(c)
    /\ UNCHANGED <<uncalled, chain, endVars, leases, intruded>>

\* Mutant: who owns the terminal is not looked at.
RefusedNever(c) == FALSE

\* The newest lease that owns a terminal, whichever it is, is another client's.
Owning == {l \in DOMAIN leases \ Overdue : leases[l].open /\ leases[l].owns}
Refused(c) == call[c].owns /\ Owning # {} /\ leases[Max(Owning)].client # c

Attach(c) ==
    /\ At(c, "attach")
    /\ IF Refused(c) THEN Return(c)
       ELSE WriteBack(c, "returning", Append(leases, [id |-> call[c].lease, of |-> call[c].of,
                                                      client |-> c, owns |-> call[c].owns, open |-> TRUE]))
    /\ UNCHANGED <<uncalled, chain, endVars, leases, intruded>>

Detach(c) ==
    /\ At(c, "detach") /\ WriteBack(c, "returning", Closed(Named(c, call[c].lease)))
    /\ UNCHANGED <<uncalled, chain, endVars, leases, intruded>>

WriteAndReturn(c) ==
    /\ At(c, "returning") /\ Return(c) /\ leases' = call[c].to
    /\ UNCHANGED <<uncalled, chain, endVars, intruded>>

\* assertAuthority: a terminal whose authority is gone is terminated.  Otherwise write or
\* cancel goes on, in a later step.
AssertAuthority(c) ==
    /\ call[c].what \in {"write", "cancel"} /\ At(c, call[c].what)
    /\ \/ authority /\ Then(c, "authorized") /\ UNCHANGED endVars
       \/ ~ authority /\ Return(c) /\ Terminate({call[c].of}, "revoked")
    /\ UNCHANGED <<uncalled, chain, leases, intruded>>

Write(c) ==
    /\ At(c, "authorized") /\ call[c].what = "write" /\ Return(c)
    /\ intruded' = (intruded \/ (contained /\ pty[call[c].of] = "alive"))
    /\ UNCHANGED <<uncalled, chain, endVars, leases>>

Cancel(c) ==
    /\ At(c, "authorized") /\ call[c].what = "cancel" /\ Return(c)
    /\ Terminate({call[c].of}, "cancelled")
    /\ UNCHANGED <<uncalled, chain, leases, intruded>>

\* The record that is read here is stored whole, with its new size.
Resize(c) ==
    /\ At(c, "resize") /\ Then(c, "resizing")
    /\ chain' = Append(chain, Store(call[c].of, c, stored[call[c].of], stored[call[c].of]))
    /\ UNCHANGED <<uncalled, endVars, leases, intruded>>

TimePasses(l) ==
    /\ l \in DOMAIN leases \ Overdue /\ leases[l].open /\ past' = past \cup {<<leases[l].client, leases[l].id>>}
    /\ UNCHANGED <<host, authority, contained, files, opening, endVars, leases, call, calls, bounds,
                   slips, missed, intruded>>

\* The identity service takes the authority back; then the host tells the terminals.
Withdraw ==
    /\ Running /\ authority /\ authority' = FALSE
    /\ UNCHANGED <<host, contained, files, opening, endVars, clients, bounds, slips, missed, intruded>>

\* revokeMatching
Contain ==
    /\ Running /\ ~ authority /\ ~ contained /\ contained' = TRUE
    /\ Terminate({t \in Terminals : stored[t].status \in LiveStatus}, "revoked")
    /\ missed' = {t \in Terminals : opening[t] \in {"prepending", "recording", "spawning", "storing",
                                                    "taking"}}
    /\ UNCHANGED <<host, authority, files, opening, clients, bounds, slips, intruded>>

-----------------------------------------------------------------------------
(* Failures, shutdown and initialize                                        *)

\* A write of the queue fails, and so does what awaits it.  A start that had come to its
\* process stores the failure, and does not kill the process.
PersistFails ==
    /\ chain # <<>>
    /\ LET w == Head(chain) x == <<w.of, w.by>>
       IN /\ slips' = IF w.do = "count" THEN slips \cup {"torn"} ELSE slips
          /\ IF w.by = "open" /\ opening[w.of] \in {"storing", "reporting"}
             THEN Go(w.of, "detaching") /\ chain' = Append(Tail(chain), Event(w.of, "open"))
             ELSE /\ opening' = IF w.by = "open" THEN [opening EXCEPT ![w.of] = "done"] ELSE opening
                  /\ chain' = Tail(chain)
          /\ IF w.by \in Ways THEN EndReleased(x) ELSE UNCHANGED <<endings, finishing>>
          /\ call' = IF w.by \in Clients THEN [call EXCEPT ![w.by] = NoCall] ELSE call

\* The evidence of a start, or a write of the leases, fails.
StepFails ==
    /\ \/ \E t \in Terminals : /\ opening[t] = "recording" /\ Go(t, "done")
                               /\ UNCHANGED <<endings, finishing, call>>
       \/ \E x \in Terminals \X Ways : /\ endings[x].place = "closing" /\ EndReleased(x)
                                       /\ UNCHANGED <<opening, call>>
       \/ \E c \in Clients : /\ call[c].place \in {"expired", "returning"} /\ Return(c)
                             /\ UNCHANGED <<opening, endings, finishing>>
    /\ UNCHANGED <<chain, slips>>

Fails ==
    /\ Running /\ MayTurn /\ failures' = failures + 1
    /\ PersistFails \/ StepFails
    /\ UNCHANGED <<host, authority, contained, stored, kept, pty, active, leases, past, calls,
                   outputs, stops, missed, intruded>>

Shutdown ==
    /\ host = "up" /\ host' = "closing"
    /\ MayTurn /\ stops' = stops + 1
    /\ Terminate(active, "cancelled")
    /\ UNCHANGED <<authority, contained, files, opening, clients, outputs, failures, slips, missed,
                   intruded>>

\* Everything in memory is gone; a process may survive the application, out of its reach.
Down ==
    /\ host' = "down" /\ chain' = <<>> /\ active' = {} /\ finishing' = {}
    /\ slips' = IF chain # <<>> /\ Head(chain).do = "count" THEN slips \cup {"torn"} ELSE slips
    /\ opening' = [t \in Terminals |-> IF opening[t] = "none" THEN "none" ELSE "done"]
    /\ endings' = [x \in Terminals \X Ways |-> NoEnd]
    /\ call' = [c \in Clients |-> NoCall]
    /\ pty' = [t \in Terminals |-> IF pty[t] \in {"alive", "killed"} THEN "lost" ELSE pty[t]]
    /\ UNCHANGED <<authority, contained, stored, kept, past, calls, outputs, failures, missed, intruded>>

\* The ends that shutdown awaits are over, and the leases are closed.
Quit ==
    /\ host = "closing" /\ finishing = {}
    /\ Down /\ leases' = Closed(DOMAIN leases) /\ UNCHANGED stops

StopHost ==
    /\ host # "down" /\ MayTurn /\ stops' = stops + 1
    /\ Down /\ UNCHANGED leases

Interrupted == {t \in Terminals : stored[t].status \in LiveStatus}
recovery == <<authority, contained, kept, opening, endVars, past, call, calls, bounds, slips, missed, intruded>>

\* The live terminals are stored as failed, in one write; then each gets its event.
Restart ==
    /\ host = "down" /\ host' = "recovering"
    /\ stored' = [t \in Terminals |-> IF t \in Interrupted THEN [stored[t] EXCEPT !.status = "failed"]
                                      ELSE stored[t]]
    /\ \E order \in Bijection(1..Cardinality(Interrupted), Interrupted) :
          chain' = [i \in DOMAIN order |-> Event(order[i], "host")]
    /\ UNCHANGED <<recovery, leases>>

Recover ==
    /\ host = "recovering" /\ chain = <<>> /\ host' = "up"
    /\ leases' = Closed(DOMAIN leases)
    /\ UNCHANGED <<recovery, stored, chain>>

-----------------------------------------------------------------------------
StartSteps(t) == RecordStart(t) \/ Spawn(t) \/ SpawnFails(t) \/ Take(t)
EndSteps(t) == ReadSession(t) \/ \E way \in Ways : StoreOutcome(t, way) \/ CloseLeases(t, way)
CallSteps(c) == \/ Expire(c) \/ Check(c) \/ Attach(c) \/ Detach(c) \/ WriteAndReturn(c)
                \/ AssertAuthority(c) \/ Write(c) \/ Cancel(c) \/ Resize(c)

AttachmentNext ==
    \/ \E t \in Terminals : StartTerminal(t) \/ StartSteps(t) \/ EndSteps(t) \/ Exit(t) \/ Output(t)
    \/ \E c \in Clients : Call(c) \/ CallSteps(c)
    \/ \E l \in DOMAIN leases : TimePasses(l)
    \/ Persist \/ Withdraw \/ Contain \/ Fails
    \/ Shutdown \/ Quit \/ StopHost \/ Restart \/ Recover

AttachmentSpec == AttachmentInit /\ [][AttachmentNext]_attachmentVars

-----------------------------------------------------------------------------
(* Properties.                                                              *)

\* Besides the types: only a running application has terminals under control and ends in
\* progress, and each of these ends was begun for a terminal that finishing holds.
AttachmentTypes ==
    /\ host \in {"down", "recovering", "up", "closing"}
    /\ authority \in BOOLEAN /\ contained \in BOOLEAN /\ intruded \in BOOLEAN
    /\ stored \in [Terminals -> Stored] /\ kept \in Seq([of : Terminals, cursor : Nat])
    /\ \A i \in DOMAIN chain : chain[i].from \in Stored /\ chain[i].to \in Stored
    /\ opening \in [Terminals -> Place]
    /\ pty \in [Terminals -> {"none", "alive", "killed", "dead", "lost"}]
    /\ leases \in Seq([id : Nat, of : Terminals, client : Clients, owns : BOOLEAN, open : BOOLEAN])
    /\ slips \subseteq {"sessions", "torn"} /\ missed \subseteq Terminals
    /\ ~ Running => active = {} /\ finishing = {}
    /\ \A t \in Terminals : t \in finishing <=> endings[<<t, "guarded">>].place # "idle"

\* A process of this application is alive only under control, while its start takes it under
\* control, or after a failed write.
AliveIsControlled ==
    \A t \in Terminals : pty[t] = "alive" /\ t \notin active =>
        opening[t] \in {"storing", "taking"} \/ failures > 0

\* The revocation "persists the final state": when the others were contained and nothing is
\* in progress, no terminal is recorded as live, whoever else was ending, resizing or
\* restarting it, unless it was starting itself, a write failed, or a record was stored over
\* a newer one.
RevocationSettles ==
    (contained /\ host = "up" /\ chain = <<>> /\ \A x \in DOMAIN endings : endings[x] = NoEnd) =>
        \A t \in Terminals :
            \/ stored[t].status \notin LiveStatus
            \/ t \in missed \/ failures > 0 \/ "sessions" \in slips

\* The processes do not escape: none runs out of control; no input reaches one after
\* "Passport, binding, runtime-session, or live-authority revocation", although each check
\* of a call is older than the next and a start may outlast the revocation; and the
\* revocation ends what it found (docs/plan4/PHASE_39_HYBRID_PROVIDER_RUNTIME.md).
TerminalsInv ==
    /\ AttachmentTypes /\ AliveIsControlled /\ RevocationSettles
    /\ intruded => failures > 0

KeptOf(t) == {i \in DOMAIN kept : kept[i].of = t}

\* replay: "snapshot-required" is answered when the first retained event is too late.
FirstKept(t) == IF KeptOf(t) = {} THEN stored[t].cursor ELSE kept[Min(KeptOf(t))].cursor
SnapshotRequired(t, after) == after > 0 /\ FirstKept(t) > after + 1

\* What the clients are told: "only one client may own interact and control at a time",
\* although the writes of the leases overlap; and a replay that does not ask for a snapshot
\* has each event that followed, once and in order, unless a record was stored over a newer
\* one, an event was left without its cursor, or all events of the terminal are dropped.
ClientsInv ==
    /\ \A l, m \in Owning : leases[l].client = leases[m].client
    /\ {"sessions", "torn"} \cap slips = {} =>
          \A t \in Terminals : KeptOf(t) # {} =>
              /\ \A i, j \in KeptOf(t) : i < j /\ (i + 1)..(j - 1) \cap KeptOf(t) = {} =>
                    kept[j].cursor = kept[i].cursor + 1
              /\ \A after \in 1..stored[t].cursor : ~ SnapshotRequired(t, after) =>
                    (after + 1)..stored[t].cursor \subseteq {kept[i].cursor : i \in KeptOf(t)}

==================================================================================
