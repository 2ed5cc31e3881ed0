------------------------------- MODULE FederationPairing -------------------------------
(***************************************************************************)
(* FederationPairingCoordinator over FederationService and the mailbox of  *)
(* nodeDiscovery.ts (packages/federation/src): one pairing of two nodes.   *)
(* The host's request carries an invitation; the joiner accepts it with a  *)
(* registration; both operators confirm the code of that transcript; the   *)
(* host then approves the registration and sends its acceptance, which the *)
(* joiner activates.  Each side ends with a peer it trusts.                *)
(*                                                                         *)
(* A coordinator does one operation at a time: a sequence of writes and    *)
(* sends, each awaited, between which the application may stop, a write    *)
(* may fail and the other node goes on.  A message is a file that stays    *)
(* until it expires; a node counts those it has processed, and a batch is  *)
(* processed wholly or, when one of its messages throws, not at all.       *)
(***************************************************************************)
EXTENDS Naturals, Sequences, FiniteSets

CONSTANTS
    MaxRegistrations, \* bound on the acceptances of the request by the joiner
    MaxMail,          \* bound on the messages to a node that its operator's acts cause
    MaxFaults         \* bound on failed writes, stops and lost messages, together

ASSUME PairingAssumption == MaxRegistrations \in Nat /\ MaxMail \in Nat /\ MaxFaults \in Nat

VARIABLES
    pairing,       \* node -> its record of the pairing
    mail,          \* node -> the messages sent to it, in the order of issued_at
    processed,     \* node -> how many of them it has processed
    todo,          \* node -> what is left of the operation of its coordinator
    invitation,    \* the host's, in its FederationService
    registrations, \* how many the joiner has made, each with a nonce of its own
    approved,      \* the registrations the host has accepted, by acceptance
    peers,         \* node -> acceptance -> the status of its peer
    late,          \* the ten minutes of the invitation are over
    faults,
    compared       \* node -> the transcripts its operator has confirmed (history)

pairingVars == <<pairing, mail, processed, todo, invitation, registrations, approved, peers,
          late, faults, compared>>

Nodes == {"host", "joiner"}
Other(n) == IF n = "host" THEN "joiner" ELSE "host"
Acceptances == 1 .. MaxFaults + 1

\* "offline" is part of "active": it follows the presence of the other node.
Terminal == {"active", "expired", "cancelled", "replacement-required"}
Status == Terminal \cup {"none", "requested", "remote-proof-required", "comparison-required",
    "local-confirmed", "remote-confirmed", "activating", "local-proof-required"}

\* reg and from: the transcript, and with it the comparison code, which binds the
\* registration, its nonce and the nonce taken for the initiator's: the host's (0), or
\* that of the joiner's registration from.  actor: an administrator is known.
Record == [status : Status, reg : 0 .. MaxRegistrations, from : 0 .. MaxRegistrations,
           acc : {0} \cup Acceptances, local : BOOLEAN, remote : BOOLEAN, actor : BOOLEAN]
NoRecord == [status |-> "none", reg |-> 0, from |-> 0, acc |-> 0,
             local |-> FALSE, remote |-> FALSE, actor |-> FALSE]

\* ref: what the message is about; a confirmation names the transcript of its sender.
Message == [type : {"request", "registration", "confirmation", "acceptance", "cancelled", "lost"},
            ref : 0 .. MaxRegistrations + MaxFaults + 1, from : 0 .. MaxRegistrations]
Msg(type, ref) == [type |-> type, ref |-> ref, from |-> 0]
Confirmation(r) == [type |-> "confirmation", ref |-> r.reg, from |-> r.from]

PairingInit ==
    /\ pairing = [n \in Nodes |-> NoRecord] /\ mail = [n \in Nodes |-> <<>>]
    /\ processed = [n \in Nodes |-> 0] /\ todo = [n \in Nodes |-> <<>>]
    /\ invitation = "none" /\ registrations = 0 /\ approved = <<>>
    /\ peers = [n \in Nodes |-> [a \in Acceptances |-> "none"]]
    /\ late = FALSE /\ faults = 0 /\ compared = [n \in Nodes |-> {}]

\* What an operation does between two awaits.
Do(what, arg) == [do |-> what, arg |-> arg]
Just(what) == Do(what, NoRecord)
Doing(n, what) == todo[n] # <<>> /\ Head(todo[n]).do = what
Arg(n) == Head(todo[n]).arg
Goes(n, steps) == todo' = [todo EXCEPT ![n] = steps]
Notes(n, record) == pairing' = [pairing EXCEPT ![n] = record]
MayAct(n) == todo[n] = <<>> /\ Len(mail[Other(n)]) < MaxMail

-----------------------------------------------------------------------------
(* The operations                                                           *)

\* createRequest; one that is not over is returned as it is.
CreateRequest ==
    /\ MayAct("host") /\ pairing["host"].status = "none"
    /\ invitation' = "open"
    /\ Goes("host", <<Do("note", [NoRecord EXCEPT !.status = "requested", !.actor = TRUE]),
                      Do("send", Msg("request", 0))>>)
    /\ UNCHANGED <<pairing, mail, processed, registrations, approved, peers, late, faults, compared>>

\* acceptRequest: what was confirmed of an earlier transcript stays confirmed, and the
\* record's own nonce, which the first time is still the host's, is taken for the
\* initiator's: from the second time on the two nodes have different transcripts.
AcceptRequest ==
    /\ MayAct("joiner") /\ pairing["joiner"].status \notin Terminal \cup {"none"} /\ ~ late
    /\ registrations < MaxRegistrations /\ registrations' = registrations + 1
    /\ Goes("joiner", <<Do("note", [pairing["joiner"] EXCEPT !.status = "comparison-required",
                                       !.reg = registrations', !.from = pairing["joiner"].reg,
                                       !.actor = TRUE]),
                        Do("send", Msg("registration", registrations'))>>)
    /\ UNCHANGED <<pairing, mail, processed, invitation, approved, peers, late, faults, compared>>

\* confirm, which ends with a reconciliation; the operator may confirm the code of its
\* own node whatever the other node shows.
Confirm(n) ==
    LET r == pairing[n] IN
    /\ MayAct(n) /\ r.reg # 0 /\ ~ late
    /\ ~ (r.local /\ r.status \in {"active", "activating", "local-confirmed"})
    /\ Notes(n, [r EXCEPT !.local = TRUE, !.actor = TRUE,
                          !.status = IF r.remote THEN "activating" ELSE "local-confirmed"])
    /\ Goes(n, <<Do("send", Confirmation(r)), Just("read"), Just("ready")>>)
    /\ compared' = [compared EXCEPT ![n] = @ \cup {<<r.reg, r.from>>}]
    /\ UNCHANGED <<mail, processed, invitation, registrations, approved, peers, late, faults>>

\* cancel, of any status
CancelPairing(n) ==
    /\ MayAct(n) /\ pairing[n].status # "none"
    /\ Notes(n, [pairing[n] EXCEPT !.status = "cancelled", !.actor = TRUE])
    /\ Goes(n, <<Do("send", Msg("cancelled", 0))>>)
    /\ UNCHANGED <<mail, processed, invitation, registrations, approved, peers, late, faults, compared>>

\* FederationService.revokePeer, in a queue of its own
RevokePeer(n, a) ==
    /\ todo[n] = <<>> \/ Doing(n, "life")
    /\ peers[n][a] = "active" /\ peers' = [peers EXCEPT ![n][a] = "revoked"]
    /\ UNCHANGED <<pairing, mail, processed, todo, invitation, registrations, approved, late, faults, compared>>

-----------------------------------------------------------------------------
(* reconcileMessages                                                        *)

\* Mutant: the registration alone is compared.
ThrowsByRegistration(r, m) ==
    \/ m.type = "confirmation" /\ (r.reg = 0 \/ m.ref # r.reg)
    \/ m.type = "acceptance" /\ approved[m.ref] # r.reg

Throws(r, m) ==
    \/ m.type = "confirmation" /\ (r.reg = 0 \/ m.ref # r.reg \/ m.from # r.from)
    \/ m.type = "acceptance" /\ approved[m.ref] # r.reg

\* Mutant: a confirmation that comes after the operator's own is not noted.
HandledEarly(r, m) ==
    CASE m.type = "request" /\ r.status = "none" -> [r EXCEPT !.status = "remote-proof-required"]
      [] m.type = "registration" -> [r EXCEPT !.reg = m.ref, !.status = "comparison-required"]
      [] m.type = "confirmation" ->
            [r EXCEPT !.remote = ~ r.local, !.status = IF r.local THEN "activating" ELSE "remote-confirmed"]
      [] m.type = "acceptance" -> [r EXCEPT !.acc = m.ref, !.status = "activating"]
      [] m.type = "cancelled" -> [r EXCEPT !.status = "cancelled"]
      [] OTHER -> r

Handled(r, m) ==
    CASE m.type = "request" /\ r.status = "none" -> [r EXCEPT !.status = "remote-proof-required"]
      [] m.type = "registration" -> [r EXCEPT !.reg = m.ref, !.status = "comparison-required"]
      [] m.type = "confirmation" ->
            [r EXCEPT !.remote = TRUE, !.status = IF r.local THEN "activating" ELSE "remote-confirmed"]
      [] m.type = "acceptance" -> [r EXCEPT !.acc = m.ref, !.status = "activating"]
      [] m.type = "cancelled" -> [r EXCEPT !.status = "cancelled"]
      [] OTHER -> r

\* Of a pairing it has no record of, a node takes only the request.
Handle(batch, m) ==
    IF ~ batch.ok \/ (batch.record.status = "none" /\ m.type # "request") THEN batch
    ELSE IF Throws(batch.record, m) THEN [batch EXCEPT !.ok = FALSE]
    ELSE [batch EXCEPT !.record = Handled(batch.record, m)]

\* The unread messages, one after the other.
Batch(record, unread) ==
    LET after[i \in 0 .. Len(unread)] ==
          IF i = 0 THEN [ok |-> TRUE, record |-> record] ELSE Handle(after[i - 1], unread[i])
    IN after[Len(unread)]

Reconcile(n, next) ==
    LET batch == Batch(pairing[n], SubSeq(mail[n], processed[n] + 1, Len(mail[n])))
    IN /\ IF batch.ok
          THEN /\ Notes(n, batch.record) /\ Goes(n, next)
               /\ processed' = [processed EXCEPT ![n] = Len(mail[n])]
          ELSE Goes(n, <<>>) /\ UNCHANGED <<pairing, processed>>
       /\ UNCHANGED <<mail, invitation, registrations, approved, peers, late, faults, compared>>

\* of confirm, and of getState
Read(n) == Doing(n, "read") /\ Reconcile(n, Tail(todo[n]))
Poll(n) == todo[n] = <<>> /\ Reconcile(n, <<Just("ready"), Just("life")>>)

-----------------------------------------------------------------------------
(* activateReady, which looks at no status                                  *)

MayActivate(n) ==
    /\ Doing(n, "ready") /\ pairing[n].local /\ pairing[n].remote /\ pairing[n].actor
    /\ IF n = "host" THEN pairing[n].acc = 0 /\ pairing[n].reg # 0 ELSE pairing[n].acc # 0

Activated(n, a) == Do("note", [pairing[n] EXCEPT !.acc = a, !.status = "active"])

\* The proof or the credential of the administrator is over.
ProofOver(n) ==
    /\ MayActivate(n)
    /\ Notes(n, [pairing[n] EXCEPT !.actor = FALSE, !.status = "local-proof-required"])
    /\ Goes(n, Tail(todo[n]))
    /\ UNCHANGED <<mail, processed, invitation, registrations, approved, peers, late, faults, compared>>

\* approveRegistration, then the record, then the acceptance
Approve ==
    LET a == Len(approved) + 1 IN
    /\ MayActivate("host") /\ invitation = "open" /\ ~ late
    /\ invitation' = "used" /\ approved' = Append(approved, pairing["host"].reg)
    /\ peers' = [peers EXCEPT !["host"][a] = "active"]
    /\ Goes("host", <<Activated("host", a), Do("send", Msg("acceptance", a))>> \o Tail(todo["host"]))
    /\ UNCHANGED <<pairing, mail, processed, registrations, late, faults, compared>>

\* Mutant: the failure of one of the writes is not waited for.
ApproveTornSends ==
    LET a == Len(approved) + 1 IN
    /\ MayActivate("host") /\ invitation = "open" /\ ~ late
    /\ faults < MaxFaults /\ faults' = faults + 1
    /\ \E written \in SUBSET {"invitation", "peer"} :
         /\ invitation' = IF "invitation" \in written THEN "used" ELSE "open"
         /\ peers' = IF "peer" \in written THEN [peers EXCEPT !["host"][a] = "active"] ELSE peers
    /\ approved' = Append(approved, pairing["host"].reg)
    /\ Goes("host", <<Activated("host", a), Do("send", Msg("acceptance", a))>> \o Tail(todo["host"]))
    /\ UNCHANGED <<pairing, mail, processed, registrations, late, compared>>

\* Its writes are awaited together: one fails, or the application stops among them.
ApproveTorn ==
    LET a == Len(approved) + 1 IN
    /\ MayActivate("host") /\ invitation = "open" /\ ~ late
    /\ faults < MaxFaults /\ faults' = faults + 1
    /\ \E written \in SUBSET {"invitation", "peer"} :
         /\ invitation' = IF "invitation" \in written THEN "used" ELSE "open"
         /\ peers' = IF "peer" \in written THEN [peers EXCEPT !["host"][a] = "active"] ELSE peers
    /\ approved' = Append(approved, pairing["host"].reg) /\ Goes("host", <<>>)
    /\ UNCHANGED <<pairing, mail, processed, registrations, late, compared>>

\* An invitation that is over, or was used by an approval whose record was not written, throws.
ApproveRefused ==
    /\ MayActivate("host") /\ (invitation # "open" \/ late)
    /\ Goes("host", <<>>)
    /\ UNCHANGED <<pairing, mail, processed, invitation, registrations, approved, peers, late, faults, compared>>

\* activateAcceptance writes its peer anew, at every reconciliation.
Activate ==
    LET a == pairing["joiner"].acc IN
    /\ MayActivate("joiner")
    /\ peers' = [peers EXCEPT !["joiner"][a] = "active"]
    /\ Goes("joiner", <<Activated("joiner", a)>> \o Tail(todo["joiner"]))
    /\ UNCHANGED <<pairing, mail, processed, invitation, registrations, approved, late, faults, compared>>

-----------------------------------------------------------------------------
(* The other steps, time and faults                                         *)

\* repository.write
Note(n) ==
    /\ Doing(n, "note") /\ Notes(n, Arg(n)) /\ Goes(n, Tail(todo[n]))
    /\ UNCHANGED <<mail, processed, invitation, registrations, approved, peers, late, faults, compared>>

\* sendSigned
Send(n) ==
    /\ Doing(n, "send") /\ Goes(n, Tail(todo[n]))
    /\ mail' = [mail EXCEPT ![Other(n)] = Append(@, Arg(n))]
    /\ UNCHANGED <<pairing, processed, invitation, registrations, approved, peers, late, faults, compared>>

\* reconcileLifecycle
Live(n) ==
    LET r == pairing[n]
        revoked == r.acc # 0 /\ peers[n][r.acc] = "revoked"
    IN Notes(n, [r EXCEPT !.status = IF revoked THEN "replacement-required"
                                     ELSE IF late /\ @ \notin Terminal \cup {"none"} THEN "expired" ELSE @])

\* What is left when nothing is to be activated: the lifecycle, in getState
End(n) ==
    /\ (Doing(n, "ready") /\ ~ MayActivate(n)) \/ Doing(n, "life")
    /\ Goes(n, <<>>)
    /\ IF todo[n][Len(todo[n])].do = "life" THEN Live(n) ELSE UNCHANGED pairing
    /\ UNCHANGED <<mail, processed, invitation, registrations, approved, peers, late, faults, compared>>

PairingStep(n) ==
    \/ Read(n) \/ ProofOver(n) \/ Note(n) \/ Send(n) \/ End(n)
    \/ n = "host" /\ (Approve \/ ApproveRefused)
    \/ n = "joiner" /\ Activate

\* Time, a revocation and the loss of a message are noticed at some steps only: what
\* happens between other steps is as if it happened before the next of those.
RunLate ==
    /\ ~ late /\ invitation # "none" /\ late' = TRUE
    /\ \A n \in Nodes : todo[n] = <<>> \/ Doing(n, "ready") \/ Doing(n, "life")
    /\ UNCHANGED <<pairing, mail, processed, todo, invitation, registrations, approved, peers, faults, compared>>

\* A message not yet processed expires, or cannot be read: its file is removed.
Lose(n) ==
    /\ (todo[n] = <<>> \/ Doing(n, "read")) /\ faults < MaxFaults /\ faults' = faults + 1
    /\ \E i \in processed[n] + 1 .. Len(mail[n]) :
         mail[n][i].type # "lost" /\ mail' = [mail EXCEPT ![n][i] = Msg("lost", 0)]
    /\ UNCHANGED <<pairing, processed, todo, invitation, registrations, approved, peers, late, compared>>

\* A write, a send or an event fails, or the application stops.
Fault(n) ==
    /\ \E i \in DOMAIN todo[n] : todo[n][i].do \in {"note", "send"}
    /\ faults < MaxFaults /\ faults' = faults + 1 /\ Goes(n, <<>>)
    /\ UNCHANGED <<pairing, mail, processed, invitation, registrations, approved, peers, late, compared>>

PairingNext ==
    \/ CreateRequest \/ AcceptRequest \/ ApproveTorn \/ RunLate
    \/ \E n \in Nodes : \/ Confirm(n) \/ CancelPairing(n) \/ Poll(n) \/ PairingStep(n)
                        \/ Lose(n) \/ Fault(n)
                        \/ \E a \in Acceptances : RevokePeer(n, a)

\* The panel asks for the state every three seconds; what was begun goes on.
PairingFairness == \A n \in Nodes : WF_pairingVars(PairingStep(n) \/ Poll(n))

PairingSpec == PairingInit /\ [][PairingNext]_pairingVars /\ PairingFairness

-----------------------------------------------------------------------------
(* Properties                                                               *)

\* The variables hold values of their types.
PairingTypes ==
    /\ pairing \in [Nodes -> Record] /\ mail \in [Nodes -> Seq(Message)]
    /\ processed \in [Nodes -> Nat] /\ \A n \in Nodes : processed[n] <= Len(mail[n])
    /\ DOMAIN todo = Nodes /\ invitation \in {"none", "open", "used"}
    /\ registrations \in 0 .. MaxRegistrations /\ approved \in Seq(1 .. MaxRegistrations)
    /\ peers \in [Nodes -> [Acceptances -> {"none", "active", "revoked"}]]
    /\ late \in BOOLEAN /\ faults \in 0 .. MaxFaults
    /\ compared \in [Nodes -> SUBSET ((1 .. MaxRegistrations) \X (0 .. MaxRegistrations))]

\* The host accepts a registration only when both operators have confirmed the code of
\* its transcript, unless the joiner accepted the request again.  Then the joiner's
\* operator has confirmed the code of the first transcript, the only one the two nodes
\* ever share, and the host's operator a code of that one or of a later registration:
\* no confirmation of a transcript of the joiner's alone is taken for consent.
ConsentFirst ==
    [][approved' # approved =>
         LET r == approved'[Len(approved')] IN
         \E first \in 1 .. r :
            /\ <<first, 0>> \in compared["joiner"]
            /\ \E q \in first .. r : <<q, 0>> \in compared["host"]
            /\ first = r \/ pairing["joiner"].from # 0]_pairingVars

\* What the joiner trusts the host has accepted and trusts, or has revoked; and an
\* invitation makes one acceptance, and one more for every fault among its writes.
PeersAgree ==
    /\ Len(approved) <= 1 + faults
    /\ \A a \in Acceptances : peers["joiner"][a] # "none" => a <= Len(approved) /\ peers["host"][a] # "none"
    /\ pairing["joiner"].acc # 0 /\ pairing["host"].status = "active" =>
         pairing["joiner"].acc = pairing["host"].acc

\* The records, the mailboxes and the peers of the two nodes go together.
PeersInv == PairingTypes /\ PeersAgree

\* Something that can keep the two from connecting.
Disturbed ==
    \/ late \/ faults > 0 \/ pairing["joiner"].from # 0
    \/ \E n \in Nodes : \/ ~ pairing[n].actor
                        \/ \E i \in DOMAIN mail[n] : mail[n][i].type = "cancelled"
                        \/ pairing[n].status = "cancelled"

\* Two operators who have confirmed are connected, whichever was first and whoever asks
\* for the state, unless the time or a proof is over, something fails, one cancels, or
\* the joiner accepts the request again.
Connects ==
    (\A n \in Nodes : pairing[n].local) ~>
        ((\A n \in Nodes : \E a \in Acceptances : peers[n][a] # "none") \/ Disturbed)
==============================================================================
