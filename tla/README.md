# Formal models of H2A

TLA+ specifications of the core logic of H2A (`src/h2a-mvp/h2a-mvp`): the rules that
decide whether an agent may act, and the storage, evidence and execution around them.
Paths below are relative to that directory unless they start with `src/`.

The modules are checked with TLC on small instances. For mandates and approvals, the evidence
ledger, the file store, governed actions, rooms, processes, the escalation to several humans
and the delivery of a lane, their properties are also proved with TLAPS, for every value of
the constants (section 6).

    tlc -config Mandates.cfg MCMandates      # a run; the table in section 4 has all
    tlapm MandatesProofs.tla                 # proofs; so for every module named ...Proofs

## 1. The system

H2A gives software agents an identity (a passport), a bounded authority (a signed mandate),
and a way to use it that a human can approve, stop and audit. It is a TypeScript program in
one process: an Electron host (`apps/desktop/main`) or an HTTP server (`apps/governance`)
wires services together. Each service keeps its state in JSON files under one data root,
reads a file whole, writes it whole, and serializes its own operations with a promise queue.
Services call each other directly. Nothing but the queue of each object, and the queue of
each file path, orders anything: every `await` is a point where another operation may run.

| Part | State | Operations | Talks to |
|---|---|---|---|
| Mandate service (`packages/mandates`) | mandates, delegation edges, approvals, decisions | create, delegate, suspend/reactivate/revoke, authorize, resolveApproval | ledger, passports, workplace |
| Evidence ledger (`packages/evidence/src/index.ts`) | one file of hash-linked lines | append, list, verify | called by everybody |
| Storage (`packages/storage`) | files, `.bak`, temporary files | write, read (which migrates), append | called by everybody |
| Governance service (`apps/governance/service.ts`) | agents, mandates by reference, actions, receipts | import, bind, assign and update mandates, requestAction, decideApproval, initialize | mandates, ledger, storage, export files |
| Room runtime (`apps/governance/room-runtime.ts`) | runs, their outputs, a map of two slots | request, decide, cancel, execute, publish, initialize | governance service, ledger, CLIs |
| Process supervisor (`packages/agents/src/processSupervisor.ts`) | run records, output, a map of live processes | start, cancel, revoke, prepareForHostRestart, shutdown, initialize | identity service, ledger, provider CLIs |
| Workplace and identity (`packages/agents/src/collaborationService.ts`, `packages/identity`) | agents, passports of two versions, bindings, sessions, assignments | lifecycle of each, attestation, projections of mandates | storage, shared by three services |
| Runtime attachments (`packages/agents/src/runtimeAttachmentService.ts`) | terminal sessions, replay events, leases, a map of live terminals | start, attach, detach, write, resize, cancel, revoke, replay, shutdown, initialize | identity service, ledger, provider CLIs, clients |
| Context broker (`packages/resources`) | grants, receipts of disclosures | issue, authorize, revoke, prove leakage | coordinators, agents |
| Message broker (`packages/messaging`) | deliveries, handoffs | enqueue, deliver, cancel, record | transports, context broker |
| Coordinators (`packages/agents/src/*Coordinator.ts`) | a phase or lanes each | start, resume, run, renew, prove | approvals, brokers, provider runs |
| Approvals of several humans (`packages/organization`) | requests, contexts, decisions, child mandates, resumes | route, decide, withdraw, consume a resume, expire | coordinator as executor, organization |
| Federation (`packages/federation`) | pairings, invitations, registrations, peers, mailboxes of files | request, accept, confirm, cancel, poll, revoke | the same service of another node |
| Goals and delivery (`packages/projects`) | work graphs, worktree leases | plan, lease, validate, integrate | providers, ledger |
| Connectors, bootstrap, ceremonies, audit, office, UI | views and guided sequences | | the parts above |
| Agent Census (`src/agent-discovery-platform`) | a database of findings | scan, score, route | a separate Python service |

`PROJECT.json` lists every part with its sources and, where it is not modelled, the reason.

What is hard in each, and what has to hold:

| Part | Hard behaviour | Correctness |
|---|---|---|
| Mandates | long sequences of lifecycle calls on a chain of delegations; answers to old approvals; a stop between two writes | what is listed, gated, prohibited or limited only shrinks; revocation covers the subtree and is final; a gated action costs one human answer; the ledger reports nothing that is not stored |
| Ledger | torn lines; verify, write and flush are separate; several objects on a file | a ledger that verifies is a true and complete history; appends settle |
| Storage | a crash between temporary file, backup and rename; reads that write | a file is a register replaced whole; records are not lost |
| Governed actions | stops anywhere, `initialize` included; a second mandate; retries | one effect per key, under the authority it was decided under; audit catches up |
| Rooms | concurrent reviewers, a task that outlives the request, checks made before the queue | slots bounded, outcomes final, no replay, one publication |
| Processes | five ways to end a run, all asynchronous; a start of three awaits | what is alive is controlled; outcomes are evidenced; runs settle |
| Workplace | three queues over the same files (stale read-modify-write); two versions of a passport | sessions follow passports; what is revoked is off the floor; work is not lost, unless the row or the work was written over |
| Terminals | leases outside any queue; a start, an input and an end of several awaits each, around a revocation | no process out of control; no input after a revocation; one owner; replays complete |
| Approvals, escalation | five files, four writes in an operation; two services that call each other through their queues; a stop during the run | one run per key, on its quorum; files agree; a resume ends (it may not: finding) |
| Federation | crossed, repeated and lost messages; a batch is processed wholly or not | both trust one acceptance; both consented; confirmed nodes connect |
| Brokers | a lane through three queues; a proof beside one of them; failures after an acknowledgement | grants are counted and stay revoked; acknowledged lanes have their evidence; calls return |

## 2. Modules

    SealedLog <-refines- EvidenceLedger <- MCEvidenceLedger, EvidenceLedgerProofs
    Register  <-refines- AtomicStore + Repositories = LocalStorage <- MCLocalStorage, PersistenceProofs
    Mandates  <- MCMandates, MandatesProofs
         ^-- at the grain of its writes in GovernedActions <- MCGovernedActions, GovernanceProofs
    RoomRuns          <- MCRoomRuns, GovernanceProofs
    ProcessSupervisor <- MCProcessSupervisor, ProcessSupervisorProofs
    RuntimeAttachment <- MCRuntimeAttachment, PersistenceProofs
    MultiHumanApproval <-extended by- HumanEscalation <- MCHumanEscalation, HumanEscalationProofs
    ContextBroker      <-extended by- ConnectorDelivery <- ExchangeProofs
    FederationPairing  <- ExchangeProofs
    Workplace <- WorkplaceProofs

`MC...` modules instantiate a specification for TLC, `...Proofs` modules prove about it with
TLAPS; both extend it and change nothing in it.

Common conventions. An atomic step is what the code does between two awaits, or one durable
write. `MaxFaults` (`MaxFailures` in `RoomRuns`) bounds failed writes and stops together, and
they may come at any step.
Bounds are named `Max...`, appear in guards, and cap counters that the code does not have.
A definition whose comment starts with "Mutant" is not part of a specification: it is a
plausible mistake in the definition below it, and the property it is listed with in
`PROJECT.json` fails when it is put in that definition's place.

### Mandates: `packages/mandates/src/mandateService.ts`

The registries are sequences, since the files are arrays that only grow; a mandate is its
position and its parent is a smaller position. The service serializes operations, so a
handler makes its checks and its first write in one step. `todo` holds the writes it still
owes, in the order of the code; `Perform` makes the next, and `Fault` drops the list, as an
exception or a stop does. `Attenuates` is `validateAttenuation`, `Valid` is
`validateMandateRecord` (passport, expiry and status along the chain), `Evaluation` the
verdict of `evaluate` in the order of its tests, `WithStatus` and `DescendantsOf` the cascade
of `updateLifecycle`. `UpdatePassport` is the identity service, which changes passports while
mandates stand.

Abstractions: signatures, the human proof and the equality of objectives are taken as
satisfied; `resources` stands for resources and disclosed fields, `limit` for each numeric
limit, and an absent limit is `NoLimit` (`Greater` treats it as the code's `greater` does); limits on the exact value of a parameter
are left out.
`Tracked` lists the event types whose place in the ledger is followed in a run: events of
other types are dropped, and no guard reads the ledger. The writes of the mandate service to
agents and assignments (`projectMandate`, `containRevocation`) are in Workplace.

### EvidenceLedger: `packages/evidence/src/index.ts`

The file is a sequence of lines, each with the record it names as previous and whether it is
sound. A hash is modelled by what it binds. `Verify`, `Write` and `Sync` are the three awaits
of `appendUnlocked`, `queue` the promise queue of one ledger object, `Writers` the objects.
`Remnant` is what a write that did not return may leave: nothing, a fragment, the record
without its newline, or all of it; a record laid on an unfinished line spoils that line and
is lost. `Damage` is anyone else's change. `by` and `before` are history variables.

`SealedLog` is the promise: entries are added at the end, each once, until the log is sealed,
for good unless somebody tampers. The refinement maps `log` to the names of the longest
prefix of whole, sound and linked lines, `sealed` to "does not verify", and `tampered` to the
count of outside changes.

### AtomicStore, Repositories, LocalStorage: `packages/storage/src/index.ts`

`AtomicStore` is one path of `AtomicFileStore`: temporary file with flush, copy to `.bak`,
rename with retries, and a queue per path. The contents of a write are its number.
`Register` is the promise: writes replace the contents whole, in the order asked for, or are
dropped. The mapping takes `contents <- target` and `pending <- queue`. `Repositories` has
the repository objects of a path: an owner whose additions are a read and a write of the
whole, and readers whose reads of a missing or unversioned file write initial or migrated
data. `LocalStorage` composes the two: each write a repository asks for is one write of the
store, and the repository goes on when that write is renamed into place, fails or is lost.

### GovernedActions: `apps/governance/service.ts`

One enrolled agent, its mandates and its actions. `mutate` runs one operation at a time, and
an operation is again a list of steps (`todo`), here with checks that are made when their
turn comes, as `execute` does. The policy service is taken at the grain of its writes. The
`mode` runs through down, recovering (each action is resumed, refused or left, by `cursor`),
auditing (a missing `ACTION_EXECUTED` is appended) and up; `initialize` may fail or be
stopped at any step and starts over. Room membership, the checks of imports and signatures,
and the snapshot are abstracted.

### RoomRuns: `apps/governance/room-runtime.ts`

A run goes from pending through running to an outcome. `decide` and `publish` check before
they enter the queue `change` (`Review`, `Release`), hold it for two steps (`BeginDecision`,
`EndDecision`), and a task goes through the places of `execute` (`Prepare` to `Finish`) and
its three nested handlers (`FailRun`, `Trace`, `LastResort`). A step's CLI is external: it
returns at some time with some result, and its own timeout is one such result. `Toggle`
suspends or reactivates the mandate (`assertBuildAuthority`).

### ProcessSupervisor: `packages/agents/src/processSupervisor.ts`

Runs of one passport, binding and session. `task` is where a start stands (its awaits are
`Start`, `Persist`, `RecordStart`, `Spawn`, `Persist`, `Feed`), `child` the process, `active`
the map, `completions` the ends in progress, and `queue` the writes of run records behind the
persistence queue. `EndRun` is what `terminate` and `failProcess` come to: a run in the map
is killed and completed (`EndProcesses`), any other is completed from its record
(`EndDetached`). `Contain` is `revokePassport`, `revokeBinding` and `revokeSession`, one step
after the identity service has withdrawn the authority (`Withdraw`), as
`apps/desktop/main/index.ts:1529-1532` calls them. `Down` loses all memory while processes
may survive. The last output of a run and its event are one step; other output is left out;
killing a process is taken to succeed.

### RuntimeAttachment: `packages/agents/src/runtimeAttachmentService.ts`

The terminals of one runtime session and the clients that use them. `opening` is where a
start stands, `endings` where an end does (`terminate` and `complete` exclude each other by
`finishing`, "guarded"; `completeDetached` is not excluded, "detached"), `call` where the call
of a client does. Records and events are written through `chain`; an entry keeps the record it
was computed from, so that `Persist` can tell a write over a newer record (`slips`). An event
is two writes, the events and then the cursor. The leases have no queue: `WriteBack` notes
what is to be written, computed from what was read, and a later step writes it over whatever
is there by then. A lease is known by its client and the number of the call that asked
for it, and `past` holds those whose time is over, since a lease that another write undid
leaves its place to the next. `Withdraw` and `Contain` are the identity service and
`revokeMatching`. History: `slips`, `missed`, `intruded`. Left out: the content of events,
backpressure, the observe capability, failures during initialize, and lists cut at 100 and 200.

### MultiHumanApproval, HumanEscalation: `packages/organization/src/multiHumanApprovalService.ts`, `packages/agents/src/humanEscalationCoordinator.ts`

`op` is the rest of the operation that holds the approvals' queue, one element for each write
of the code; `Do` starts one when the queue is free. `HumanEscalation` adds the coordinator:
its phase, its queue (`turn`), and the provider runs. `Launch` is the call of the executor,
which happens inside the approvals' queue and needs the coordinator's; `Poll` and `Answer` are
`getState`, which holds the coordinator's and needs the approvals'. `Initialize` is the
recovery of an interrupted resume. Left out: expired, withdrawn and invalidated are one
"closed"; time is an expiry at any moment; human proofs, policies, and requests of other
windows; a change of the organization is seen by the steps that look at it.

### FederationPairing: `packages/federation/src/federationPairingCoordinator.ts`, `federationService.ts`, `nodeDiscovery.ts`

One pairing of two nodes. `todo` is the rest of a node's operation; `Poll` is `getState`:
a batch of mail, the lifecycle, and `activateReady`. A message stays a file until it expires;
`processed` counts what a node has handled, and a batch that throws is not handled at all.
`Lose` is the removal of a message file that cannot be read. The transcript of a node is `reg`,
the registration, and `from`, whose nonce it takes for the initiator's: the host's (0), or from
the joiner's second acceptance on that of its own earlier registration, as at line 154.
`compared` is history: the transcripts whose code an operator confirmed. Left out: signatures
(a transcript is these two numbers), offline, the expiry of peers, dishonest nodes.

### ContextBroker, ConnectorDelivery: `packages/resources/src/contextBrokerService.ts`, `packages/agents/src/leastContextCoordinator.ts`, `packages/messaging/src/messageBroker.ts`

`ContextBroker` has the grants, their uses and receipts, its queue (`cb`), and
`proveContextLeakage`, which runs `expireGrants` beside that queue (`LeakRead`, `LeakWrite`);
`overlapped` marks that it wrote over something newer. `ConnectorDelivery` adds one lane of
the coordinator (`co`), the deliveries of the message broker (`mb`) and the agent's process:
three queues, each held while the next is awaited. Left out: signatures, frames and
sequences; that only the 500 newest receipts (`contextBrokerService.ts:283`) and messages
(`messageBroker.ts:111`) are kept; fields are allowed or not; the agent asks once in a
delivery.

### Workplace: `packages/storage` (WorkplaceRepository), `packages/identity`, `packages/mandates`, `packages/agents/src/collaborationService.ts`

The floor (agents, assignments) and the three services that write it, each with a queue of
its own: `op[s]` is the rest of the operation of service `s`, with what it read. The mandates
read the file of the passports through a repository of their own (`mandateService.ts:43`), so
`Create` may begin in the middle of an operation of the identities. `overlapped` names what a
service wrote over a newer version: the rows of agents, and whether the assignments. Left out: messages, activities and
recent events; sponsor authority and evidence checks are taken as satisfied; an agent has one
session, the newest; suspending a mandate does not reach the floor.

## 3. Properties

Mandates (`mandates`).

- `AuthorityNeverGrows`: along a chain of any length a mandate lists no action its ancestors do
  not, gates the listed ones they gate, prohibits what they prohibit, reaches no other
  resource, names no limit where they have none or a lower one, and neither outlives nor
  out-nests them. So what it allows without a human each ancestor's lists allow without one.
  It does not say that a child has a limit when its parent does, nor that it gates only what
  its parent lists, because the code does not: observation 1.
- `CascadeComplete`, `RevokedForever`: nothing is left live below a revoked mandate, and
  nothing revives one.
- `GatedNeedsHuman`: each ALLOW of a gated action has its own granted approval, for that
  request. `NoAllowOnceRevoked`: none is decided for a mandate that is revoked or below a revoked one, even for an approval
  a stop left pending.
- `EvidenceBacked`: an event in the ledger is backed by the registries.

Ledger (`ledger`) and storage (`storage`).

- `HistoryInv`: a ledger that verifies holds each record after exactly the records its append
  found, and, unless someone else changed the file, every acknowledged event; without faults
  or outside changes only two ledger objects that append at once break a chain.
- `EveryAppendSettles`, `EveryWriteSettles`: no failure blocks what waits behind it.
- `RefinesLog`, `RefinesRegister`: the promises of `SealedLog` and `Register`. In the first, no
  code makes a ledger that fails verify again; a torn line therefore stops every operation
  that appends evidence until someone repairs the file.
- `RecordsKept`: migrated records are never lost, and a record reported as added is lost only
  to a late initialisation (observation 5).

Governed actions (`governed`).

- `ActionsInv`: one action per key and one executed event, through retries and restarts;
  `updateMandate` takes the newest mandate and `requireGoverned` the first active one, and
  they never disagree about an active one; actions and approvals point at each other.
- `ExecutesUnderAuthority`: an action takes effect under the mandate it was decided under,
  active at that moment, if gated with its approval granted and its evidence pack written; a
  settled action stays settled.
- `AuditedWhenServing`: when the service serves, every execution is in the ledger once.
- `ApprovedIsSettled`: what was approved when the application started is settled, even if
  `initialize` fails on the way.

Rooms (`rooms`): `SlotsInv` (slots are taken in one place and given back in another, they
bound the tasks, and a run stored as running has a task; up to one fault, since a run is
orphaned when its task fails and the last resort fails too), `OutcomeStays` (with no replay of
a step), `PublishedOnce`, `SucceededIsEvidenced`.

Processes (`processes`): `ControlInv` (alive under control, or stored as ended; a finished
start with nothing to end it is not stored as live, unless a write failed),
`OutcomeIsEvidenced` (the event precedes the visible outcome, with the exception of
`initialize`, which stores first), `EveryRunSettles`.

Terminals (`terminals`): `TerminalsInv` (a live process is under control or about to be, no
input reaches one after the containment, and when all is quiet after it nothing is recorded as
live) and `ClientsInv` (one client owns the input, however the writes of the leases overlap; a
replay that does not ask for a snapshot has every event, in order). What they except is named
by history variables, and each exception is a behaviour of the code (observation 10).

Approvals and escalation (`escalation`): `EffectOnce` (the requests of one key cause one
provider run, through stops and retries), `RunsStandOnQuorum`, `FilesInv` (requests, mandates
and resumes agree when the service is idle and nothing failed; after a stop nothing is left
executing). `ResumeEnds` is the property the finding refutes.

Federation (`pairing`): `ConsentFirst` (the host accepts a transcript that both operators
confirmed; after a second acceptance of the request, on their confirmations of the one
transcript the nodes shared or, at the host, of a later one), `PeersInv` (what the joiner trusts the host has accepted; one acceptance per
invitation and fault), `Connects` (two who confirmed are connected, unless disturbed).

Brokers (`delivery`): `GrantsHold` (a revoked grant stays revoked, and every release is
counted, until a leakage proof writes over the queue's work: observation 13), `LaneInv` (a lane is acknowledged only with its delivery, handoff and receipt),
`DeliveriesSettle` (outcomes stay, attempts are bounded), `EveryRunEnds` (three nested queues do
not lock up).

Workplace (`workplace`): `RecordsInv` (a session is ready only for an active passport and a
connected runtime, in both versions, after any sequence of operations), `FloorShowsPassports`
(a row shows its passport unless this very row was written from an outdated read),
`FloorKeepsWork` (nothing but a revocation can lose an assignment or a response).

## 4. Runs

Times are of two TLC workers; the table gives distinct states.

| Run | Module, configuration | Instance and bounds | States | Time |
|---|---|---|---|---|
| `mandates` | MCMandates, Mandates | 2 agents, 4 actions, 3 grants, 2 mandates, 3 requests on 2 keys, 2 decisions, clock to 2, 1 fault | 2.6M | 2 min |
| `ledger` | MCEvidenceLedger, Ledger | 2 ledger objects, 3 events, 2 faults, 1 outside change | 123K | 20 s |
| `storage` | MCLocalStorage, LocalStorage | an owner, 2 readers, 2 records and a legacy one, 5 writes, 3 attempts at a rename, 2 faults | 136K | 30 s |
| `governed` | MCGovernedActions, GovernedActions | an allowed and a gated action, 2 mandates, 2 lifecycle operations, clock to 1, 2 faults | 1.4M | 2.5 min |
| `rooms` | MCRoomRuns, RoomRuns | 2 runs of 2 steps, 1 slot, 1 change of the mandate, 1 fault, symmetry of runs | 881K | 1 min |
| `processes` | MCProcessSupervisor, ProcessSupervisor | a provider and a probe, 1 cancellation, 1 fault | 842K | 2 min |
| `terminals` | MCRuntimeAttachment, RuntimeAttachment | 1 terminal, 2 clients, 2 calls, 2 events retained, 1 output or fault, symmetry of clients | 2.7M | 2.5 min |
| `escalation` | MCHumanEscalation, HumanEscalation | 2 requests of one key or two, 3 members, a quorum of 1, 1 fault, symmetry | 2.7M | 2 min |
| `escalation_stuck` | MCHumanEscalation, EscalationStuck | the same with a quorum of 2 and no fault; violation of `ResumeEnds` | | 30 s |
| `pairing` | FederationPairing, FederationPairing | 2 acceptances of the request, 3 messages of an operator to a node, 1 fault | 379K | 1.5 min |
| `delivery` | ConnectorDelivery, ConnectorDelivery | 1 request, 1 key, 2 grants of 1 use, 2 attempts, 1 leakage proof, 1 fault | 898K | 2 min |
| `workplace` | Workplace, Workplace | an agent and a newcomer, 2 assignments, 2 mandates, 4 operations, 1 fault | 721K | 30 s |

What each shows is its "about" in `PROJECT.json`. Why the bounds are enough:

- Two mandates make one delegation, an approval under a parent and under a child, and a key
  asked for twice; two decisions allow open and resolve, or open and replay. The grants
  include one that is as wide as the code accepts (no limit under a limit, a gate on an action
  the parent does not list) and one that lists without its gate what the parent gates; a
  request asks for the first one's gated action, above the parent's limit. Longer chains are
  left to TLAPS (section 6), as are more of everything in the parts it covers.
- Three ledger events are one before, one at and one after a damaged or torn line; two
  objects overlap; the second fault hits what the first left.
- Five writes are one of each reader, two records and one more behind them; 2 faults hit a
  write and the one behind it. Two attempts differ from the last, so 3 stands for the code's 10.
- One slot and two runs stand for two slots and three; two steps make "all but the last".
- One provider and one probe cover the refusal of a second process in a session, the queue
  with writes of two runs, and an end that the closing application awaits. Two providers that
  start at once are not in this instance (observation 9).
- One terminal with two clients has both races of a lease and all of a start, an input and an
  end; start, one output and outcome are one event more than are retained. A second terminal
  would add the retention across terminals only, and does not fit.
- Two requests of one key are what `EffectOnce` is about; of two keys, what the phase mixes up.
  A quorum of 2 is in the violation run and makes no other difference to what is written.
- Two acceptances give a transcript that replaces a compared one; three messages let a
  confirmation, a cancellation and an acceptance cross.
- Two grants are one and its renewal; two attempts are a retry and a dead letter; one use
  makes the second release of a grant the one too many. A second key does not fit five minutes.
- Four operations are two that overlap and two around them; the newcomer is the agent that is
  created while a revocation writes the floor back.

`CHECK_DEADLOCK FALSE` is set in each configuration because every system here may come to
rest: all operations the bounds allow were made and nothing is owed.

Fairness. Liveness assumes that an operation that has started goes on, since promise chains
need nothing from outside: `Operate` in the ledger, `Proceed` in governed actions,
`Advance \/ Replace` in storage, the steps of starts and ends and the persistence queue of
processes, `Step` and the coordinator's own steps in escalation, `Run`, `Broker` and the steps
of the context queue in delivery. What is assumed beyond that: a stopped application is
started again (`Initialize`, `Restart`), without which nothing could settle; a run's timer
fires (`setTimeout`, `processSupervisor.ts:115`); an agent answers, ends or is timed out
(`processChannel.ts`), which makes `Broker` fair; and the state of a pairing is asked for,
because its panel does so every 3 seconds (`CoworkerPairingPanel.tsx:32`). Operators, CLIs,
exits, messages lost and faults are never fair.

## 5. Finding and observations

One run is expected to be violated, against a sentence of the repository:

- `escalation_stuck`: `consumeResume` holds the approvals' queue and calls the coordinator's
  `resume`, which waits for the coordinator's; `getState` of the coordinator holds that one and
  waits for the approvals'. Neither ends, nor anything behind them, until a restart
  (`humanEscalationCoordinator.ts:191`, `multiHumanApprovalService.ts:289`;
  `docs/plan3/PHASE_28_GUIDED_ACCEPTANCE.md:23`).

Observations met while modelling, which no run reports on its own.

Mandates and governed actions:

1. Delegation is not the "deterministic subset" of `docs/MANDATE_POLICY_AND_DELEGATION.md:39`
   ("Resources, actions, disclosure, limits, expiry, approval gates, destination set, and depth
   are checked") in two respects. A child without a limit under a parent with one is accepted
   (`mandateService.ts:333`), and may then spend without limit. A child may gate an action that
   its parent does not list (303 compares only the gates of the child's own actions), and the
   gate is consulted before the list (198, 203): a human may then allow the child what its
   parent denies. `AuthorityNeverGrows` claims neither; the instance has a child of both kinds,
   and such an ALLOW is reached.
2. `resolveApproval` looks at the approved mandate alone: it ALLOWs while its parent is
   suspended or expired, and while the agent's passport is suspended, revoked or expired
   (`mandateService.ts:171`; `docs/MANDATE_POLICY_AND_DELEGATION.md:35`).
3. A stop between a revocation and its containment leaves a pending approval, and a second
   revocation is refused (`mandateService.ts:108,121`); no ALLOW follows. A stop between an
   approval and the decision that answers its key lets the key open a second approval
   (`mandateService.ts:199`), and after a stop between an approval and its event the action
   executes while the ledger shows no human decision (`mandateService.ts:174`;
   `docs/EVIDENCE_AUDIT_AND_CISO_VIEWS.md:27`).
4. `mandateInternal` keeps an active mandate that has expired (`service.ts:377`), so a new one
   cannot be assigned before it is revoked. A stop in `requestAction` may leave a pending
   approval that belongs to no action (`service.ts:289`).

Storage and ledger:

5. A read of a missing file may write the initial data over a record that was added meanwhile
   (`packages/storage/src/index.ts:153`).
6. A record written without its newline glues the next one to itself; the ledger then fails
   for good (`packages/evidence/src/index.ts:148`).
7. `LocalAppearancePreferencesRepository.update` (`packages/storage/src/index.ts:366`) is a
   read-modify-write outside any queue.

Execution:

8. A room takes its slot before the approval is stored (`room-runtime.ts:179`); when that
   write fails no task gives it back, and after two such failures every approval is refused
   until a restart. A run whose request was stored and not recorded can only be cancelled
   (`room-runtime.ts:162`).
9. Two starts in one session may both pass the check for an active process
   (`processSupervisor.ts:90`), which
   `docs/plan2/PHASE_16_GOVERNED_LOCAL_CLI_RUNTIME.md:33` ("denies a second active process")
   does not expect; a run that is starting when its passport is revoked is spawned afterwards
   (`processSupervisor.ts:163`; line 53 of the same page). A run cancelled while it starts
   stores `cancelled`, then `running`, then its real end. A failed evidence append in a start
   leaves the run `starting` until a restart.
10. Terminals (`runtimeAttachmentService.ts`): a terminal that is starting when the others are
    contained is spawned afterwards and stores `running` over `revoked` (149); `resize` stores
    the record it read, possibly over an outcome (215); a write that fails after the spawn
    leaves the process alive and, in the record, failed, where a revocation no longer looks for
    it (155, 355); an exit before `onExit` is registered is not heard (152); `complete` returns
    before it takes an ended terminal out of the map, so the session refuses another start
    (305); a stop between the two writes of an event repeats its cursor (345-348). The leases
    are read and written without a queue (176): of two clients that attach at once both are
    given a lease, and the one that wrote first has lost its own; a closed lease may come back.
    There is one owner nevertheless (`ClientsHold`), as
    `docs/plan4/PHASE_39_HYBRID_PROVIDER_RUNTIME.md` says ("Only one client may own"): each of
    these writes was computed from leases that had one, and replaces them all. Ownership is looked for in all terminals, not in the one attached
    (168). A replay of a terminal whose events were all dropped may answer "events" with none.

Approvals, federation, brokers, workplace:

11. A rejection whose last write fails leaves the request pending and another member's approval
    runs it (`docs/plan2/PHASE_18_MULTI_HUMAN_APPROVAL.md:20`, "Rejection is terminal"). A
    failed run leaves the phase running and its child mandate active until it expires; a resume
    left executing for another request than the phase's is never recovered; a failing event
    after the run turns `completed` into `failed`; a child mandate granted before a stop stays
    active beside a second one.
12. `activateReady` does not look at the status of a pairing
    (`federationPairingCoordinator.ts:291`): at the joining node every `getState` activates the
    acceptance again, and with it a peer that was revoked
    (`docs/plan5/PHASE_48_SECURITY_AND_LICENSING.md:10`, "no repair path reactivates revoked
    trust"), whose envelope sequences restart at 0; a cancelled pairing can become active too.
    A cancellation that crosses an acceptance leaves the joiner active and the host cancelled.
    A stop between the approval of a registration and its record makes every later `getState`
    throw, as does an approval after the expiry. A second acceptance of a request takes the
    joiner's own earlier nonce for the initiator's (154, 365-372), so that the two nodes have
    different transcripts and codes: every later confirmation throws (260), and with it the
    batch it is in, until its file expires. What was confirmed of the first transcript stays
    confirmed, and the host may accept the second registration on it.
13. `proveContextLeakage` runs `expireGrants` beside the queue
    (`contextBrokerService.ts:304`): a revoked grant may become active again
    (`docs/plan4/PHASE_38_GUIDED_WORKFLOWS.md:37`), and a count or a new grant may be lost. A
    disclosure whose count fails is never counted. A failure after an acknowledgement turns it
    into a retry or a dead letter (`messageBroker.ts:179`); a delivery in flight at a stop may
    be tried once more than its maximum; nothing retries a `retrying` delivery by itself; when
    `enqueue` throws the lane stays running; a stop in `renewGrant` leaves an active grant that
    nobody uses.
14. `containRevocation` writes agents and assignments back while the other services write them
    (`mandateService.ts:258`): an assignment, a response or a new agent may be lost. It also
    shows an agent whose passport is revoked as blocked, after which an assignment may show it
    working. A failed second write in a revocation leaves the passport of the second version
    active, and it can be attested.

## 6. Proofs

Every theorem here is checked by `tlapm` to its last leaf, and holds for every value of the
constants that the named assumptions of its specification allow. Each invariant was checked
with TLC, as the invariant of a run, before it was proved; the number of states is that of
this check, on the instance of the run or on the larger one that is named.

All proofs have one form. The properties of a run are seldom inductive, so each proof module
starts with the strengthening that is, a conjunction of named parts. A lemma for each action
shows that it keeps every part; the theorem `...Correct` combines them; each property follows
from the invariant, or, when it speaks of steps, from the invariant and the actions. In the
models whose operation is a list of owed writes (`todo`, `op`), the parts that matter say what
each owed write relies on, since other operations, stops and checks come between it and the
test it was decided upon.

| Module | Theorem | States | Assumptions |
|---|---|---|---|
| `MandatesProofs` | `TypeCorrect` | `[]TypeOK` | `BoundsAssumption` (bounds are naturals), `PassportAssumption`, `GrantsAssumption` (an expiry, a depth and a limit are numbers; sets of actions are any sets) |
| | `RegistryCorrect` | `[]RegistryInv` | |
| | `RevocationCascades` | `[]CascadeComplete` | |
| | `RevocationFinal` | `RevokedForever` | |
| | `AuthorityOnlyShrinks` | `[]AuthorityNeverGrows` | |
| | `ApprovalsCorrect` | `[]ApprovalInv` | |
| | `GateHolds` | `[]GatedNeedsHuman` | |
| | `LedgerIsBacked` | `[]EvidenceBacked` | |
| | `NoAllowForRevoked` | `NoAllowOnceRevoked` | |
| `EvidenceLedgerProofs` | `LedgerCorrect` | `[]LedgerInv` | `BoundsAssumption` |
| | `HistoryHolds` | `[]HistoryInv` | |
| | `LedgerIsALog` | `RefinesLog` | |
| `PersistenceProofs` | `QueueHoldsPending`, `LocalQueueHoldsPending` | `[]TypeOK`, of the store and under its repositories | `BoundsAssumption`, `ObjectsAssumption` (the owner is no other reader; a record that is added is none of the legacy ones) |
| | `ImplementsRegister`, `LocalImplementsRegister` | `RefinesRegister`, of both | |
| | `StoreUnderRepositories` | `LocalSpec => Spec` | |
| | `RepositoriesCorrect` | `[]RepositoryInv` | |
| | `RecordsStay` | `RecordsKept` | |
| | `AttachmentsHold` | `[]AttachmentInv` | `AttachmentAssumption` (bounds are naturals; terminals are finitely many; no client has the name of another writer of the queue) |
| | `TerminalsHold` | `[]TerminalsInv` | |
| | `ClientsHold` | `[]ClientsInv` | |
| `GovernanceProofs` | `ServiceCorrect` | `[]ServiceInv` | `ConstantsAssumption` |
| | `ActionsHold` | `[]ActionsInv` | |
| | `AuthorityHolds` | `ExecutesUnderAuthority` | |
| | `AuditHolds` | `AuditedWhenServing` | |
| | `RoomCorrect` | `[]RoomInv` | `RoomAssumption` (bounds are naturals; a run has a step and the server a slot) |
| | `SlotsHold` | `[]SlotsInv` | |
| | `SucceededHold` | `[]SucceededIsEvidenced` | |
| | `PublishedOnceHolds` | `[]PublishedOnce` | |
| | `OutcomeStaysHolds` | `OutcomeStays` | |
| `ProcessSupervisorProofs` | `SupervisorCorrect` | `[]SupervisorInv` | `BoundsAssumption`, `ProbesAssumption` (probes are runs) |
| | `ControlHolds` | `[]ControlInv` | |
| | `OutcomesHold` | `[]OutcomeIsEvidenced` | |
| `HumanEscalationProofs` | `EscalationCorrect` | `[]EscalationInv` | `NoneAssumption`, `QuorumAssumption`, `TroublesAssumption` |
| | `EffectIsOnce` | `[]EffectOnce` | |
| | `QuorumHolds` | `RunsStandOnQuorum` | |
| | `FilesHold` | `[]FilesInv` | |
| `ExchangeProofs` | `DeliveryCorrect` | `[]DeliveryInv` | `ContextAssumption`, `DeliveryAssumption` (bounds are naturals; a grant has a use and a delivery an attempt) |
| | `GrantsAreHeld` | `[]GrantsHold` | |
| | `LaneHolds` | `[]LaneInv` | |
| | `DeliveriesDoSettle` | `DeliveriesSettle` | |
| | `PairingInvariant` | `[]PairingInv` | `PairingAssumption` (bounds are naturals) |
| | `PeersOfBothAgree` | `[]PeersInv` | |
| | `BothConsentFirst` | `ConsentFirst` | |
| `WorkplaceProofs` | `FloorCorrect` | `[]FloorInv` | `BoundsAssumption` (bounds are naturals; newcomers are agents) |
| | `RecordsHold` | `[]RecordsInv` | |
| | `FloorShows` | `[]FloorShowsPassports` | |
| | `WorkKept` | `[]FloorKeepsWork` | |

Mandates. `RegistryInv == TypeOK /\ ChainSound /\ CascadeComplete` is inductive (`ChainSound`
is what `AuthorityNeverGrows` says, of one link, and that parents come first). `WithinOrder`
shows that being within a grant is transitive although a limit may be absent: below a child
without a limit the code accepts none with one, so an absent limit is passed on.
`CascadeComplete` needs `ChainSound`, because that parents come first is what makes
`DescendantsOf` closed under children (`DescendantsClosed`). `MandatesChange` says what any
step may do to the registry (nothing, append a root, append a child that was admitted, or give
one status to a set of mandates) and is the one lemma that looks at the actions.
`AuthorityNeverGrows` speaks of all ancestors: `ChainBoundsLineage` derives it from the links,
without induction, because a lineage is defined as the smallest index set closed under
parents, and the ancestors that bound a mandate form such a set.

Approvals. `ApprovalInv` (2.6M states) adds four parts. `DecisionsSound`: an ALLOW of a gated
action names a granted approval for its request, and no two ALLOWs name the same one.
`OwedSound`: a decision that is still owed is the next write, and its approval has no ALLOW
yet, which is what keeps an approval from being spent twice. `EventsSound`: an event written
or owed reports a record that is there, or the decision owed just before it.
`ApprovalsNamed`: an approval is of a mandate in the registry. `NoAllowForRevoked` needs
`OwedSound` too: the mandate was tested when the operation began, nothing can revoke it before
the decision is written, and by `LineageStands` nothing above it is revoked either.

Evidence ledger. `LedgerInv` (2.3M states) says what an append found (`before`) without ever
mentioning when: `Records`, each record names the last of what its append found, which was a
chain itself; `Complete`, a written record is on the file or the file shows damage; `Alone`,
without faults and outside changes the file has only grown past what an append in progress
found, and by records of other ledger objects (`Found`, `Apart`), so that a chain breaks only
where two objects overlapped. `HistoryInv` then follows for a file that verifies: a position
where the file and what an append found differ would have a first one. The steps of
`LedgerIsALog` compare the longest sound prefix before and after a write, an unfinished line
and a damage.

File store and repositories. `StoreInv == TypeOK /\ InOrder` is inductive: writes are submitted
in the order of their numbers, which keeps the queue ascending when one joins it. The
refinement needs no invariant (`StepRefines`): `Rename` applies the oldest write of the
register, `Fail` drops it, `Crash` drops all that wait, `Submit` adds one, and every other
step is a stutter. `LocalStep` shows that a step of the two composed is one of each, or none,
so that both theorems hold under the repositories. `RepositoryInv` (136K states) relates what
objects have read and are about to write to what the path holds by then: all of it has the
same legacy records (`Migrated`); what a reader initialises has no record of the owner, since
it read a path that was not current (`Initialised`); what the owner is about to write has
every added record that is there (`OwnerHolds`), since a reader's write in between can only
take away. `RecordsStay` follows from what the oldest write holds when it is renamed into
place.

Governed actions. `ServiceInv` (1.4M states): `Order` says which steps may be owed before
which, that is, the order of the code. `RequestsOwed`, `OutcomesOwed`, `EventsOwed` and
`MandatesOwed` say what an owed step relies on: the key of an owed record has no action yet; a
mark is owed to an action that has no final outcome, whose approval agrees, and whose mandate
is active, because the check was made when the step before it had its turn. `Newest` (only the
newest mandate is active) is what makes the two ways to look up a mandate agree. `AuditSound`
follows `cursor` through `initialize`: every execution behind it is audited or owed.

Rooms, proved beside the governed actions of the same server, with which they share no name
and no variable. `RoomInv` (3.4M states with 2 faults): the place of a task tells which
statuses its run may have (`RoomStages`), what is in the ledger (`RoomEvidence`) and what was
launched (`RoomLaunches`: no step from the one the task is at onwards). `RoomSlots` counts the
active set as it is taken; `RoomCopies` bounds publications by faults, with the one in
progress.

Processes. `SupervisorInv` (2.0M states with 2 runs, one of them a probe, and 2 faults):
`ControlInv` says that no run is stored as live without a process unless something ends it.
Stores are behind a queue, and a start may write `running` after the process is gone; so `Ends`
says that an end in progress will be stored after whatever a start of that run still writes
(`EndsLast`). `Survivors` are processes that outlived an application: its successor does not
serve before their records say so. `Outcomes`: the event precedes the stored outcome, or
`initialize` is about to write it, or a stop kept it from that.

Terminals, proved beside the file store, which they are kept by. `AttachmentInv` (2.7M states)
says of each terminal what the place of its start and of its ends tells about its process
(`ProcessSound`), about its record before the containment (`BeforeSound`) and after it
(`AfterSound`: a live record is about to be ended, or is one of the exceptions), and what an
application that is not running has left (`StoppedSound`). `WriteSound` says what a queued
write is for, so that whoever awaits it is at the place that waits for it, and `InTurn` that
nobody awaits two. `UseSound` carries the authority through a call: a write or a cancellation
that was authorised finds its process dead once the containment is over. For `ClientsInv`,
`OwnersInv` says that one client owns the terminals by the leases, and by each list of leases
that is about to be written over them: every such list closes leases of a list that was there, or
adds a lease of the client that owns it already. `ReplayInv` says that the retained events of a
terminal are the last of those numbered so far (`Sequel`), one of which may wait for its
cursor; a retention drops only the first of a sequel (`Without`, `Retain`).

Approvals of several humans, escalation. `EscalationInv` (2.7M states): `KeysOnce` (a context
key belongs to one request) and `RunsSound` (a request runs at most once, and once it has run
its first resume is no longer ready) give `EffectOnce`. That needs `SoundAt`: "begin" comes
directly before "execute", so the resume is taken out of "ready" before anything runs,
whatever stops between. `Resumable` carries the quorum to the run: the decisions counted are
as many as the members that made them (`DecisionsSound`, one decision each), and no decision
is taken back. `RejectionsKept` says that a rejection is final as long as nothing failed, the
exception that `RunsStandOnQuorum` makes too (observation 11). `TurnSound` ties
the coordinator's queue to the approvals' during the call of the executor.

`FilesInv` needs `FilesSound` beside it (2.7M states), because what agrees when the approvals
are idle disagrees between two writes of one operation. `Successors` says that no write of a
list is left out and `Arguments` that each names the mandate and the resume of its request.
`Agreeing` then says of every request, while nothing has failed, which statuses its mandate
and its resume may have (`Pair`): those of a request at rest (`Calm`) if the list does not
speak of it, and otherwise those that the writes done so far have left (`Midway`). An idle
service has an empty list, so every request is `Calm`, and that is `FilesInv`. `Held` is for
what is left executing: a resume that executes is about to be settled by the list, or neither
the phase nor the coordinator's turn names its request. A stop makes `Agreeing` void but not
`Held`, since `initialize` looks at the resumes of the phase's approval.

Delivery. `DeliveryInv` (898K states) is `ContextInv` and `LanePart`. Of the context broker:
`ReadsHold` says that an operation of the queue still holds what it read, unless a leakage
proof wrote beside it, and that a leakage proof leaves the uses it read; `ReceiptsOnce`, one
receipt per request, makes a release and its count one to one; `Unissued`, nothing is known of
a grant that was not issued, not even by what was read before it. `GrantsHold` follows for
operations that fail between the receipt and the count, each of which is a failure more. Of
the lane: `MakingSound` (a delivery in progress is in flight until its acknowledgement is
written; one whose acknowledgement is withdrawn has met a failure), `LaneSound` (the lane goes
to "handoff" behind the delivery and the receipt, to "finish" behind the handoff, and no other
key can undo them meanwhile), `AttemptsBound` (a delivery that may be tried again has an
attempt left; one that was cut off has a failure to show for it).

Pairing. `PairingInv` (379K states) says of each of the two nodes what its record may claim
(`RecordOK`: the host's "local" and "remote" each stand on a confirmation up to the
registration noted, "remote" on one of a transcript that names the host's own nonce, and the
joiner confirms one such transcript at most), what a message to it may claim (`MailOK`) and
what is left of its operation (`PlanOK`). `Arrived` relates the registrations that have left
the joiner to its record: none is older than the transcript the two nodes share, and while
the joiner has accepted once there is only that one, which is why the host then accepts what
both confirmed. It is kept because the joiner's transcript stays or is replaced by that of a
newer registration (`JoinerGoesOn`). `Accepted` is the core: an acceptance that is a message, a reference or a peer of
the joiner is the host's last one, the invitation is used, and the host trusts the joiner by
it; since a used invitation accepts nothing more, it stays so, and a node that approved
without having written its record fails at every later attempt. `ApprovedOnce` counts the
acceptances: all are of faults while the invitation is open. `InOrder` is for the batch: the
host's record never goes back to an earlier transcript, since unread registrations are in
order. `ReadRecord` says what a batch leaves of the record, whatever is in it, by the least
message at which it would go wrong.

Workplace. `FloorInv` (721K states) says what the floor and the records will be when the
operations under way are done, since what they are meanwhile agrees in no order. Of the
identities: `Becomes` is the value a record has or is owed, and `Follow` says that the values
the operation will leave agree (`Agreed`), which at rest is `RecordsInv`. `Front` and `Told`
say that the passport of the first version is written first and shown after that. Of the
floor: `RowSound` says that a row is `Right`, or a write that is owed makes it so, or the
operation still has to look at it; what the other services write about the agents leaves a
row that is right as it is (`Keeps`), and `Ownership`, that a row names a mandate of its own
agent, is what makes a revocation show only the agent whose mandate it is. That holds without
a failure, for every agent whose own row no write overlapped (`overlapped.rows`). Of the
assignments: `Logged` (no more responses than the log has) holds whatever fails and overlaps;
`Fresh` says that only a revocation can write over others, and `Counted` counts the response
and the assignment that the operation has written in one place and owes to the other. An operation that
fails, or that a stop cuts short, drops its list, which only `Agreed`, `RowSound` and
`Counted` rely on, and those speak of no failure.

What proving changed in the models: two definitions of `GovernedActions` had CASE arms that
could both hold, which TLA+ leaves open and TLC decides by their order, and one arm of
`HumanEscalation.Reconciled` did not say that a rejection comes first; they are explicit now.
In `RuntimeAttachment` a lease was its position in the list; a proof of one owner failed where
a lease that was lost to another write left its position, and the end of its time, to the next
one, so leases have names now, as in the code. With names the exception for overlapping writes proved unnecessary, and
`ClientsInv` states one owner without it.

Only model-checked. Liveness (`EveryAppendSettles`, `EveryWriteSettles`, `ApprovedIsSettled`,
`EveryRunSettles`, `ResumeEnds`, `Connects`, `EveryRunEnds`) is out of the prover's reach, as
are `ENABLED` and what a recursive definition computes for every input, since the theorems for
induction over data take an operator as a parameter. No module declares a `RECURSIVE`
operator, and statements about every position of a sequence are proved of the least
counterexample instead (`LeastElement`), which takes a well-founded order only. Every
invariant and every action property of a passing run is proved.

## 7. Not modelled

`PROJECT.json` gives the reason for each part. In short: user interfaces, contracts, wiring
and exports decide nothing, and they are most of the lines of the repository; cryptography
and biometrics are not something TLA+ speaks about; connectors and adapters are I/O; the
guided sequences (bootstrap, ceremony, scenarios) call one service after another and share no
state; Agent Census is a separate program whose core is scoring of text. Of the modelled
parts, their notes say what is left out. Outside every model: more than one server process on
a data root. `docs/LOCAL_PLATFORM_CORE.md:7` assumes one, no lock enforces it, and only
`EvidenceLedger` has two objects on one file.

## 8. Plan

The modules of the plan are done, but for these:

1. `ProjectDelivery` (`packages/projects`): worktree leases, the order of tasks and the
   integration of changes. It takes the place of a run whose properties have been proved.
2. Onboarding, memory review and rooms of `GovernanceService`; challenges and enrolments of
   the human identity; envelopes, sequences and heartbeats between connected peers.

No invariant waits for a proof. What a new module adds should be proved as the others were,
its strengthened invariant checked by TLC first.
