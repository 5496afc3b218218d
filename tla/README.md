# Verification of the AOS Chrome Companion

TLA+ models of the Companion, checked with TLC on small instances and proved
about with TLAPS. Paths are relative to the repository; line numbers are in
`PROJECT.json`, which maps every definition to the code it stands for.

## 1. The system

The Companion lets several agent processes drive tabs of a user's Chrome. One
resident **broker** (`src/broker/broker.mjs`) sits between the **clients** (MCP
servers and scripts, over a local socket) and the **Extension** in each Chrome
profile (a service worker, reached through a native-messaging host). The
broker's promise is about effects: a mutating operation carries an idempotency
key, is sent at most once, and whatever happens to the connection, the process
or the timer, the durable **operation ledger** (`src/shared/task-runtime.mjs`)
says truthfully whether the browser may have been changed. On top of single
operations stand **task transactions**, which bind a tab, perform steps in it
and report what was done, and the flows by which an owner settles a doubt.

| Component | State | Operations | Hard behaviour | Correct when | Modelled in |
|---|---|---|---|---|---|
| Operation dispatch | pending and timed-out operations, per-tab promise chains, the profile's slots | `operation.execute`, results, timers, cancellation | every step awaits; duplicates; disconnections | one send per key, in tab order, never after the right to send is gone; every caller answered and told the truth | `OperationDispatch`, `CommandOutcome` |
| Operation ledger | entries by key, mutex, poison flag | `prepare`, `transition`, `reconcile`, load | memory ahead of disk; crash between steps | dispatch recorded before it happens; effects recorded truthfully | `TaskLedger` |
| Ledger persistence | checkpoint and journal files, sequence numbers | append, checkpoint, replay | torn frames, crash between two files | what was acknowledged is read back | `LedgerJournal`, `AtomicStore` |
| Sessions, leases, profiles | sessions, leases, tab index, profiles, peers | open, close, transfer, expire, acquire, release, hello | cleanup that awaits; replaced relays | one session per task, commands only for the present owner, nothing left with a lost one | `SessionRegistry`, `SessionLease`, `TabReservation` |
| Task transactions | capsule, tab, steps done | `task.transaction` | failures between any two steps | the receipt is right about the page; evidence of a doubt is kept | `TaskTransaction` |
| Visual input | signed proofs, those consumed | inspect a target or point; click, drag, scroll, type with a proof | verified, looked at again, then consumed; the page moves on | a fresh proof serves one input, aimed at the document on its image | `VisualProof` |
| Task tabs | ownership records in memory and ledger | cleanup, sweep, grouping, hand-over, purge | passes over stale inventories | nothing the Companion opened is forgotten; no page closed under a transaction; orphans go | `TaskTabs` |
| Reconciliation | doubtful capsule and its operation | inspect, settle, complete, rebind, sweep | overlapping calls, late answers, restarts | a doubt is settled once, as a whole, by evidence | `Reconciliation` |
| Target recovery | recovery receipt, capsule, creation | `task.recover_target` | repeated and overlapping calls, crashes | a lost target is replaced once | `TargetRecovery` |
| Extension reload | reservation per profile | request, resolve, restore | boundary may pass; worker and broker restart | one reload per generation; "reflected" means a new runtime | `ExtensionReload` |
| Broker client | connection, pending calls | request, reconnect, cancel | retry of a call that ran | a mutation is written once | `BrokerClient` |
| MCP server | task contexts | tool calls | tasks sharing one connection | no task uses another's session or lease | `McpServer` |
| Native port and host | port, host, fragments | connect, relay, reassemble | suspended worker, two ports, lost hosts | answers only for commands sent on that port; the port comes back | `NativePort` |
| Clipboard document | deliveries, intents, receipts | write | document and worker end independently | written at most once, receipts true | `ClipboardSource` |
| Page debugger | attachment, references | read, observe, dialog, viewport | Chrome takes it away; slow attachments | nobody loses it to another; nothing leaks | `PageDebugger` |
| Recording | window, recorder, state | start, finish, isolate | intrusions, lost answers | what is offered is clean | `Recording` |
| Setup lock | marker files, helper | acquire, release, reconcile | killed helpers, dead owners | the holder is marked, a release is true | `SetupLock` |
| Operator scripts | files | | sequential I/O | | no |

The broker, the MCP process, the worker and the host each run on one JavaScript
thread. What interleaves is the code between two `await`s, so that is what an
action of these models is.

## 2. Modules

### Operations and their ledger

`TaskLedger` has no variables: it defines entries, the transition table, the
jobs the broker asks for (`prepare`, `reserve`, `abandon`, `expire`, ...) and
the mutex `#queue` as operators on one ledger value. A job changes its entry in
memory when it reaches the head of the chain and is durable when it finishes;
between the two, other code sees what a crash can still take back.

`OperationDispatch` is the life of mutating, tab-scoped operations of one
profile. Correspondence with `broker.mjs`:

| Model | Code |
|---|---|
| `pc[r]`, `answer[r]`, `aborted[r]` | where `#executeOperation` stands for request `r`, what `#handleClientRequest` answered, its `AbortController` |
| `reqLease`, `reqPeer`, `reqGen` | the lease and the profile object captured when `r` was accepted |
| `tabQueue[t]` | the promise chain `operationQueues["tab:..."]`; the marker of cancelled work stays in it until its turn |
| `lane` | `targetLanes`: `waiting` is `pending`, `active` the occupied slots |
| `op[r]` | `pendingOperations` (`pending`), `timedOutOperations` (`tombstone`), taken out by `#completeOperation` (`settling`) |
| `led`, `disk` | the ledger in memory with its running job, and what a restart would read |
| `cmd[r]`, `effect[r]` | the command at the Extension (external) and whether the page changed |
| `lease`, `alive`, `connected`, `peer`, `gen`, `hello` | `tabLeaseIndex`, `peers`, the profile record, a registration past its first await |

Each await of the path has its action: `Submitted` (up to `ledger.prepare`),
`PrepareDone` (to the queue), `Schedule` (`#enqueue` reaches the request:
`#withTargetSlot`), `Begin` (slot granted, first `assertDispatch`, reservation),
`ReserveDone` (second `assertDispatch`, send), `Deliver` and `SettleDone`
(`#completeOperation`), `AbandonDone` (`#recordNotDispatched`), `ExpireDone` (a
transition nobody awaits). `Cancel`, `DisconnectClient`, `LoseLease`, `Timeout`,
`ForgetTombstone`, `LoseExtension`, `Hello`/`Registered` and `Restart` are what
happens around it. Trailing work is part of the action: settling an operation
frees its slot, drains the lane and moves the tab's queue.

`CommandOutcome` is the abstract promise per key: open, then cancelled without
a send, or sent once and its effect learned or in doubt. `OperationDispatch`
maps the durable entry to a verdict (`VerdictOf`) and checks `KeepsPromise`,
that every step of the broker is a step of `CommandOutcome` or a stutter.

`LedgerJournal` is what happens to the ledger's two files, one action per system
call of `#persist` and `#checkpoint` that a crash can tell from its neighbours:

| Model | Code |
|---|---|
| `checkpoint`, `journal` | `statePath` and `statePath.journal` as processes see them; `torn` is a frame without its newline |
| `oldCheckpoints`, `oldJournals`, `name` | what a loss of power may bring back: unsynced contents, an unsynced rename, a new file's name |
| `map`, `pending` | the five `LedgerMap`s, of which a record is one key, and their pending keys |
| `sequence`, `bytes`, `writes`, `exists` | `journalSequence`, `journalBytes`, `journalWrites`, `checkpointExists` |
| `Change` | a job under `#queue` sets records and calls `#persist` |
| `Rename`, `ReplaceDurably`, `Truncate`, `FinishCheckpoint` | `#checkpoint` |
| `BeginAppend`, `EndAppend`, `SyncAppend`, `LinkDurably` | the journal branch of `#persist` |
| `Load` | `#load` and `#replayJournal`; entries it converts are a batch it persists itself |
| `Fail`, `Kill`, `PowerLoss` | a call throws, the process dies, the host does |

`AtomicStore` is its abstract promise, one value replaced as a whole; the mapping
takes the set of values a restart might load for `stored`.

### Sessions and the reload

`SessionRegistry` has no variables either: the broker's book of sessions and
exact-tab leases (`sessions`, `leases`, `tabLeaseIndex` and every connection's
`sessionIds`) is one value, and its operators are the helpers that edit it
(`#deleteSession`, `#deleteLease`, the two halves of `#openSession`, ...).
`SessionLease` is everything that reads and edits it, for one profile:

| Model | Code |
|---|---|
| `reg`, `minted`, `granted` | the four structures; ids already given by `createId` |
| `client[c]` | `up` while in `this.peers`, `leaving` while `#disconnectPeer` awaits the ledger, then `gone` |
| `relay[r]`, `claims`, `profile`, `gens`, `hello[r]` | Extension connections, whose `profileInstanceIds` name the profile, the profile's record, registrations that await the ledger |
| `op[o]` | an operation in a queue, or in `pendingOperations` |
| `cleanup[<<s, k>>]` | `#finalizeSessionTerminalTabs` for a close or an expiry: awaiting `tabs.list`, between two tabs, awaiting a `tabs.close`, detaching |
| `tabTask[t]` | `taskTabs`: the task a recorded tab belongs to |
| `session.idle` | `lastSeenAt` older than the TTL |
| `ReuseSession`, `TakeOver`, `NewSession` | the three ways through `#openSession` |
| `StaleRequest` | `#requireOwnedSession` deletes an owned session of an old generation |
| `AcquireLease`, `ReleaseLease`, `TabRemoved` | `#acquireLease`, `#releaseLease` and the `finally` clauses, the Extension's event |
| `SubmitOp`, `SendOp`, `DropOp`, `EndOp` | `#executeOperation`, `#sendOperation` with `dispatchGuard`, `#completeOperation` |
| `CloseSession`, `NextTab`, `SendClose`, `EndCleanup` | `#closeSession` and its cleanup |
| `GrowIdle`, `ExpireAtOnce`, `BeginExpiry`, `FinishExpiry` | `#expireSessions` |
| `DisconnectClient`, `FinishDisconnect`, `DisconnectFails` | `#disconnectPeer` of a client: before and after its awaits, or ended by a failing one |
| `FirstHello`, `LaterHello`, `InstallProfile`, `FinishHello`, `HelloFails`, `LoseRelay` | `#registerProfileChecked` between its awaits; `#disconnectPeer` of a relay |

`TabReservation` is its abstract promise: a tab is reserved by one live session
at most and is free between two; a session changes its owner only while it
reserves nothing; when it ends, all it reserved is free.

`ExtensionReload` follows a requested reload through the broker (safe boundary,
reservation, one command, its answer or timeout, restoration after a restart,
the hello that ends it), the worker (acceptance, the delay, the rotation of its
identity, the reload) and the client's read-back of the status.

`SessionLease` and `OperationDispatch` meet at the send: the second models
leases as one record that a disturbance takes away and follows the ledger and
the queues; the first models what takes a lease or a session away and keeps of
an operation only whom and what it is sent for. `SessionLease` knows of a reload
only that one may be in flight when the Extension is lost.

### Tasks

| Module | What it is | Correspondence |
|---|---|---|
| `TaskTransaction` | `#executeTaskTransaction` and the catch block's verdict, for several calls over shared tabs | `txn[x]` the call's locals, `took` what the page really did (external), `capsule`, `record`, `reserved` (`taskTargetReservations`), `lease`; one action per await; `Evidence`, `EffectMay`, `LocalMay`, `Retry`, `Verdict` are the functions of the catch block |
| `VisualProof` | `visual.target_inspect`, `visual.point_inspect` and the steps that present a proof | `at`, `does`, `under`, `seen`, `shot` are locals of a call, `proof` is what the signatures say, `spent` is `consumedVisualProofs`; `Verifies` is `#verifyVisualTargetProof`, `Looks` `#revalidateVisualTargetProof`, `Spends` `#consumeVisualTargetProof`, `Guards` and `Inputs` the worker's `runTrustedVisualInput` |
| `TaskTabs` | what becomes of tabs afterwards | a pass reads Chrome and its records once and works off its candidates: end of a session, the sweep of ownerless tabs every 15 s, both signed cleanups, grouping, hand-over, claims, purges, popups |
| `Reconciliation` | settlement of a doubt | a capsule and the operation behind it, the tab's record, the owner's session, the page; every call a check, an await and a ledger job |
| `TargetRecovery` | replacement of a lost target | receipt, capsule and creation of one recovery, calls that overlap |

An operation of `TaskTransaction` is one step, since `OperationDispatch` has its
insides: refused before the send, proved to have had no effect, lost, or
acknowledged, each with every ledger entry and error that dispatch can leave.
`VisualProof` knows of a transaction its lease, the snapshot that a step starts from and
that the lease is freed in the end.

### The two ends

| Module | Code |
|---|---|
| `BrokerClient` | `src/client/broker-client.mjs`, `src/client/connect.mjs`: one connection at a time, deadlines, cancellation, one reconnection for a read |
| `McpServer` | `src/mcp/server.mjs`, `src/mcp/task-context.mjs`: the registry of which task owns which session and lease, over one `BrokerClient` (`EXTENDS`) |
| `NativePort` | the worker's native port (`extension/service-worker.js`), the host (`native-host/`), fragments and their reassembly |
| `ClipboardSource` | the offscreen document's lane of clipboard writes with intents and receipts |
| `PageDebugger` | the pool through which reads, observations, dialogs and viewport overrides share one tab's debugger |
| `Recording` | `companion_record_start` to its verdict: tool, recording window, the host's recorder |
| `SetupLock` | `setup/lock-transaction.pl` and its caller: kernel lock, work marker, guard, lost answers |

### Instances

An `MC...` module gives instances their functions, symmetries and initial states.
`MCSharing`, `MCLedgerJournal`, `MCReload`, `MCEndings`, `MCEndpoints` and `MCTasks`
put together parts that share nothing: a behaviour takes one part, named by a
variable that never changes, while the others rest in one initial state. Such a run
asks one kind of question (what is shared, what survives in files, what must come
about) of several components, and has the sum of their states, not the product.

`MCSessionLease`'s `MCInit` explores the crossings of two relays and those of two
clients apart. `OpenedInit` (of `MCSessionLease` and of `MCMcpServer`) starts when
the first session is open, before which little can happen, and `EarlySpec` of
`MCTaskTabs` before any tab of a task exists.
Operators whose comment starts with "Mutant" are plausible bugs of the code;
each property is known to fail when its mutant replaces the definition it
belongs to. The modules named `..._proofs` hold the proofs.

### Choices in the models

Operations and ledger:
- A ledger job's completion and its awaiter's continuation are one action: the
  microtasks between them run before any other event.
- A crash may or may not include the running job, and neither loses finished
  ones: the write is one append (or one rename), its torn forms belong to
  `LedgerJournal`.
- In `LedgerJournal` writing the temporary file is part of `Rename` (nobody reads
  it before) and the trimming of a torn frame part of `Load` (repeating it is
  harmless). Committed bytes are not corrupted, and the broker's socket keeps a
  second writer away (`broker.mjs:805`). A frame counts one byte.
- A failing write (`PersistMayFail`) may or may not have reached the disk; every
  later job then throws (`poisoned`), as `persistenceError` makes it.
- Session and lease are one: a lease id is granted once, so it stands for the
  binding that the entry's fingerprint digests.
- A client's leases go when its disconnection begins; the code awaits its
  ledger work first. Requests of a dead client are refused either way; what the
  wait does to sessions is in `SessionLease`.
- An `error` result says nothing of the effect; `no_effect` is the authenticated
  kind and is assumed true of the page, `ok` likewise: the Extension is trusted
  to report, not to be fast, ordered or alive.
- The `NO_DISPATCH` and `PROVEN_NO_EFFECT` branches of recovery are left out of
  `Recovered`: no interrupted entry that this code wrote reaches them, which is
  what `CountedDispatch` proves.
- Left out: reads and other operations without a key and their retry, the
  `session:` and `profile:` queues, action events, authority expiry (one more way
  for `dispatchGuard` to fail), the graceful `close()`.

Sessions and reload:
- The cleanup's reasons to keep a tab (pinned, user help, reconciliation, a live
  capsule, `taskTargetReservations`) are one choice to skip it, and its `tabs.list`
  is pending as soon as it is asked for. One close per session runs at a time.
  Whether a lost relay is a requested reload (`extensionReloadInFlight`) is a
  choice, `ReloadMayBeInFlight`. A profile whose binding is recovered from the
  ledger behaves like a first hello. `WritesFail` names the ledger writes that may
  fail (`leaving`, `hello`).
- Left out: refusals of a stale build, a second profile, the content of labels and
  handshakes, what an unhandled rejection of the expiry's `finally` does.
- `ExtensionReload` assumes that a native host does not start and greet within the
  one storage write before a reload (TLC finds a second reload otherwise). Other
  work of the profile is one bit; build identity is left out.

Tasks:
- `TaskTransaction`: operations are one step; the removal of vanished records and
  the resolution of the target are one step; records have no order in time; stale
  generations are abstracted in `Admitted`. `Permitted` omits the comparison of task and
  run (`broker.mjs:3395-3401`), so it permits more than the code; a ledger write that fails
  after the last readback (`:5657`) is no branch of its own, since it ends in the same
  verdict as the failures around it. Left out: dialogs and
  `action_event_pending`, transactions on profile-global settings, a record write
  that fails inside the catch block.
- `VisualProof`: where a target lies is left out, and with it clicks that follow a moved
  element, canvas patches and the dismissal of overlays: each is a call that fails or one
  that goes on. Every navigation keeps the address, since another address is refused
  wherever another document is. A document's id is never used again. A proof may expire at
  any time. A caller presents the whole proof, so the memory of issued proofs (which lets it
  present their number) is left out; so is the page a transaction insists on for its later
  steps. Transactions share a lease more freely than in `TaskTransaction`.
- `TaskTabs`: an operation begins in one step; `terminalize`'s snapshot of leases is
  the present one. Left out: folding of groups, the viewport amendment and the
  original-restore disposal for single historical runs, `retireLocalCanary`.
- `Reconciliation`: instead of names of sessions, leases, generations and pages the
  model keeps at every place that holds one whether it is still the present one; the
  first absence read is kept (the code keeps ten); `now` is the broker call's. Of all
  other transactions one may be in doubt (`other`): of the run on the capsule's tab, of
  the run elsewhere, or, from before, of another task on the capsule's tab; it is no
  navigation, for a navigation in doubt on the tab holds up both answers of
  `AdviceAgrees` by a rule of its own. A creation in doubt has no tab, so its resume goes
  by the run; left out is the case that the run has exactly one other tab, which the code
  would then take. Also left out: archives under another id, local resolutions of page
  edits, handoff gates.
- `TargetRecovery`: one failed invocation; reuse of its key by other sources, prior
  effects of the run and collection by age are left out.

The two ends:
- Time is whether a deadline has passed. Chrome answers attach and detach in order.
- `ClipboardSource` assumes that a document opens slower than the handler's storage
  calls: with a faster one, the handler's check-then-set across awaits could put an
  old document's intent over a completed receipt.
- `Recording` calls nothing dirty that nobody could hear: what happens while the
  worker is down, or has not read its storage again, goes unnoticed in code and model.
  An intrusion is in memory and in storage at once (`Keeps`); `taint()` starts the save
  and does not wait (`recording-window.js:38-43`), so a worker that dies within that write
  has forgotten the intrusion, which the model excludes.
- `SetupLock`: a process asks once; pid reuse, the abort signal, the maintenance of
  dead locks and older marker formats are left out.

## 3. Runs

| Run | Instance | Shows |
|---|---|---|
| `dispatch_interrupts` | 2 requests on one tab, 1 slot, every disturbance; fairness | what the ledger and the clients are told is what happened (`KnownEffectsAreTrue`, `AnswersAreTrue`), `TabOrder`, every accepted request answered (`EveryRequestEnds`) |
| `dispatch_restart` | a request and its copy, 2 leases, 2 connections, 1 restart, failing writes | `SentOncePerKey`, `DurableBeforeSend`, `NoDispatchIsTrue`, `NoLateSend`, refinement of `CommandOutcome` (`KeepsPromise`) |
| `sharing` | 3 requests to 3 tabs, 1 slot, a waiting list of 1, cancellation; or 3 users of one debugger | `SlotsDoNotLeak`; `NobodyLosesTheDebugger`, `NothingLeaks` |
| `dispatch_false_receipt` | 3 requests, two of one key, two tabs, cancellation | expected violation, section 5 |
| `journal` | 2 records, checkpoint after 2 frames or 3 "bytes", 4 frame numbers; kills, losses of power, failing calls; or 3 processes and their helpers | refinement of `AtomicStore` (`ImplementsStore`), and so that an idle ledger is durable; `HolderIsMarked`, `ReleaseIsTrue` |
| `lease` | 2 clients, 1 tab, 2 sessions of one task, 2 relays, 2 generations; or 2 calls for a reload | `IndicesAgree`, `OneSessionPerTask`, `OwnerSends`; `OneReloadPerGeneration`, `ReflectedIsFresh` |
| `endings` | 2 clients, 1 session; or a worker and up to 6 ports, 2 upsets; fairness | sessions of lost clients go (`DepartedAreForgotten`); the port comes back (`PortComesBack`) |
| `endpoints` | 2 tasks in one MCP process; or commands whole and in fragments; or 3 deliveries of 2 clipboard operations; or 2 recordings | `WrittenOnce`, `NoForeignUse`; `AnswersAreSound`; `ReceiptsAreTrue`; `UsableIsClean` |
| `tasks` | 2 calls of 2 sessions over 2 tabs; or one doubt of each kind and 2 calls; or one replacement and 2 calls; or 2 callers with 2 proofs, documents, leases and inputs, 1 upset | `NothingDoneRemains`, `ReceiptIsTrue`, `DoubtIsOnRecord`, `EvidenceIsKept`; `SettledOnce`, `SettlementIsWhole`, `AdviceAgrees`; `CreatedOnce`; `OneInputWhileFresh`, `AimedAtTheImage` |
| `tabs` | 1 tab, 2 sessions, every pass and ending, 1 upset | `NothingUnrecorded`, `NoCloseUnderTransaction` |
| `tabs_orphans` | 2 tabs, 2 tasks, hand-overs, popups, lost clients; fairness | `OrphansGo` |
| `setup_lock_wedged` | 3 processes | expected violation, section 5 |

Bounds (`MaxLease`, `MaxPeer`, `MaxRestart`, `Disturbances`, `Events`, `Upsets`,
`MaxUpsets`, ...) occur only in guards of the environment's actions. Deadlock is not
checked: when the bounds are used up the system stops.

Why they are enough. Two requests per tab show order and duplicates, because each
hazard is between one request and its predecessor or its copy; three tabs are needed
for a full waiting list; a second connection makes a relay or generation stale; a
second lease is a re-acquired tab. In the journal two frames per checkpoint and four
numbers give several checkpoints, a journal with covered and fresh frames, and one
whose size outgrew its count of writes; two records let a frame overtake one and keep
the other. Two sessions, clients and relays are what every conflict is between, one
task is what two clients can contend for; ids are never used again, so their number
bounds how often a session is opened or a tab leased. In `tasks` an operation of
another transaction is in doubt, and a second disturbance happens, beside a plain
send only. Two proofs are what a drag names and what two callers compete for; a second
document, lease or broker is what a proof may outlive. There, one proof expires at most
and nobody is in a step while the other inspects (`Alone`): an inspection only adds a
proof, and the theorems of section 4 have no such bound. A reload meets one upset. Symmetry sets hold names that no definition
tells apart; no liveness run uses any.

In `journal` a kill finds the files synced (`Kill`): dying otherwise leaves the files
of a loss of power that takes nothing back, which is explored, but a loss of power
*after* such a kill is not, and there an idle ledger need not be durable. `#load` syncs
nothing of what it reads and `#persist` syncs the directory only while the journal is
empty, so a broker killed before its first directory sync leaves a journal whose name
no successor makes durable until the next checkpoint.

**Fairness.** In `dispatch_interrupts`: the ledger's steps, `Schedule` and `Begin`
(promise continuations) and the operation timer, which the event loop guarantees while
the process lives and the disk answers; nothing of clients, of the Extension or of
reconnection, and no failing write (with one, `#completeOperation` leaves its caller
unanswered). In `endings`: a disconnection's and an expiry's ledger jobs end (well or
not), each command of a cleanup is answered or timed out, the interval of
`#expireSessions` finds sessions nobody uses; the worker's timers and alarms fire,
events of a port are delivered, a host connects or ends; nothing of clients, relays or
registrations. In `tabs_orphans`: passes and transactions go on, Chrome answers, and
(strong fairness) the 15-second tick of the sweep does not fall into an operation in
flight every time.

## 4. Proofs

TLAPS checks the following for every value of the constants that the assumptions
allow: types of the constants, finitely many requests, `NoRequest` outside `Requests`,
the owner of an unleased tab (`"nobody"`) not a client, "none" values outside their sets,
a positive number of connections. The passing runs evaluate them. Each section names the
inductive invariant; the properties follow from it, and it from the initial states and
one lemma per action or kind of step.

### Operation dispatch

| Theorem | States |
|---|---|
| `OperationDispatch_proofs!TypeCorrect` | `TypeOK` |
| `WriteAhead` | `DurableBeforeSend`: a restart at any moment finds on disk that a sent command may have been sent |
| `CountedDispatch` | `InterruptedWasCounted`: recovery quarantines every interrupted entry |
| `SlotsAreReturned` | `SlotsDoNotLeak` |
| `TabsKeepOrder` | `TabOrder` |
| `DispatchEffects_proofs!OneCommandPerKey` | `SentOncePerKey` |
| `LedgerKnowsTheEffect` | `KnownEffectsAreTrue` |
| `CallersHearTheTruth` | `AnswersAreTrue` |
| `NothingIsSentLate` | `NoLateSend` |

The invariant is built in three storeys.

`IInv` (`OperationDispatch_proofs`). The type invariant is not inductive: the lane's
`SubSeq` is well typed only because the lane never holds more than `Concurrency`
works, and a registration may count a connection only because its hello left room for
it. For the write-ahead property the disk is related to the memory it is written from:
it never runs ahead of the memory (`DiskBehind`), an entry that left the undispatched
states never goes back (`Follows`), and a reservation that is being persisted already
shows in memory (`ShowsReservation`). Lemmas of their own show that each ledger
operator keeps these facts, so that the proof for an action only names the operators
it applies.

`QueueInv` (same module) says where a request stands in its tab's queue and
in the lane for every point its handler can be at (`StandsRight`): queued work is in
the queue, a reservation or a send holds a slot, whoever is in the lane is first in its
queue, a queue lists its tab's work by ticket. Slots and order follow. The lemmas on
`Release` and `Drained` (what leaves, what stays, who may get a slot) carry every
action; nine of them differ only in whose work settles.

`DInv` (`DispatchEffects_proofs`) adds what makes the promise true:

- `LeaseInv`: a lease id is granted once, so a request's lease tells its tab.
- `KeyInv`: a handler that passed `ledger.prepare` stands behind an entry with its own
  fingerprint. Two requests with one key that both pass therefore name one lease, hence
  one tab, hence wait in one queue; when one reserves, the other is behind it in the
  queue (`QueueInv`), and when its turn comes the entry is no longer `prepared`.
- `JobsInv`: the jobs in the mutex are about entries of their own fingerprint, tell the
  truth about the browser (`Truthful`), and settle an operation once (`Once`).
- `EffectInv`: what the ledger in memory and the disk say of an effect, and what a
  caller was told, is what the browser did. For `AnswersAreTrue` an applied entry must
  stay applied: the table closes it (`Closed`) and no late job takes
  it back.

`NoDispatchIsTrue` is not proved: with two tabs and one key it is false (section 5).

### Ledger files

For any records, thresholds and number of frames, and any kills, failing calls and
losses of power: `LedgerJournal_proofs!TypeCorrect`, `CrashRecovery` (`AlwaysReadable`,
`IdleIsDurable`, `NoConflictWithItself`) and `Refinement` (`Spec => ImplementsStore`).
The restriction of section 3 is part of the model: where power may be lost, a kill finds
the files synced.

`IdleIsDurable` speaks of an idle ledger only; `RecoveryInv` adds what holds at
each step of `#persist`: before a frame is written the files lack exactly the
pending changes (`Unwritten`), after the rename every frame is covered by the
checkpoint (`Superseded`), and frame numbers grow along the file (`Ordered`), so
that the number of the last frame decides which are covered. The lemmas
`ReplayOfAppend` and `ReadableAppend` say what one more frame does to a replay.
"The last change of a record" is a `CHOOSE` over frame indices, which exists
because the distance to the end of the file is well-founded.

`HostInv` adds what a loss of power may bring back. The two files fall back
independently, so every checkpoint that is left must be readable with every journal that
is (`LeftLoads`); that this is so at each step of `#persist` needs to know which of the two
can have anything left there at all (`LeftOnly`): old checkpoints only until the directory
is synced, which comes before the truncation; old journals only until the journal is; and
a journal whose name is not safe is empty or has its first frame, unacknowledged. Each
step of `#persist` then lets a restart find what it could find before, or what is in
memory (`Spreads`), and the acknowledgement leaves the latter alone (`IdleStored`).

### Sessions and leases

For any clients, tasks, tabs, relays, ids, generations, disturbances and failures,
`SessionLease_proofs` shows `TypeCorrect`, `IndicesStayLinked`,
`TaskSessionsAreUnique`, `DepartedAreEmptyHanded`, `OwnersSend` and `Refinement` of
`TabReservation`. A session opened while a registration waits keeps the old generation
until it is used or expires; `OwnersSend` says that no command goes out for it. The
invariant, `LeaseInv`, adds to these properties that live sessions and leases carry ids
given before (so that a new id is free), that a profile with sessions has a generation
and a relay, and that an operation works for a session once given, in that session's
generation. The proof does not go action by action through six properties: every action
edits the book in one of six ways (`BookStep`: touch, enter, pass on, leave, grant, give
up), lemmas about `SessionRegistry` say what each edit does to the links, the
type and the reservations, and each property is then shown to survive each edit.
`DepartedHoldNothing` needs the rest of the book: only because every live session is in
its owner's `sessionIds` does deleting those leave the departed with nothing.

### Task transactions, settlement and replacement

For any number of calls, steps, tabs, keys and disturbances, `Tasks_proofs` shows

| Theorem | States |
|---|---|
| `NothingDoneIsOffered` | `NothingDoneRemains`: what is offered again did not happen |
| `ReceiptsAreTrue` | `ReceiptIsTrue` |
| `DoubtsAreSettledOnce` | `SettledOnce` |
| `SettlementsAreWhole` | `SettlementIsWhole` |
| `AdviceAlwaysAgrees` | `AdviceAgrees` |
| `OneReplacement` | `CreatedOnce` |
| `OneInputPerProof` | `OneInputWhileFresh` |
| `InputsAreAimed` | `AimedAtTheImage` |

Receipts. `CallsAccounted` says for every phase of a call which steps had their effect:
none before the first step, up to and with the present one from its readback on, and once
the catch block has spoken, what it said is right about them (`Speaks`). Three lemmas
carry the catch block, one for each kind of failure: where the broker knows every effect
(`KnownSpeaks`), where it does not and says so (`UnknownSpeaks`), and a step that was sent
and whose answer was lost (`LostIsUnknown`), for which an error's claim of no effect must
not be believed without a ledger entry that bears it out. The proof assumes nothing of
who shares a tab with whom; only `DoubtIsOnRecord` and `EvidenceIsKept` need that.

Settlement. `DoubtInvariant` relates capsule and operation: an effect is not known in one
and unknown in the other, and a reconciled operation is never unknown. `StaysSettled` is
the step property. Every way of settling reads before an await and writes after it, so
the lemmas say of each job what it finds when it runs, not of what its caller saw.
`AdviceAgrees` follows from the same invariant, since it rules out a capsule in doubt
whose effect is known. It compares two sets of doubts: a resume counts those on the tab
it would take, whoever owns them (`broker.mjs:8636-8650`), the status those of the task and
run on any tab (`:8220-8223`, `:8399`). A ready resume and the status disagree exactly
when the run has a doubt on another tab.

Replacement. `RecoveryInvariant` says that of all calls at most one holds the receipt
(any other that comes later finds it), that nothing is on the wire before the holder
sends, and that a tab is there only once the command was carried out.

Visual input. What the two properties say of an input was decided several looks at the
page before it, and `VisualInvariant` follows it from there. Documents are counted, so a
proof's image is of its document or a later one (`ImagesBetween`); a look that finds the
proof's document still there therefore finds the image's, although nobody compared a
point's image with the page. From that look on, what a call saw last is the image of all
its proofs (`AimsSettled`, `InputsAimed`). For the first property, the fresh proofs that
calls past `Spends` hold and those of inputs are disjoint (`SpentOnce`), and each is
consumed or of a lease of an earlier broker (`Remembered`), under which no call of this
one verifies (`LeasesCounted`, `ProofsVerified`). That is why the signing secret may
outlive a broker and its memory of consumed proofs need not. The assumption: `MaxProofs`
is a number.

### Task tabs

For any number of sessions, tasks, tabs, passes, ways to end and upsets,
`TaskTabs_proofs` shows `OpenPagesAreRecorded` (`NothingUnrecorded`) and
`PagesOfTransactionsStay` (`NoCloseUnderTransaction`). Passes work from inventories that
are stale when they act, so the invariant, `IndInv`, says what may still be relied on:

- `PassOK`: a page that a pass took for gone is closed, or one of the exceptions of the
  property; while a pass has its list and has not chosen, no transaction is creating a tab
  but one that was given up; the sweep handles disposable records only, so the record of a
  retained page is never dropped by it.
- `EntryOK`, `OneTurn`, `ActsBehind`: what a place in a tab's queue may count on. A
  transaction's step waits there only while its session leases the tab; while a session's
  pass waits for an open page, no transaction has done a step on it; the steps come behind
  the pass; and a pass waits once. That is why the look at the lease and the place in the
  queue must be one step.
- `WorkOK`: a page with a step done on it is leased by that session; a tab being created is
  not there yet, and only one transaction creates it.
- `TabOK`: a tab on disk has its record in memory; a tab that was never open has nothing.

Lemmas of the kind `QueueFrame` say what a step that leaves a queue, a transaction or a
pass alone must not do elsewhere; each action is then a few uses of them. `None` must be no
session, tab or record.

### Reload of the Extension

For any number of reload requests, lost ports and workers, and restarts of the broker,
`SessionLease_proofs` also shows `ReloadedOncePerGeneration` (`OneReloadPerGeneration`) and
`ReflectionsAreFresh` (`ReflectedIsFresh`). The invariant: a command that may have had an
effect keeps its generation reserved (`Guarded`); no generation owes two of them
(`OwedOnce`); identities and generations only grow, and what the broker and the ledger know
of them follows (`Grown`); so whoever sees a generation other than the one its command was
sent in sees a newer identity (`Sent`). `Past` and `Fits` relate caller, entry and operation.

The property is per generation, and leaves out a reload whose late answer settled it. "One
reload at a time" is false, which TLC shows with three calls: a restart forgets a first,
settled reload that is still scheduled (section 5), so a second one is sent in the same
generation; the first fails, which leaves the worker under a new identity with the second
scheduled; the hello of that identity starts a generation, which ends the second's
reservation and lets a third in.
The assumption: "none" is no call and no reservation.

### The setup lock

For any number of processes, `LedgerJournal_proofs` also shows `HolderKeepsItsMarker`
(`HolderIsMarked`) and `ReleasesAreTrue` (`ReleaseIsTrue`). `LockInvariant`: only the
helper with the kernel's lock moves a marker (`OneHelper`); what it found before it
published its guard is still true when it moves the work marker (`Found`), because every
other helper waits; and an answer says what the markers say for as long as its process
lives (`Told`), because only dead owners are replaced. The assumption: "no process" is
none of the processes.

### The page debugger

For any number of calls and of attachments, `PageDebugger_proofs` shows `DebuggerIsKept`
(`NobodyLosesTheDebugger`) and `NothingIsLeft` (`NothingLeaks`). Chrome and the worker do
not share a state: what Chrome was asked and has not done, and what it did and the worker
has not heard, decide who has the debugger. `DebuggerInvariant`:

- `Line` says what may stand in those two queues for each state of the pool: an attachment
  that waits behind void detachments, is answered, or was taken away before its answer was
  heard; nothing, or the news that Chrome took it away; a detachment asked for or answered,
  with that news before or after it.
- `Pool`: at most one state can be used; it counts its users, a state that closes has none,
  so only the last release detaches, and nobody joins what is being detached.
- `Places` relates a call's stage to its lease and its record: one that was stopped has no
  lease where the code that finds it stopped goes on without releasing.
- `Overrides`: the viewport is overridden only while the debugger is attached, for the one
  call whose record says so.

`NobodyLosesTheDebugger` follows from `Line` and `Pool`, `NothingLeaks` needs all of it.
The assumptions: "nobody" is no call, and there are finitely many calls.

### The two ends

`Endpoints_proofs` has five parts with an invariant each.

| Theorem | States | for any |
|---|---|---|
| `UsableMovies` | `UsableIsClean` | recordings, intrusions |
| `ReceiptsOfWrites` | `ReceiptsAreTrue` | deliveries, operations, documents, capacity, failures |
| `AnswersOfThePort` | `AnswersAreSound` | commands, ports, slots, upsets |
| `RequestsWrittenOnce` | `WrittenOnce` | calls, connections |
| `OneLiveConnection` | `NoStrayConnection` | calls, connections |
| `SessionsServeTheirTask` | `NoForeignUse` | tasks, sessions, leases, calls, connections |

- `RecordInvariant`: a tab gets its window before its recorder and never after it; an
  intrusion is on record for as long as there is a window to ask about; what was found
  clean has neither window nor recorder any more, so nothing can get into it. The worker
  knows what it stored, or nothing (`CopyIsTrue`): no verdict is given from memory.
- `ClipboardInvariant`: the lane has each delivery once; one storage request is at work,
  that of the present document or the last one of the document before; what a request
  found is still so when it stores; and the write lies between its intent and its receipt
  (`WriteIsBracketed`). Documents, workers and deliveries end independently, so the
  second of these is what all else rests on.
- `PortInvariant`: the frames of a port are those of commands sent on it, first piece
  before second and each once; a transfer came by the worker's present port; and a command
  goes forward only: given up, run and answered are never followed by an earlier stage.
  The queue of a port is a sequence, so the proof speaks of which frames are coming
  (`Coming`) and never of where.
- `ClientInvariant`: no connection is ready but the attached one, and none while another is
  dialled (so a reply never comes twice); a call that may be made again has written less
  than it may (`Counts`), and only reads and status probes may.
- `McpInvariant` adds that whoever names a session is its task: the registry, every tool
  call past its guard, and every answer on its way to one (`NamedByItsTask`). Sessions
  change hands only by `#openSession` for the same task, or after nothing names them.

Two details of the models carry this. A tool call is outlived by its *own* request only,
not by a status probe made for it (`Outlived`); and a probe that is answered makes probes
of the same call on older connections void (`Answer`), since their reply would not be read
as that of the opening. The assumptions are that no
command is both short and long, no recording is named like the process (`"p"`) or like
"none", and every delivery is of an operation.

### Only model-checked

Out of the provers' reach: the liveness properties (`EveryRequestEnds`,
`DepartedAreForgotten`, `PortComesBack`, `OrphansGo`). False for other constants:
`NoDispatchIsTrue`, and with it the refinement of `CommandOutcome` (`KeepsPromise`), with
two tabs and one key (section 5); `EvidenceIsKept` and `DoubtIsOnRecord` with two calls of
one session (`OneSession`), where one may close or rebind the page on which the other's
doubt is being written down.

Some definitions are stated and in no run, since a theorem covers them (`TypeOK`,
`InterruptedWasCounted`, `IdleIsDurable`, `NoStrayConnection`, `DepartedHoldNothing`, `KeepsReservations`, `AlwaysReadable`,
`NoConflictWithItself`), or because a deeper one took their place (`NoOrphanLease`,
`ReceiptAdmitsTab`, `EndingsEnd`), or because the code does not keep them
(`SettledForGood`, `OneTransactionPerTab`, `CapsuleAgreesWithReceipt`).

## 5. Disagreements found

`dispatch_false_receipt`: `#recordNotDispatched` checks that the entry is still
`prepared` and then queues its transition; the transition table accepts
`dispatched -> blocked`. When the original's reservation is waiting in the
mutex behind another tab's job, a cancelled duplicate passes the check, the
original is sent, and the receipt then says `no_dispatch` with
`dispatchCount: 0` of a command that is on the transport, against
`docs/PROTOCOL.md:81-83` and `:409`. The original's result is then refused by
the table, and its caller and its tab's queue wait for ever. `dispatch_restart`
therefore has one tab.

`setup_lock_wedged`: an acquirer that replaces a dead owner's work marker publishes
its own guard first; killed between the two, it leaves a dead guard beside another dead
owner's marker, and every later acquisition fails with
`companion_lock_guard_work_binding_mismatch`. The test that says such a state recovers
(`test/setup-lifecycle-recovery.test.mjs:58,68`) starts without an earlier marker.

### Observations

Behaviour met while modelling that no run states as a property, mostly because the
documents are silent or the model's assumptions exclude it.

Broker:
- The terminal cleanup checks a tab's lease, waits, and sends the close without a
  `dispatchGuard`; a session that leases the tab meanwhile loses it
  (`docs/PROTOCOL.md:498`). A session that `#openSession` hands over while
  `#disconnectPeer` waits for the ledger is deleted with the departed peer's.
  `#detachPeer` does not reject pending requests.
- The sweep filters once and then works off its list, so it can close a page that a
  session took over meanwhile (`docs/PROTOCOL.md:385-393`). `finalize` and `cleanup`
  close from stale entries; `groupTaskTabs` rewrites stale records; a transfer beside a
  rebind or a finalize can lose an update; the collection by age drops the durable
  record while memory keeps it; a tab created after its client left keeps an executing
  record with no owner until a restart or the loss of the Extension.
- Two calls of one session can share a tab, and the first `finally` deletes the lease
  under the other.
- Settling "not sent" after a late answer already reconciled the operation as
  `known_effect` gives a capsule that says `known_no_effect` and allows a resend
  (`task-runtime.mjs:2515-2519`). A crash between settlement and record job leaves the
  record pending; `complete`'s stale record can revert a hand-over.
- `#prepareResume` may say `resume_ready` of a tab while `#taskStatus` of the same task
  and run says `continuation_allowed: false`, because of a doubt on another tab. It is
  meant (`broker.mjs:8640-8642`; `test/broker.test.mjs:1638` says that such a doubt must not
  join this target's resume), but nothing tells a caller which answer to follow;
  `mcp/server.mjs:994` tells it to resume only once the blocker has changed. `AdviceAgrees`
  states that this is their only disagreement over a capsule that is not completed.
- A step spends its proof before it dispatches, where `mcp/server.mjs:513` says "spent
  once its input is dispatched"; a drag whose destination is spent already spends its
  source and inputs nothing. `broker.mjs:4115-4116` says that a run may retry an
  unspent proof, but a failed step ends its transaction, which frees the lease, and a proof
  is for one lease. `#consumeVisualTargetProof` prunes expired entries and
  does not ask whether its own has expired, so two steps that verified together may both
  spend it then (`OneInputWhileFresh` speaks of fresh proofs). For drags, scrolls, keys and
  typing the Extension compares no `pageInstanceId`, as `broker.mjs:5415-5417` says it
  does: after the broker's last look the input may reach another document of the origin.
- A reload whose answer came late is settled and forgotten by a restart, although
  `broker.mjs:2417-2420` promises guarding until a fresh generation
  (`test/broker.test.mjs:560` covers the timely answer). A reload command lost with its
  port keeps its reservation until Chrome gives a new runtime: later reloads are
  refused as busy, ownerless cleanup is skipped. "Reflected" proves a new runtime
  identity, not new code.

Extension and host:
- Two observations that start at once on one tab both register;
  `PageObservations.start` registers after two awaits, so a session's end meanwhile is
  missed (`docs/PROTOCOL.md:190-196`). A viewport whose clearing fails keeps its record
  and debugger reference when the owner is gone.
- A host whose port closed while it joined registers later as relay, replacing the live
  one until the worker reconnects. A hello that the broker refuses for its contract
  leaves a stray host per retry. `docs/PROTOCOL.md:428-429` says that every reconnect
  creates a generation; `:31`, the code and `test/broker.test.mjs:2840` keep it for the
  same runtime.
- `Recording`: `start` checks `active` before two awaits, so two starts leave one
  recorder without a handle; a lost start answer leaves the recorder running to its
  limit; an event that wakes the worker arrives before `restore()` and its intrusion is
  not heard.

Client and setup:
- `companion_release_tab`'s `forgetLease(lease.leaseId)` forgets nothing
  (`mcp/server.mjs:369-371`). A broker that closes the socket before `peer.ready`
  hangs the reconnection (`client/connect.mjs:106`).
- The SIGTERM handler of the synchronisation releases the lock while the main work may
  still run; a lost commit keeps the lock until the process exits.

## 6. Not modelled, and what is next

Operator scripts and release tooling are sequential command-line tools. The parts each
module leaves out are named in section 2. Next: `#completeOperation` under a failing
ledger write, and a connection that closes during its handshake, which no property covers.
