------------------------- MODULE OperationDispatch -------------------------
(***************************************************************************)
(* The life of a mutating, tab-scoped operation in the resident broker     *)
(* (src/src/broker/broker.mjs): prepared in the ledger, queued behind the  *)
(* earlier work of its tab, given one of the profile's slots, reserved     *)
(* durably, checked again, sent to the extension once, and settled by a    *)
(* result, a timer, a lost connection or a restart.                        *)
(*                                                                         *)
(* The broker is one JavaScript thread, so an action here is what runs     *)
(* between two awaits.  One profile is modelled.  Restarts, connections    *)
(* and leases are bounded by constants that occur only in guards.          *)
(***************************************************************************)
EXTENDS TaskLedger, FiniteSets

CONSTANTS
    Clients,            \* client peers of the broker
    Tabs,               \* tabs of the profile that leases may name
    ClientOf,           \* [Requests -> Clients]
    TabOf,              \* [Requests -> Tabs]
    KeyOf,              \* [Requests -> Keys]: duplicates share a key
    Concurrency,        \* TARGET_OPERATION_CONCURRENCY (3 in the code)
    QueueDepth,         \* TARGET_OPERATION_QUEUE_DEPTH (32 in the code)
    MaxLease,           \* bound: leases granted
    MaxPeer,            \* bound: extension connections
    MaxRestart,         \* bound: broker restarts
    Disturbances,       \* bound: which interruptions an instance explores
    PersistMayFail      \* whether a ledger write may fail

\* A request's fingerprint digests its binding (session, lease, generation,
\* tab) and payload; a lease id is never granted twice, so it stands for them.
ASSUME DispatchAssumption ==
    /\ ClientOf \in [Requests -> Clients]
    /\ TabOf \in [Requests -> Tabs]
    /\ KeyOf \in [Requests -> Keys]
    /\ Concurrency \in Nat \ {0}
    /\ QueueDepth \in Nat
    /\ MaxLease \in Nat
    /\ MaxPeer \in Nat
    /\ MaxRestart \in Nat
    /\ Disturbances \subseteq {"cancel", "disconnect", "lease", "timeout", "extension"}
    /\ PersistMayFail \in BOOLEAN
    /\ Fingerprints = 0 .. MaxLease
    /\ IsFiniteSet(Requests)
    /\ "nobody" \notin Clients

VARIABLES
    connected,  \* profile.connected
    peer,       \* profile.peerId, counted
    gen,        \* profile.generation, counted
    hello,      \* a registration past its first await: "none", "transport", "generation"
    alive,      \* client peers present in this.peers
    lease,      \* tabLeaseIndex: the lease on each tab
    leases,     \* leases granted so far
    pc,         \* where each request's handler stands
    reqLease,   \* the lease a request named when it was accepted
    reqPeer,    \* the relay of the profile object it captured
    reqGen,     \* and that object's generation
    aborted,    \* its AbortController fired
    admitted,   \* its queued work has begun
    ticket,     \* the position in which it joined its tab's queue
    answer,     \* what the client was told
    op,         \* pendingOperations / timedOutOperations
    tabQueue,   \* operationQueues: per tab, in order
    lane,       \* targetLanes: waiting work and occupied slots
    led,        \* the ledger in memory
    disk,       \* the ledger entries a restart would read
    cmd,        \* the command on its way to and from the extension
    effect,     \* whether the browser was changed
    restarts

clientVars  == <<alive, lease, leases>>
profileVars == <<connected, peer, gen, hello>>
requestVars == <<pc, reqLease, reqPeer, reqGen, aborted, admitted, ticket, answer>>
queueVars   == <<tabQueue, lane>>
ledgerVars  == <<led, disk>>
browserVars == <<cmd, effect>>
vars == <<clientVars, profileVars, requestVars, op, queueVars,
          ledgerVars, browserVars, restarts>>

-----------------------------------------------------------------------------

NoLease == [owner |-> "nobody", id |-> 0]
LeaseRecords == [owner : Clients, id : 1 .. MaxLease] \union {NoLease}

PcStates == {"idle", "preparing", "queued", "reserving", "abandoning", "sent",
             "answered", "lost"}

Answers == {"none", "ok", "known_no_effect", "unknown_effect", "no_dispatch",
            "duplicate", "conflict", "error"}

OpStates == {"none", "pending", "tombstone", "settling", "closed"}

CmdStates == {"none", "sent", "ok", "no_effect", "error", "delivered"}

Results == {"ok", "no_effect", "error"}

Lane == [waiting : Seq(Requests), active : SUBSET Requests]

TypeOK ==
    /\ connected \in BOOLEAN
    /\ peer \in 0 .. MaxPeer
    /\ gen \in 0 .. MaxPeer
    /\ hello \in {"none", "transport", "generation"}
    /\ alive \in [Clients -> BOOLEAN]
    /\ lease \in [Tabs -> LeaseRecords]
    /\ leases \in 0 .. MaxLease
    /\ pc \in [Requests -> PcStates]
    /\ reqLease \in [Requests -> 0 .. MaxLease]
    /\ reqPeer \in [Requests -> 0 .. MaxPeer]
    /\ reqGen \in [Requests -> 0 .. MaxPeer]
    /\ aborted \in [Requests -> BOOLEAN]
    /\ admitted \in [Requests -> BOOLEAN]
    /\ ticket \in [Requests -> Nat]
    /\ answer \in [Requests -> Answers]
    /\ op \in [Requests -> OpStates]
    /\ tabQueue \in [Tabs -> Seq(Requests)]
    /\ lane \in Lane
    /\ led \in Ledger
    /\ disk \in [Keys -> Entry]
    /\ cmd \in [Requests -> CmdStates]
    /\ effect \in [Requests -> BOOLEAN]
    /\ restarts \in 0 .. MaxRestart

Init ==
    /\ connected = FALSE
    /\ peer = 0
    /\ gen = 0
    /\ hello = "none"
    /\ alive = [c \in Clients |-> TRUE]
    /\ lease = [t \in Tabs |-> NoLease]
    /\ leases = 0
    /\ pc = [r \in Requests |-> "idle"]
    /\ reqLease = [r \in Requests |-> 0]
    /\ reqPeer = [r \in Requests |-> 0]
    /\ reqGen = [r \in Requests |-> 0]
    /\ aborted = [r \in Requests |-> FALSE]
    /\ admitted = [r \in Requests |-> FALSE]
    /\ ticket = [r \in Requests |-> 0]
    /\ answer = [r \in Requests |-> "none"]
    /\ op = [r \in Requests |-> "none"]
    /\ tabQueue = [t \in Tabs |-> <<>>]
    /\ lane = [waiting |-> <<>>, active |-> {}]
    /\ disk = [k \in Keys |-> Absent(0)]
    /\ led = Opened(disk)
    /\ cmd = [r \in Requests |-> "none"]
    /\ effect = [r \in Requests |-> FALSE]
    /\ restarts = 0

-----------------------------------------------------------------------------
(* Helpers                                                                 *)

JobFor(kind, r) == [kind |-> kind, key |-> KeyOf[r], req |-> r, fp |-> reqLease[r]]

\* Every order in which jobs for the requests of S can be submitted.
Orders(S) == {f \in [1 .. Cardinality(S) -> S] : \A i, j \in DOMAIN f : f[i] = f[j] => i = j}

JobsFor(kind, s) == [i \in DOMAIN s |-> JobFor(kind, s[i])]

\* assertDispatch with dispatchGuard and validateTarget: the request is active,
\* the profile is the one captured, and the exact-tab lease is still held.
MayDispatch(r) ==
    /\ ~aborted[r]
    /\ alive[ClientOf[r]]
    /\ connected
    /\ peer = reqPeer[r]
    /\ lease[TabOf[r]] = [owner |-> ClientOf[r], id |-> reqLease[r]]

\* Mutant: what was checked before the reservation still holds after it.
TrustsFirstCheck(r) == TRUE

\* Mutant: after the reservation only the session and its lease are checked.
ForgetsRelay(r) ==
    /\ ~aborted[r]
    /\ alive[ClientOf[r]]
    /\ lease[TabOf[r]] = [owner |-> ClientOf[r], id |-> reqLease[r]]

\* The second assertDispatch, made when the reservation is durable.
StillMayDispatch(r) == MayDispatch(r)

\* The check #recordNotDispatched makes before it asks for a transition.
NeedsAbandon(l, r, reserved) ==
    LET e == l.mem[KeyOf[r]]
    IN  e.state = "prepared" \/ (reserved /\ e.state = "dispatched" /\ e.op = r)

\* Mutant: one slot too many.
DrainedOneTooMany(l) ==
    LET free == Concurrency + 1 - Cardinality(l.active)
        n == IF free > Len(l.waiting) THEN Len(l.waiting) ELSE free
    IN  [waiting |-> SubSeq(l.waiting, n + 1, Len(l.waiting)),
         active |-> l.active \union {l.waiting[i] : i \in 1 .. n}]

\* #drainTargetLane: waiting work takes the free slots in order.
Drained(l) ==
    LET free == Concurrency - Cardinality(l.active)
        n == IF free > Len(l.waiting) THEN Len(l.waiting) ELSE free
    IN  [waiting |-> SubSeq(l.waiting, n + 1, Len(l.waiting)),
         active |-> l.active \union {l.waiting[i] : i \in 1 .. n}]

\* Mutant: the first work of a tab to settle deletes the tab's queue.
ReleaseWholeQueue(S) ==
    /\ tabQueue' = [t \in Tabs |->
                      IF tabQueue[t] # <<>> /\ Head(tabQueue[t]) \in S
                      THEN <<>> ELSE tabQueue[t]]
    /\ lane' = IF S \intersect lane.active = {} THEN lane
               ELSE Drained([lane EXCEPT !.active = @ \ S])

\* The works of S settle: their slots are freed and their tabs move on.
Release(S) ==
    /\ tabQueue' = [t \in Tabs |->
                      IF tabQueue[t] # <<>> /\ Head(tabQueue[t]) \in S
                      THEN Tail(tabQueue[t]) ELSE tabQueue[t]]
    /\ lane' = IF S \intersect lane.active = {} THEN lane
               ELSE Drained([lane EXCEPT !.active = @ \ S])

Says(r, what) ==
    /\ pc' = [pc EXCEPT ![r] = "answered"]
    /\ answer' = [answer EXCEPT ![r] = what]

\* An exit that goes through #recordNotDispatched on ledger l: the caller is
\* answered when the abandoning job is done, or now if no job is needed.
Abandon(r, l, reserved) ==
    IF NeedsAbandon(l, r, reserved)
    THEN /\ led' = Submit(l, JobFor("abandon", r))
         /\ pc' = [pc EXCEPT ![r] = "abandoning"]
         /\ UNCHANGED answer
    ELSE /\ led' = l
         /\ Says(r, "error")

-----------------------------------------------------------------------------
(* Clients: leases, cancellation, disconnection                            *)

\* #acquireLease on a free tab, for a session of the connected profile.
AcquireLease(c, t) ==
    /\ alive[c]
    /\ connected
    /\ lease[t] = NoLease
    /\ leases < MaxLease
    /\ leases' = leases + 1
    /\ lease' = [lease EXCEPT ![t] = [owner |-> c, id |-> leases + 1]]
    /\ UNCHANGED <<alive, profileVars, requestVars, op, queueVars, ledgerVars,
                   browserVars, restarts>>

\* #releaseLease, session.close, session expiry, or the tab being removed.
LoseLease(t) ==
    /\ "lease" \in Disturbances
    /\ lease[t] # NoLease
    /\ lease' = [lease EXCEPT ![t] = NoLease]
    /\ UNCHANGED <<alive, leases, profileVars, requestVars, op, queueVars,
                   ledgerVars, browserVars, restarts>>

\* #executeOperation up to its call of ledger.prepare.
Submitted(r) ==
    LET t == TabOf[r]
    IN  /\ pc[r] = "idle"
        /\ alive[ClientOf[r]]
        /\ connected
        /\ lease[t].owner = ClientOf[r]
        /\ pc' = [pc EXCEPT ![r] = "preparing"]
        /\ reqLease' = [reqLease EXCEPT ![r] = lease[t].id]
        /\ reqPeer' = [reqPeer EXCEPT ![r] = peer]
        /\ reqGen' = [reqGen EXCEPT ![r] = gen]
        /\ led' = Submit(led, [kind |-> "prepare", key |-> KeyOf[r], req |-> r,
                               fp |-> lease[t].id])
        /\ UNCHANGED <<clientVars, profileVars, aborted, admitted, ticket, answer, op,
                       queueVars, disk, browserVars, restarts>>

\* request.cancel or the request's deadline.  Work still waiting is answered
\* at once, its marker staying in the queue; admitted work only learns of it
\* at its next assertDispatch.
Cancel(r) ==
    /\ "cancel" \in Disturbances
    /\ pc[r] \in {"preparing", "queued", "reserving", "sent"}
    /\ ~aborted[r]
    /\ aborted' = [aborted EXCEPT ![r] = TRUE]
    /\ IF pc[r] = "queued"
       THEN Abandon(r, led, FALSE)
       ELSE UNCHANGED <<led, pc, answer>>
    /\ UNCHANGED <<clientVars, profileVars, reqLease, reqPeer, reqGen, admitted, ticket,
                   op, queueVars, disk, browserVars, restarts>>

\* Operations that lose their owner or their profile: the caller is told that
\* the effect is unknown, the ledger transition is asked for, the queue moves.
Interrupt(S, jobs, opState) ==
    /\ op' = [r \in Requests |-> IF r \in S THEN opState ELSE op[r]]
    /\ led' = SubmitAll(led, jobs)
    /\ Release(S)

\* #disconnectPeer for a client: its requests are aborted, its pending
\* operations become tombstones, its queued requests leave through
\* #recordNotDispatched, and its sessions and their leases go.
DisconnectClient(c) ==
    LET mine    == {r \in Requests : ClientOf[r] = c}
        pending == {r \in mine : op[r] = "pending"}
        queued  == {r \in mine : pc[r] = "queued"}
        undone  == {r \in queued : NeedsAbandon(led, r, FALSE)}
    IN  /\ "disconnect" \in Disturbances
        /\ alive[c]
        /\ alive' = [alive EXCEPT ![c] = FALSE]
        /\ lease' = [t \in Tabs |-> IF lease[t].owner = c THEN NoLease ELSE lease[t]]
        /\ aborted' = [r \in Requests |->
                         aborted[r] \/ (r \in mine /\ pc[r] \notin {"idle", "answered", "lost"})]
        /\ pc' = [r \in Requests |-> IF r \in undone THEN "abandoning"
                                     ELSE IF r \in pending \union queued THEN "answered"
                                     ELSE pc[r]]
        /\ answer' = [r \in Requests |-> IF r \in pending THEN "unknown_effect"
                                         ELSE IF r \in queued \ undone THEN "error"
                                         ELSE answer[r]]
        /\ \E s \in Orders(pending), u \in Orders(undone) :
              Interrupt(pending, JobsFor("expire", s) \o JobsFor("abandon", u), "tombstone")
        /\ UNCHANGED <<leases, profileVars, reqLease, reqPeer, reqGen, admitted, ticket,
                       disk, browserVars, restarts>>

-----------------------------------------------------------------------------
(* The ledger's running job settles, and its awaiter continues             *)

Outcomes == {"kept", "thrown", "io_error"}

\* Mutant: a reservation changes the entry in memory and is not marked dirty.
FlushedUnlessReserved ==
    LET j == Head(led.jobs)
    IN  IF j.kind = "reserve" THEN disk ELSE [disk EXCEPT ![j.key] = led.mem[j.key]]

\* What the disk holds once the running job is persisted.
Flushed == LET j == Head(led.jobs) IN [disk EXCEPT ![j.key] = led.mem[j.key]]

\* The running job is one of these kinds, for request r, and ends this way;
\* a failed write may or may not have reached the disk.
JobEnds(kinds, r, out) ==
    LET j == Head(led.jobs)
    IN  /\ led.jobs # <<>>
        /\ j.kind \in kinds
        /\ j.req = r
        /\ \/ out = "kept" /\ led.ok /\ disk' = Flushed
           \/ out = "thrown" /\ ~led.ok /\ disk' = disk
           \/ out = "io_error" /\ led.ok /\ PersistMayFail /\ disk' \in {disk, Flushed}

Popped(out) == Pop(led, out = "io_error")

\* prepare returns: the request joins its tab's queue, unless the key is
\* already used.  A request aborted meanwhile leaves its marker and goes.
PrepareDone(r, out) ==
    LET t == TabOf[r]
    IN  /\ pc[r] = "preparing"
        /\ JobEnds({"prepare"}, r, out)
        /\ IF out = "kept" /\ led.mem[KeyOf[r]].state = "prepared"
           THEN /\ tabQueue' = [tabQueue EXCEPT ![t] = Append(@, r)]
                /\ ticket' = [ticket EXCEPT ![r] =
                                Cardinality({s \in Requests : ticket[s] # 0}) + 1]
                /\ IF aborted[r]
                   THEN Abandon(r, Popped(out), FALSE)
                   ELSE /\ led' = Popped(out)
                        /\ pc' = [pc EXCEPT ![r] = "queued"]
                        /\ UNCHANGED answer
           ELSE /\ led' = Popped(out)
                /\ Says(r, IF out = "kept" THEN "duplicate"
                           ELSE IF out = "thrown" /\ ~led.poisoned THEN "conflict"
                           ELSE "error")
                /\ UNCHANGED <<tabQueue, ticket>>
        /\ UNCHANGED <<clientVars, profileVars, reqLease, reqPeer, reqGen, aborted,
                       admitted, op, lane, browserVars, restarts>>

\* The reservation is durable: check once more and send, or give it up.
ReserveDone(r, out) ==
    /\ pc[r] = "reserving"
    /\ JobEnds({"reserve"}, r, out)
    /\ IF out = "kept" /\ StillMayDispatch(r)
       THEN /\ led' = Popped(out)
            /\ pc' = [pc EXCEPT ![r] = "sent"]
            /\ op' = [op EXCEPT ![r] = "pending"]
            /\ cmd' = [cmd EXCEPT ![r] = "sent"]
            /\ UNCHANGED <<answer, queueVars>>
       ELSE /\ Abandon(r, Popped(out), out = "kept")
            /\ IF out = "kept" /\ NeedsAbandon(Popped(out), r, TRUE)
               THEN UNCHANGED queueVars
               ELSE Release({r})
            /\ UNCHANGED <<op, cmd>>
    /\ UNCHANGED <<clientVars, profileVars, reqLease, reqPeer, reqGen, aborted, admitted,
                   ticket, effect, restarts>>

\* #recordNotDispatched returns; work that held a slot gives it up.
AbandonDone(r, out) ==
    /\ pc[r] = "abandoning"
    /\ JobEnds({"abandon"}, r, out)
    /\ led' = Popped(out)
    /\ Says(r, IF out = "kept" THEN "no_dispatch" ELSE "error")
    /\ IF r \in lane.active /\ admitted[r] THEN Release({r}) ELSE UNCHANGED queueVars
    /\ UNCHANGED <<clientVars, profileVars, reqLease, reqPeer, reqGen, aborted, admitted,
                   ticket, op, browserVars, restarts>>

\* A transition nobody awaits: a timer's, or one whose caller was answered.
ExpireDone(r, out) ==
    /\ JobEnds({"expire"}, r, out)
    /\ led' = Popped(out)
    /\ UNCHANGED <<clientVars, profileVars, requestVars, op, queueVars, browserVars,
                   restarts>>

\* Mutant: the ledger's word instead of the client's.
AnswerForLedger(kind) == CASE kind = "apply"  -> "applied"
                           [] kind = "refuse" -> "known_no_effect"
                           [] OTHER           -> "unknown_effect"

\* Mutant: every error of the extension is reported as harmless.
AnswerForHarmless(kind) == IF kind = "apply" THEN "ok" ELSE "known_no_effect"

\* What the caller is told: observedEffectState, or the result itself.
AnswerFor(kind) == CASE kind = "apply"  -> "ok"
                     [] kind = "refuse" -> "known_no_effect"
                     [] OTHER           -> "unknown_effect"

\* The rest of #completeOperation.  If the ledger threw, the operation has left
\* the maps and nobody resolves or rejects its promise.
SettleDone(r, out) ==
    LET late == {"reconcile", "disprove"}
        kinds == {"apply", "refuse", "fail"}
        j == Head(led.jobs)
    IN  /\ op[r] = "settling"
        /\ JobEnds(kinds \union late, r, out)
        /\ led' = Popped(out)
        /\ op' = [op EXCEPT ![r] = "closed"]
        /\ IF out = "kept" /\ pc[r] = "sent"
           THEN Says(r, AnswerFor(j.kind)) /\ Release({r})
           ELSE UNCHANGED <<pc, answer, queueVars>>
        /\ UNCHANGED <<clientVars, profileVars, reqLease, reqPeer, reqGen, aborted,
                       admitted, ticket, browserVars, restarts>>

-----------------------------------------------------------------------------
(* Queues: #enqueue, #withTargetSlot, #drainTargetLane                     *)

InLane(r) == r \in lane.active \/ \E i \in DOMAIN lane.waiting : lane.waiting[i] = r

\* Mutant: queued work does not wait for its predecessor.
TurnOfAny(r) == \E i \in DOMAIN tabQueue[TabOf[r]] : tabQueue[TabOf[r]][i] = r

\* The promise chain of the tab has reached r.
Turn(r) == tabQueue[TabOf[r]] # <<>> /\ Head(tabQueue[TabOf[r]]) = r

\* The predecessor has settled: ask the lane for a slot, unless aborted.
Schedule(r) ==
    LET t == TabOf[r]
    IN  /\ Turn(r)
        /\ ~InLane(r)
        /\ IF aborted[r]
           THEN /\ tabQueue' = [tabQueue EXCEPT ![t] = Tail(@)]
                /\ UNCHANGED <<lane, led, pc, answer>>
           ELSE IF Len(lane.waiting) >= QueueDepth
           THEN /\ tabQueue' = [tabQueue EXCEPT ![t] = Tail(@)]
                /\ Abandon(r, led, FALSE)
                /\ UNCHANGED lane
           ELSE /\ lane' = Drained([lane EXCEPT !.waiting = Append(@, r)])
                /\ UNCHANGED <<tabQueue, led, pc, answer>>
        /\ UNCHANGED <<clientVars, profileVars, reqLease, reqPeer, reqGen, aborted,
                       admitted, ticket, op, disk, browserVars, restarts>>

\* A slot is granted: guardedWork and #sendOperation up to its first await.
Begin(r) ==
    /\ r \in lane.active
    /\ ~admitted[r]
    /\ admitted' = [admitted EXCEPT ![r] = ~aborted[r]]
    /\ IF aborted[r]
       THEN Release({r}) /\ UNCHANGED <<led, pc, answer>>
       ELSE IF ~MayDispatch(r)
       THEN /\ Abandon(r, led, FALSE)
            /\ IF NeedsAbandon(led, r, FALSE) THEN UNCHANGED queueVars ELSE Release({r})
       ELSE IF led.mem[KeyOf[r]].state # "prepared"
       THEN /\ Says(r, "duplicate")
            /\ Release({r})
            /\ UNCHANGED led
       ELSE /\ led' = Submit(led, JobFor("reserve", r))
            /\ pc' = [pc EXCEPT ![r] = "reserving"]
            /\ UNCHANGED <<answer, queueVars>>
    /\ UNCHANGED <<clientVars, profileVars, reqLease, reqPeer, reqGen, aborted, ticket, op,
                   disk, browserVars, restarts>>

-----------------------------------------------------------------------------
(* Timers                                                                  *)

\* The operation's timer: the caller is told the effect is unknown, a
\* tombstone stays for a late result, and the tab's queue moves on.
Timeout(r) ==
    /\ "timeout" \in Disturbances
    /\ op[r] = "pending"
    /\ Says(r, "unknown_effect")
    /\ Interrupt({r}, <<JobFor("expire", r)>>, "tombstone")
    /\ UNCHANGED <<clientVars, profileVars, reqLease, reqPeer, reqGen, aborted, admitted,
                   ticket, disk, browserVars, restarts>>

\* #expireSessions drops a tombstone past LATE_RESULT_TOMBSTONE_TTL_MS.
ForgetTombstone(r) ==
    /\ op[r] = "tombstone"
    /\ op' = [op EXCEPT ![r] = "closed"]
    /\ UNCHANGED <<clientVars, profileVars, requestVars, queueVars, ledgerVars,
                   browserVars, restarts>>

-----------------------------------------------------------------------------
(* The extension                                                           *)

\* The worker runs the command and posts a result.  A no-effect error is the
\* authenticated kind and true; another error says nothing of the effect.
Execute(r) ==
    /\ cmd[r] = "sent"
    /\ \E result \in Results, changed \in BOOLEAN :
          /\ result = "ok" => changed
          /\ result = "no_effect" => ~changed
          /\ cmd' = [cmd EXCEPT ![r] = result]
          /\ effect' = [effect EXCEPT ![r] = changed]
    /\ UNCHANGED <<clientVars, profileVars, requestVars, op, queueVars, ledgerVars,
                   restarts>>

\* Mutant: any error of the extension proves that nothing happened.
CompletionTrustsErrors(r) ==
    LET late == op[r] = "tombstone"
    IN  JobFor(IF cmd[r] = "ok" THEN IF late THEN "reconcile" ELSE "apply"
               ELSE IF late THEN "disprove" ELSE "refuse", r)

\* The job #completeOperation asks for, by result and by whether it is late.
CompletionJob(r) ==
    LET late == op[r] = "tombstone"
    IN  JobFor(CASE cmd[r] = "ok"        -> IF late THEN "reconcile" ELSE "apply"
                 [] cmd[r] = "no_effect" -> IF late THEN "disprove" ELSE "refuse"
                 [] OTHER                -> "fail", r)

\* #completeOperation up to its ledger call.  The result settles nothing unless
\* the operation is known, the generation is the one that was asked, and the
\* ledger entry still carries this operation's id.
Deliver(r) ==
    /\ cmd[r] \in Results
    /\ connected
    /\ cmd' = [cmd EXCEPT ![r] = "delivered"]
    /\ IF /\ op[r] \in {"pending", "tombstone"}
          /\ reqGen[r] = gen
          /\ led.mem[KeyOf[r]].op = r
       THEN /\ op' = [op EXCEPT ![r] = "settling"]
            /\ led' = Submit(led, CompletionJob(r))
       ELSE UNCHANGED <<op, led>>
    /\ UNCHANGED <<clientVars, profileVars, requestVars, queueVars, disk, effect, restarts>>

\* #invalidateProfile up to its first await: sessions and leases of the
\* profile go, pending operations are rejected, tombstones are forgotten.
Invalidate ==
    LET pending == {r \in Requests : op[r] = "pending"}
        gone    == {r \in Requests : op[r] \in {"pending", "tombstone"}}
    IN  /\ lease' = [t \in Tabs |-> NoLease]
        /\ pc' = [r \in Requests |-> IF r \in pending THEN "answered" ELSE pc[r]]
        /\ answer' = [r \in Requests |-> IF r \in pending THEN "unknown_effect" ELSE answer[r]]
        /\ op' = [r \in Requests |-> IF r \in gone THEN "closed" ELSE op[r]]
        /\ \E s \in Orders(pending) : led' = SubmitAll(led, JobsFor("expire", s))
        /\ Release(pending)

\* #disconnectPeer for the relay the profile points at.
LoseExtension ==
    /\ "extension" \in Disturbances
    /\ connected
    /\ connected' = FALSE
    /\ Invalidate
    /\ UNCHANGED <<peer, gen, hello, alive, leases, reqLease, reqPeer, reqGen, aborted,
                   admitted, ticket, disk, browserVars, restarts>>

\* #registerProfileChecked up to its first await.  Until the registration
\* resumes, the profile still points at the previous relay.
Hello(kind) ==
    /\ hello = "none"
    /\ peer < MaxPeer
    /\ hello' = kind
    /\ Invalidate
    /\ UNCHANGED <<connected, peer, gen, alive, leases, reqLease, reqPeer, reqGen, aborted,
                   admitted, ticket, disk, browserVars, restarts>>

\* The registration resumes: the profile points at the new relay.  A new
\* generation makes the leases granted meanwhile stale (#requireOwnedSession).
Registered ==
    /\ hello # "none"
    /\ hello' = "none"
    /\ connected' = TRUE
    /\ peer' = peer + 1
    /\ gen' = IF hello = "generation" THEN gen + 1 ELSE gen
    /\ lease' = IF hello = "generation" THEN [t \in Tabs |-> NoLease] ELSE lease
    /\ UNCHANGED <<alive, leases, requestVars, op, queueVars, ledgerVars, browserVars,
                   restarts>>

-----------------------------------------------------------------------------
\* The broker process dies and a new one loads the ledger; the running job may
\* have reached the disk.  Everything else it held is gone, commands already
\* sent are not, and clients come back as new peers.
Restart ==
    /\ restarts < MaxRestart
    /\ restarts' = restarts + 1
    /\ \E kept \in {disk} \union (IF led.jobs # <<>> /\ led.ok THEN {Flushed} ELSE {}) :
          /\ led' = Opened(kept)
          /\ disk' = Opened(kept).mem
    /\ connected' = FALSE
    /\ hello' = "none"
    /\ alive' = [c \in Clients |-> TRUE]
    /\ lease' = [t \in Tabs |-> NoLease]
    /\ pc' = [r \in Requests |-> IF pc[r] \in {"idle", "answered"} THEN pc[r] ELSE "lost"]
    /\ op' = [r \in Requests |-> IF op[r] = "none" THEN "none" ELSE "closed"]
    /\ tabQueue' = [t \in Tabs |-> <<>>]
    /\ lane' = [waiting |-> <<>>, active |-> {}]
    /\ UNCHANGED <<peer, gen, leases, reqLease, reqPeer, reqGen, aborted, admitted, ticket,
                   answer, browserVars>>

-----------------------------------------------------------------------------
LedgerStep(r) ==
    \E out \in Outcomes :
        PrepareDone(r, out) \/ ReserveDone(r, out) \/ AbandonDone(r, out)
        \/ ExpireDone(r, out) \/ SettleDone(r, out)

Next ==
    \/ \E c \in Clients : DisconnectClient(c) \/ \E t \in Tabs : AcquireLease(c, t)
    \/ \E t \in Tabs : LoseLease(t)
    \/ \E r \in Requests :
          \/ Submitted(r) \/ Cancel(r) \/ LedgerStep(r) \/ Schedule(r) \/ Begin(r)
          \/ Timeout(r) \/ ForgetTombstone(r) \/ Execute(r) \/ Deliver(r)
    \/ LoseExtension
    \/ \E kind \in {"transport", "generation"} : Hello(kind)
    \/ Registered
    \/ Restart

Spec == Init /\ [][Next]_vars

\* The event loop runs what is ready, ledger writes end, and an operation's
\* timer fires.  Nothing is assumed of clients or of the extension.
Fairness ==
    \A r \in Requests : /\ WF_vars(LedgerStep(r))
                        /\ WF_vars(Schedule(r))
                        /\ WF_vars(Begin(r))
                        /\ WF_vars(Timeout(r))

FairSpec == Spec /\ Fairness

-----------------------------------------------------------------------------
(* Properties                                                              *)

WasSent(r) == cmd[r] # "none"

\* Duplicates, cancellations, timeouts, reconnections and restarts together
\* never put two commands with one idempotency key on the transport
\* (#sendOperation's check that the entry is still prepared, under the FIFO).
SentOncePerKey ==
    \A r, s \in Requests : r # s /\ KeyOf[r] = KeyOf[s] => ~(WasSent(r) /\ WasSent(s))

\* Once a command is on the transport, a restart at any moment finds on disk
\* that it may have been: never a key that may still be dispatched.
DurableBeforeSend ==
    \A r \in Requests : WasSent(r) => disk[KeyOf[r]].state \notin {"absent", "prepared"}

\* A ledger entry that says no_dispatch in its final state is true: no command
\* with that key ever reached the transport (PROTOCOL.md, "recorded as
\* no_dispatch").
NoDispatchIsTrue ==
    \A k \in Keys, r \in Requests :
        /\ led.mem[k].state = "blocked"
        /\ led.mem[k].effect = "no_dispatch"
        /\ KeyOf[r] = k
        => ~WasSent(r)

\* What the ledger claims to know about an effect is what happened in the
\* browser: known_effect needs one, known_no_effect excludes one.
KnownEffectsAreTrue ==
    \A k \in Keys :
        LET changed == \E r \in Requests : KeyOf[r] = k /\ effect[r]
        IN  /\ led.mem[k].effect = "known_effect" => changed
            /\ led.mem[k].effect = "known_no_effect" => ~changed

\* What a client was told agrees with the browser and with the disk: success
\* is durable and happened, a no-effect or refused request changed nothing.
AnswersAreTrue ==
    \A r \in Requests :
        /\ answer[r] = "ok" => effect[r] /\ disk[KeyOf[r]].state = "applied"
        /\ answer[r] = "known_no_effect" => ~effect[r]
        /\ answer[r] \in {"no_dispatch", "duplicate", "conflict", "error"} => ~WasSent(r)

\* A request that lost its lease, its client, its relay or its caller before
\* the command was sent is not sent later, however far its reservation got.
NoLateSend ==
    [][\A r \in Requests :
          pc[r] # "idle" /\ ~WasSent(r) /\ ~MayDispatch(r) => ~WasSent(r)']_vars

\* A settled entry is settled for good, on disk and through restarts.
SettledForGood ==
    [][\A k \in Keys : disk[k].state \in {"applied", "reconciled", "blocked"}
                         => disk'[k] = disk[k]]_vars

\* On one tab work runs one at a time and in the order it was queued: while a
\* command is reserved or pending, nothing queued earlier is still to run.
TabOrder ==
    \A r, s \in Requests :
        /\ TabOf[r] = TabOf[s]
        /\ 0 < ticket[r] /\ ticket[r] < ticket[s]
        /\ pc[s] \in {"reserving", "sent"}
        => pc[r] \notin {"queued", "reserving", "sent"}

\* A slot of the profile's lane is held only by the first work of a tab that
\* is not yet over, so slots never leak, and never more than Concurrency.
SlotsDoNotLeak ==
    /\ Cardinality(lane.active) <= Concurrency
    /\ \A r \in lane.active :
          /\ tabQueue[TabOf[r]] # <<>>
          /\ Head(tabQueue[TabOf[r]]) = r
          /\ admitted[r] => pc[r] \in {"reserving", "abandoning", "sent"}
    /\ \A r \in Requests : op[r] = "pending" => r \in lane.active

\* A restart meets no interrupted entry whose dispatch was not counted, so
\* classifyInterruptedEffect never offers a second dispatch of one.
InterruptedWasCounted ==
    \A k \in Keys :
        disk[k].state \in {"dispatched", "unknown_effect"} => disk[k].dispatchCount = 1

\* Every accepted request is answered unless the broker dies first: no queue,
\* slot or ledger wait holds it for ever.
EveryRequestEnds ==
    \A r \in Requests : pc[r] # "idle" ~> pc[r] \in {"answered", "lost"}

-----------------------------------------------------------------------------
(* The durable ledger implements the promise made for each key.            *)

VerdictOf(e) ==
    CASE e.state = "blocked" /\ e.effect = "no_dispatch"      -> "cancelled"
      [] e.state = "unknown_effect"                           -> "maybe"
      [] e.effect = "known_effect"                            -> "effect"
      [] e.effect = "known_no_effect"                         -> "no_effect"
      [] OTHER                                                -> "open"

Promise == INSTANCE CommandOutcome WITH
    outcome <- [k \in Keys |-> VerdictOf(disk[k])],
    sent    <- [k \in Keys |-> \E r \in Requests : KeyOf[r] = k /\ WasSent(r)]

\* Every step of the broker keeps the promise of CommandOutcome.
KeepsPromise == Promise!Spec

=============================================================================
