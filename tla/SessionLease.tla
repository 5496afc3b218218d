---------------------------- MODULE SessionLease ----------------------------
(***************************************************************************)
(* Logical sessions of client connections and their exact-tab leases, for  *)
(* one profile, with everything that can end a session: its owner, the     *)
(* loss of its owner's connection, the idle timer, and a change of the     *)
(* profile's Extension (src/src/broker/broker.mjs).                        *)
(*                                                                         *)
(* The broker is one JavaScript thread: an action is what runs between two *)
(* awaits, and an await on the ledger or on the Extension is a point where *)
(* every other action may run.                                             *)
(***************************************************************************)
EXTENDS SessionRegistry

CONSTANTS
    Relays,     \* connections of the Extension; each says hello at most once
    NoRelay,
    NoTab,
    Ops,        \* bound: operations under way at one time
    Events,     \* bound: which disturbances an instance explores
    WritesFail,           \* bound: where a ledger write may fail
    ReloadMayBeInFlight   \* whether a loss may be a requested reload

ASSUME SessionAssumption ==
    /\ NoRelay \notin Relays
    /\ NoTab \notin Tabs
    /\ Events \subseteq {"idle", "disconnect", "relay", "removed", "transfer"}
    /\ WritesFail \subseteq {"leaving", "hello"}
    /\ ReloadMayBeInFlight \in BOOLEAN

VARIABLES
    reg,       \* sessions, leases, tabLeaseIndex, peer.sessionIds
    minted,    \* session ids given so far
    granted,   \* lease ids given so far
    client,    \* "up" while in this.peers; "leaving" inside #disconnectPeer
    relay,     \* Extension connections
    claims,    \* relays whose profileInstanceIds name the profile
    profile,   \* the profile's record
    gens,      \* generations given so far
    hello,     \* a registration past its first await, per relay
    op,        \* operations: queued, or in pendingOperations
    cleanup,   \* #finalizeSessionTerminalTabs, for a close or an expiry
    tabTask    \* taskTabs: the task that owns each recorded tab

peerVars    == <<client, relay, claims, profile, gens, hello>>
bookVars    == <<reg, minted, granted>>
workVars    == <<op, cleanup, tabTask>>
vars == <<bookVars, peerVars, workVars>>

-----------------------------------------------------------------------------

Profile == [connected : BOOLEAN, peer : Relays \union {NoRelay}, gen : 0 .. MaxGen]

Hello == [phase : {"none", "invalidating", "recording"}, gen : 0 .. MaxGen]

NoHello == [phase |-> "none", gen |-> 0]

Op == [phase : {"queued", "sent"}, client : Clients,
       session : SessionIds, task : Tasks \union {NoTask},
       tab : Tabs \union {NoTab}, lease : LeaseIds \union {NoLeaseId},
       gen : Gens, relay : Relays]

\* A slot is used again once its operation is settled.
FreeOp == [phase |-> "free"]

Kinds == {"close", "expiry"}

Phases == {"none", "listing", "preparing", "closing", "detaching"}

Cleanup == [phase : Phases, client : Clients, todo : SUBSET Tabs,
            tab : Tabs \union {NoTab}, gen : Gens, relay : Relays]

NoCleanup == [phase |-> "none"]

TypeOK ==
    /\ reg \in Registry
    /\ minted \subseteq SessionIds
    /\ granted \subseteq LeaseIds
    /\ client \in [Clients -> {"up", "leaving", "gone"}]
    /\ relay \in [Relays -> {"new", "up", "gone"}]
    /\ claims \subseteq Relays
    /\ profile \in Profile
    /\ gens \in 0 .. MaxGen
    /\ hello \in [Relays -> Hello]
    /\ op \in [Ops -> Op \union {FreeOp}]
    /\ cleanup \in [SessionIds \X Kinds -> Cleanup \union {NoCleanup}]
    /\ tabTask \in [Tabs -> Tasks \union {NoTask}]

\* A broker that has just begun to listen, with clients connected to it.
Init ==
    /\ reg = EmptyRegistry
    /\ minted = {}
    /\ granted = {}
    /\ client = [c \in Clients |-> "up"]
    /\ relay = [r \in Relays |-> "new"]
    /\ claims = {}
    /\ profile = [connected |-> FALSE, peer |-> NoRelay, gen |-> 0]
    /\ gens = 0
    /\ hello = [r \in Relays |-> NoHello]
    /\ op = [o \in Ops |-> FreeOp]
    /\ cleanup = [sk \in SessionIds \X Kinds |-> NoCleanup]
    /\ tabTask = [t \in Tabs |-> NoTask]

-----------------------------------------------------------------------------
(* What the handlers look up.                                              *)

Peers == {c \in Clients : client[c] = "up"}

\* #requireOwnedSession: first owned, then of the live generation; a session
\* that is owned but stale is deleted on the spot.
Owned(c, s) == s \in Live(reg) /\ reg.sessions[s].peer = c

Current(s) == profile.connected /\ profile.gen = reg.sessions[s].gen

Required(c, s) == Owned(c, s) /\ Current(s)

\* The operations of pendingOperations that belong to a session.
Pending(s) ==
    \/ \E o \in Ops : op[o].phase = "sent" /\ op[o].session = s
    \/ \E k \in Kinds : cleanup[<<s, k>>].phase \in {"listing", "closing"}

\* Pending operations of these sessions are removed and rejected: a rejected
\* tabs.list ends the terminal cleanup, a rejected tabs.close its own tab.
Reject(S) ==
    /\ op' = [o \in Ops |-> IF op[o].phase = "sent" /\ op[o].session \in S
                            THEN FreeOp ELSE op[o]]
    /\ cleanup' = [sk \in SessionIds \X Kinds |->
          IF sk[1] \in S /\ cleanup[sk].phase \in {"listing", "closing"}
          THEN [cleanup[sk] EXCEPT
                  !.todo = IF cleanup[sk].phase = "listing" THEN {} ELSE @,
                  !.phase = "preparing", !.tab = NoTab]
          ELSE cleanup[sk]]

\* Mutant of Reachable: any connected profile will do.
ReachableAnyhow(gen, r) == profile.connected

\* A command can be handed to the relay of the profile record it captured.
Reachable(gen, r) ==
    /\ profile.connected
    /\ profile.gen = gen
    /\ profile.peer = r
    /\ relay[r] = "up"

-----------------------------------------------------------------------------
(* session.open                                                            *)

Matches(task) ==
    {s \in Live(reg) : task # NoTask /\ reg.sessions[s].task = task
                       /\ reg.sessions[s].gen = profile.gen}

MayOpen(c) == client[c] = "up" /\ profile.connected

\* The client's own session for the task is answered again.
ReuseSession(c, task) ==
    /\ MayOpen(c)
    /\ \E s \in Matches(task) : reg.sessions[s].peer = c /\ reg' = Used(reg, s)
    /\ UNCHANGED <<minted, granted, peerVars, workVars>>

\* Mutant of Transferable: leases do not keep a session where it is.
TransferableLeased(s) == ~Pending(s)

Transferable(s) == reg.sessions[s].leaseIds = {} /\ ~Pending(s)

\* Another client's session for the task, when it has nothing in hand.
TakeOver(c, task) ==
    /\ "transfer" \in Events
    /\ MayOpen(c)
    /\ \A s \in Matches(task) : reg.sessions[s].peer # c
    /\ \E s \in Matches(task) : Transferable(s) /\ reg' = Transferred(reg, s, c, Peers)
    /\ UNCHANGED <<minted, granted, peerVars, workVars>>

\* Mutant of NewSession: a session is opened beside the one that could not
\* be taken over.
NewSessionAnyway(c, task) ==
    /\ MayOpen(c)
    /\ \A s \in Matches(task) : reg.sessions[s].peer # c
    /\ \E s \in SessionIds \ minted :
          /\ reg' = Opened(reg, s, c, task, profile.gen)
          /\ minted' = minted \union {s}
    /\ UNCHANGED <<granted, peerVars, workVars>>

\* A match that cannot be handed over refuses the request instead.
NewSession(c, task) ==
    /\ MayOpen(c)
    /\ Matches(task) = {}
    /\ \E s \in SessionIds \ minted :
          /\ reg' = Opened(reg, s, c, task, profile.gen)
          /\ minted' = minted \union {s}
    /\ UNCHANGED <<granted, peerVars, workVars>>

\* Any request that names a stale session of its own deletes it.
StaleRequest(c, s) ==
    /\ client[c] = "up"
    /\ Owned(c, s)
    /\ ~Current(s)
    /\ reg' = Deleted(reg, {s}, Peers)
    /\ UNCHANGED <<minted, granted, peerVars, workVars>>

-----------------------------------------------------------------------------
(* lease.acquire, lease.release, and the leases handlers take themselves   *)

\* Handlers acquire leases in the middle of their work too, so the owner may
\* be leaving; only the session is asked for.  A tab the session reserves
\* already is answered with the lease it has (bound: to a connected owner).
AcquireLease(c, s, t) ==
    /\ Required(c, s)
    /\ \/ /\ client[c] = "up"
          /\ Holds(reg, s, t)
          /\ reg' = Used(reg, s)
          /\ UNCHANGED granted
       \/ /\ Free(reg, t)
          /\ \E l \in LeaseIds \ granted :
                /\ reg' = Granted(reg, l, s, t)
                /\ granted' = granted \union {l}
    /\ UNCHANGED <<minted, peerVars, workVars>>

\* lease.release by its owner, which counts as a use, or the finally clause
\* of a handler, which checks nothing.
ReleaseLease(c, l) ==
    /\ reg.leases[l] # NoLease
    /\ LET s == reg.leases[l].session IN
       /\ Owned(c, s)
       /\ \/ client[c] = "up" /\ Current(s) /\ reg' = Released(Used(reg, s), l)
          \/ reg' = Released(reg, l)
    /\ UNCHANGED <<minted, granted, peerVars, workVars>>

\* tab.removed: the reservation and the record of a tab that is gone.
TabRemoved(r, t) ==
    /\ "removed" \in Events
    /\ relay[r] = "up"
    /\ ~Free(reg, t) \/ tabTask[t] # NoTask
    /\ reg' = IF Free(reg, t) THEN reg ELSE Released(reg, reg.index[t])
    /\ tabTask' = [tabTask EXCEPT ![t] = NoTask]
    /\ UNCHANGED <<minted, granted, peerVars, op, cleanup>>

-----------------------------------------------------------------------------
(* operation.execute: admitted, queued, checked again, sent, settled.      *)
(* OperationDispatch follows the ledger and the queues; here an operation  *)
(* matters for the session it works for.                                   *)

\* Target methods name a tab the session reserves; others name none.
SubmitOp(o, c, s, t) ==
    /\ op[o].phase = "free"
    /\ client[c] = "up"
    /\ Required(c, s)
    /\ t # NoTab => Holds(reg, s, t)
    /\ op' = [op EXCEPT ![o] =
          [phase |-> "queued", client |-> c, session |-> s,
           task |-> reg.sessions[s].task, tab |-> t,
           lease |-> IF t = NoTab THEN NoLeaseId ELSE reg.index[t],
           gen |-> profile.gen, relay |-> profile.peer]]
    /\ reg' = Used(reg, s)
    /\ UNCHANGED <<minted, granted, peerVars, cleanup, tabTask>>

\* validateTarget, for an operation with a target.
TargetHeld(o) ==
    op[o].tab # NoTab =>
        LET lease == reg.leases[op[o].lease] IN
        /\ lease # NoLease
        /\ lease.session = op[o].session
        /\ lease.tab = op[o].tab

\* assertDispatch with its dispatchGuard, just before the command goes out.
Dispatchable(o) ==
    /\ client[op[o].client] = "up"
    /\ Reachable(op[o].gen, op[o].relay)
    /\ Required(op[o].client, op[o].session)
    /\ TargetHeld(o)

SendOp(o) ==
    /\ op[o].phase = "queued"
    /\ Dispatchable(o)
    /\ op' = [op EXCEPT ![o].phase = "sent"]
    /\ reg' = Used(reg, op[o].session)
    /\ UNCHANGED <<minted, granted, peerVars, cleanup, tabTask>>

\* Refused by a check, cancelled, or past its deadline before it was sent.
DropOp(o) ==
    /\ op[o].phase = "queued"
    /\ op' = [op EXCEPT ![o] = FreeOp]
    /\ UNCHANGED <<bookVars, peerVars, cleanup, tabTask>>

\* A result or the timer settles it.  A tabs.create of a task's transaction
\* leaves the record of a tab that this task owns.
EndOp(o) ==
    /\ op[o].phase = "sent"
    /\ op' = [op EXCEPT ![o] = FreeOp]
    /\ \/ UNCHANGED tabTask
       \/ \E t \in Tabs :
             /\ op[o].tab = NoTab
             /\ tabTask[t] = NoTask
             /\ Reachable(op[o].gen, op[o].relay)
             /\ tabTask' = [tabTask EXCEPT ![t] = op[o].task]
    /\ UNCHANGED <<bookVars, peerVars, cleanup>>

-----------------------------------------------------------------------------
(* #finalizeSessionTerminalTabs, the cleanup of a closing session's tabs   *)

Entries(s) ==
    {t \in Tabs : reg.sessions[s].task # NoTask /\ tabTask[t] = reg.sessions[s].task}

\* It captures the profile's record and asks for the browser's tabs.
Listing(s, c) ==
    [phase |-> "listing", client |-> c, todo |-> Entries(s), tab |-> NoTab,
     gen |-> profile.gen, relay |-> profile.peer]

\* The closing session's own idle lease does not protect its tab.
Closable(s, t) ==
    \/ Free(reg, t)
    \/ Holds(reg, s, t) /\ ~\E o \in Ops : op[o].phase = "sent" /\ op[o].tab = t

Picked(cl, t, skipped) ==
    [cl EXCEPT !.phase = "preparing", !.tab = t, !.todo = @ \ (skipped \union {t})]

\* The loop over the entries, once an await of it returns: it skips tabs (a
\* reservation, a live state of the tab, a duplicate key) until it finds one
\* to close, whose close it then prepares in the ledger.
NextTab(s, k) ==
    /\ cleanup[<<s, k>>].phase \in {"listing", "preparing", "closing"}
    /\ \E t \in cleanup[<<s, k>>].todo : \E skipped \in SUBSET (cleanup[<<s, k>>].todo \ {t}) :
          /\ Closable(s, t)
          /\ cleanup' = [cleanup EXCEPT ![<<s, k>>] = Picked(@, t, skipped)]
    /\ UNCHANGED <<bookVars, peerVars, op, tabTask>>

\* #sendOperation, without a dispatchGuard: neither the session nor the
\* tab's reservation is looked at again.
SendClose(s, k) ==
    /\ cleanup[<<s, k>>].phase = "preparing"
    /\ cleanup[<<s, k>>].tab # NoTab
    /\ k = "close" => client[cleanup[<<s, k>>].client] = "up"
    /\ Reachable(cleanup[<<s, k>>].gen, cleanup[<<s, k>>].relay)
    /\ cleanup' = [cleanup EXCEPT ![<<s, k>>].phase = "closing"]
    /\ UNCHANGED <<bookVars, peerVars, op, tabTask>>

\* Mutant of EndCleanup: a close that could not be sent is waited for.
EndCleanupAnswered(s, k) ==
    /\ cleanup[<<s, k>>].phase \in {"listing", "closing"}
    /\ IF k = "close"
       THEN /\ reg' = Deleted(reg, {s}, Peers)
            /\ cleanup' = [cleanup EXCEPT ![<<s, k>>] = NoCleanup]
       ELSE /\ cleanup' = [cleanup EXCEPT ![<<s, k>>].phase = "detaching"]
            /\ UNCHANGED reg
    /\ UNCHANGED <<minted, granted, peerVars, op, tabTask>>

\* The loop is over, or tabs.list failed: a close deletes its session, an
\* expiry detaches the session's tabs in the ledger first.
EndCleanup(s, k) ==
    /\ cleanup[<<s, k>>].phase \in {"listing", "preparing", "closing"}
    /\ IF k = "close"
       THEN /\ reg' = Deleted(reg, {s}, Peers)
            /\ cleanup' = [cleanup EXCEPT ![<<s, k>>] = NoCleanup]
       ELSE /\ cleanup' = [cleanup EXCEPT ![<<s, k>>].phase = "detaching"]
            /\ UNCHANGED reg
    /\ UNCHANGED <<minted, granted, peerVars, op, tabTask>>

\* Detached, or not: the session is deleted in any case.
FinishExpiry(s) ==
    /\ cleanup[<<s, "expiry">>].phase = "detaching"
    /\ reg' = Deleted(reg, {s}, Peers)
    /\ cleanup' = [cleanup EXCEPT ![<<s, "expiry">>] = NoCleanup]
    /\ UNCHANGED <<minted, granted, peerVars, op, tabTask>>

\* The list can be asked for when there is something to close and a relay.
Listable(s) == Entries(s) # {} /\ relay[profile.peer] = "up"

\* session.close: at once when taskTerminal is false, when the session has no
\* recorded tabs, or when the list cannot be asked for; after the cleanup
\* otherwise.
CloseSession(c, s) ==
    /\ client[c] = "up"
    /\ Required(c, s)
    /\ cleanup[<<s, "close">>].phase = "none"  \* bound: one close at a time
    /\ \/ /\ reg' = Deleted(reg, {s}, Peers)
          /\ UNCHANGED cleanup
       \/ /\ Listable(s)
          /\ cleanup' = [cleanup EXCEPT ![<<s, "close">>] = Listing(s, c)]
          /\ reg' = Used(reg, s)
    /\ UNCHANGED <<minted, granted, peerVars, op, tabTask>>

-----------------------------------------------------------------------------
(* #expireSessions                                                         *)

GrowIdle(s) ==
    /\ "idle" \in Events
    /\ s \in Live(reg)
    /\ ~reg.sessions[s].idle
    /\ reg' = Aged(reg, s)
    /\ UNCHANGED <<minted, granted, peerVars, workVars>>

Expiring(s) ==
    /\ s \in Live(reg)
    /\ reg.sessions[s].idle
    /\ cleanup[<<s, "expiry">>].phase = "none"

\* Mutant of ExpireAtOnce: a lost owner is left to #disconnectPeer.
ExpireAtOnceTaskless(s) ==
    /\ Expiring(s)
    /\ reg.sessions[s].task = NoTask
    /\ reg' = Deleted(reg, {s}, Peers)
    /\ UNCHANGED <<minted, granted, peerVars, workVars>>

\* Without a connected owner or a task: deleted at once.
ExpireAtOnce(s) ==
    /\ Expiring(s)
    /\ client[reg.sessions[s].peer] # "up" \/ reg.sessions[s].task = NoTask
    /\ reg' = Deleted(reg, {s}, Peers)
    /\ UNCHANGED <<minted, granted, peerVars, workVars>>

\* With both: one last cleanup under the owner's name.  Its tabs.list is
\* itself a use of the session; on a stale session it fails and deletes it.
BeginExpiry(s) ==
    /\ Expiring(s)
    /\ client[reg.sessions[s].peer] = "up"
    /\ reg.sessions[s].task # NoTask
    /\ LET listing == Listing(s, reg.sessions[s].peer)
           nothing == [listing EXCEPT !.phase = "detaching"]
       IN  \/ /\ Entries(s) = {}
              /\ cleanup' = [cleanup EXCEPT ![<<s, "expiry">>] = nothing]
              /\ UNCHANGED reg
           \/ /\ Entries(s) # {} /\ ~Current(s)
              /\ cleanup' = [cleanup EXCEPT ![<<s, "expiry">>] = nothing]
              /\ reg' = Deleted(reg, {s}, Peers)
           \/ /\ Entries(s) # {} /\ Current(s)
              /\ cleanup' = [cleanup EXCEPT ![<<s, "expiry">>] =
                    IF relay[profile.peer] = "up" THEN listing ELSE nothing]
              /\ reg' = Used(reg, s)
    /\ UNCHANGED <<minted, granted, peerVars, op, tabTask>>

-----------------------------------------------------------------------------
(* #disconnectPeer                                                         *)

\* A client's connection closes.  While its sessions' operations and tabs
\* are settled in the ledger it is no longer a peer, and its sessions stay.
DisconnectClient(c) ==
    /\ "disconnect" \in Events
    /\ client[c] = "up"
    /\ client' = [client EXCEPT ![c] = IF reg.held[c] = {} THEN "gone" ELSE "leaving"]
    /\ Reject(reg.held[c])
    /\ UNCHANGED <<bookVars, relay, claims, profile, gens, hello, tabTask>>

\* Mutant of FinishDisconnect: only the sessions without leases are deleted.
FinishDisconnectLeased(c) ==
    /\ client[c] = "leaving"
    /\ client' = [client EXCEPT ![c] = "gone"]
    /\ reg' = Deleted(reg, {s \in reg.held[c] \intersect Live(reg) :
                              reg.sessions[s].leaseIds = {}}, Peers)
    /\ UNCHANGED <<minted, granted, relay, claims, profile, gens, hello,
                   workVars>>

FinishDisconnect(c) ==
    /\ client[c] = "leaving"
    /\ client' = [client EXCEPT ![c] = "gone"]
    /\ reg' = Deleted(reg, reg.held[c], Peers)
    /\ UNCHANGED <<minted, granted, relay, claims, profile, gens, hello,
                   workVars>>

\* The ledger write fails: the handler ends there, and nobody hears of it.
DisconnectFails(c) ==
    /\ "leaving" \in WritesFail
    /\ client[c] = "leaving"
    /\ client' = [client EXCEPT ![c] = "gone"]
    /\ UNCHANGED <<bookVars, relay, claims, profile, gens, hello, workVars>>

\* #invalidateProfile, up to its first await.
InvalidateProfile ==
    /\ reg' = Deleted(reg, SessionIds, Peers)
    /\ Reject(SessionIds)

ReplacementPresent(r) == \E q \in claims \ {r} : relay[q] = "up"

\* The Extension's connection closes.  Only a relay that has been given the
\* profile and is its current peer disconnects it; sessions survive when a
\* reload was requested or another relay claims the profile.
LoseRelay(r) ==
    /\ "relay" \in Events
    /\ relay[r] = "up"
    /\ relay' = [relay EXCEPT ![r] = "gone"]
    /\ IF r \in claims /\ profile.peer = r
       THEN /\ profile' = [profile EXCEPT !.connected = FALSE]
            /\ \/ ~ReplacementPresent(r) /\ InvalidateProfile
               \/ /\ ReplacementPresent(r) \/ ReloadMayBeInFlight
                  /\ UNCHANGED <<reg, op, cleanup>>
       ELSE UNCHANGED <<profile, reg, op, cleanup>>
    /\ UNCHANGED <<minted, granted, client, claims, gens, hello, tabTask>>

-----------------------------------------------------------------------------
(* #registerProfile                                                        *)

\* The first hello of the profile installs its record at once.
FirstHello(r) ==
    /\ relay[r] = "new"
    /\ profile.gen = 0
    /\ relay' = [relay EXCEPT ![r] = "up"]
    /\ profile' = [connected |-> TRUE, peer |-> r, gen |-> 1]
    /\ gens' = 1
    /\ hello' = [hello EXCEPT ![r] = [phase |-> "recording", gen |-> 1]]
    /\ UNCHANGED <<bookVars, client, claims, workVars>>

\* A later one invalidates the profile's sessions first.  The same Extension
\* runtime will keep the generation the profile has now; another one (gen 0)
\* will be given a new one.
LaterHello(r, gen) ==
    /\ relay[r] = "new"
    /\ profile.gen # 0
    /\ gen \in {0, profile.gen}
    /\ relay' = [relay EXCEPT ![r] = "up"]
    /\ hello' = [hello EXCEPT ![r] = [phase |-> "invalidating", gen |-> gen]]
    /\ InvalidateProfile
    /\ UNCHANGED <<minted, granted, client, claims, profile, gens, tabTask>>

\* Then it installs the record, whatever happened in between; the records of
\* tabs are quarantined when the generation is new.
InstallProfile(r) ==
    /\ hello[r].phase = "invalidating"
    /\ hello[r].gen = 0 => gens < MaxGen
    /\ LET gen == IF hello[r].gen = 0 THEN gens + 1 ELSE hello[r].gen IN
       /\ profile' = [connected |-> TRUE, peer |-> r, gen |-> gen]
       /\ hello' = [hello EXCEPT ![r] = [phase |-> "recording", gen |-> gen]]
    /\ IF hello[r].gen = 0
       THEN gens' = gens + 1 /\ tabTask' = [t \in Tabs |-> NoTask]
       ELSE UNCHANGED <<gens, tabTask>>
    /\ UNCHANGED <<bookVars, client, relay, claims, op, cleanup>>

\* The binding is in the ledger: the relay claims the profile.
FinishHello(r) ==
    /\ hello[r].phase = "recording"
    /\ hello' = [hello EXCEPT ![r] = NoHello]
    /\ claims' = claims \union {r}
    /\ UNCHANGED <<bookVars, client, relay, profile, gens, workVars>>

HelloFails(r) ==
    /\ "hello" \in WritesFail
    /\ \/ hello[r].phase = "recording"
       \/ hello[r].phase = "invalidating" /\ hello[r].gen = 0
    /\ hello' = [hello EXCEPT ![r] = NoHello]
    /\ UNCHANGED <<bookVars, client, relay, claims, profile, gens, workVars>>

-----------------------------------------------------------------------------

ClientNext(c) ==
    \/ \E task \in Tasks \union {NoTask} :
          ReuseSession(c, task) \/ TakeOver(c, task) \/ NewSession(c, task)
    \/ \E s \in SessionIds :
          \/ StaleRequest(c, s) \/ CloseSession(c, s)
          \/ \E t \in Tabs : AcquireLease(c, s, t)
          \/ \E o \in Ops, t \in Tabs \union {NoTab} : SubmitOp(o, c, s, t)
    \/ \E l \in LeaseIds : ReleaseLease(c, l)
    \/ DisconnectClient(c) \/ FinishDisconnect(c) \/ DisconnectFails(c)

OpNext(o) == SendOp(o) \/ DropOp(o) \/ EndOp(o)

CleanupNext(s, k) == NextTab(s, k) \/ SendClose(s, k) \/ EndCleanup(s, k)

SessionNext(s) ==
    \/ \E k \in Kinds : CleanupNext(s, k)
    \/ FinishExpiry(s) \/ GrowIdle(s) \/ ExpireAtOnce(s) \/ BeginExpiry(s)

RelayNext(r) ==
    \/ FirstHello(r) \/ InstallProfile(r) \/ FinishHello(r) \/ HelloFails(r)
    \/ \E gen \in 0 .. MaxGen : LaterHello(r, gen)
    \/ \E t \in Tabs : TabRemoved(r, t)
    \/ LoseRelay(r)

Next ==
    \/ \E c \in Clients : ClientNext(c)
    \/ \E o \in Ops : OpNext(o)
    \/ \E s \in SessionIds : SessionNext(s)
    \/ \E r \in Relays : RelayNext(r)

Spec == Init /\ [][Next]_vars

Abandoned(s) == s \in Live(reg) /\ client[reg.sessions[s].peer] # "up"

\* Ledger jobs finish, commands are answered or timed out, and the timer of
\* #expireSessions finds the sessions that nobody is there to use.
Fairness ==
    /\ \A c \in Clients : WF_vars(FinishDisconnect(c) \/ DisconnectFails(c))
    /\ \A s \in SessionIds :
          /\ \A k \in Kinds : WF_vars(CleanupNext(s, k))
          /\ WF_vars(FinishExpiry(s))
          /\ WF_vars(Abandoned(s) /\ GrowIdle(s))
          /\ WF_vars(ExpireAtOnce(s) \/ BeginExpiry(s))

FairSpec == Spec /\ Fairness

-----------------------------------------------------------------------------
(* Properties                                                              *)

\* The four structures agree after every handler: no lease outlives its
\* session, no index entry its lease, no connection forgets a session it
\* owns (#deleteSession, #deleteLease, #openSession edit them in place).
IndicesAgree == Linked(reg)

\* A task has one session per generation, whichever clients ask for one, and
\* however transfers, closes and losses interleave (#openSession).
OneSessionPerTask ==
    \A s, u \in Live(reg) :
        /\ reg.sessions[s].task # NoTask
        /\ reg.sessions[s].task = reg.sessions[u].task
        /\ reg.sessions[s].gen = reg.sessions[u].gen
        => s = u

\* A connection that is gone owns no session and so reserves no tab, unless
\* the ledger failed while it left (#disconnectPeer).
DepartedHoldNothing ==
    "leaving" \notin WritesFail => \A s \in Live(reg) : client[reg.sessions[s].peer] # "gone"

\* A command goes out for the client that owns its session at that moment,
\* in the generation it was admitted in, to a relay that is there, under the
\* lease that reserves its tab at that moment, however long it was queued
\* (#sendOperation and the dispatchGuard of #executeOperation).
OwnerSends ==
    [][\A o \in Ops : op[o].phase = "queued" /\ op'[o].phase = "sent" =>
          /\ op[o].session \in OwnedBy(reg, op[o].client)
          /\ client[op[o].client] = "up"
          /\ relay[op[o].relay] = "up"
          /\ reg.sessions[op[o].session].gen = op[o].gen
          /\ op[o].gen = profile.gen
          /\ op[o].tab # NoTab => reg.index[op[o].tab] = op[o].lease
                                  /\ Holds(reg, op[o].session, op[o].tab)]_vars

\* The book of sessions and leases keeps what TabReservation promises.
life == [s \in SessionIds |-> IF s \in Live(reg) THEN "open"
                              ELSE IF s \in minted THEN "over" ELSE "new"]
owner == [s \in SessionIds |-> IF s \in Live(reg) THEN {reg.sessions[s].peer} ELSE {}]
tabsOf == [s \in SessionIds |-> {t \in Tabs : Holds(reg, s, t)}]

Reservation == INSTANCE TabReservation

\* Reservations are exclusive and owners change empty-handed, through every
\* interleaving of the handlers (#acquireLease, #openSession, #deleteSession).
KeepsReservations == Reservation!Spec

\* The sessions of a connection that is gone are deleted or taken over, even
\* when the ledger fails while it leaves (#disconnectPeer, #expireSessions).
DepartedAreForgotten == \A s \in SessionIds : Abandoned(s) ~> ~Abandoned(s)

\* A session whose close or expiry has begun comes to its end, whatever is
\* lost under its cleanup (#closeSession, #expireSessions).
EndingsEnd ==
    \A s \in SessionIds, k \in Kinds :
        cleanup[<<s, k>>].phase # "none" ~> s \notin Live(reg)

-----------------------------------------------------------------------------
(* What the repository's documents say and the code does not keep.         *)

\* PROJECT_DESIGN.md:252: the broker reclaims only expired, ownerless state.
\* A session of the profile's generation ends for one of these reasons: its
\* owner closes it, its owner's connection is lost, it is idle or expiring,
\* or an Extension comes or goes.
ReclaimsOnlyOwnerless ==
    [][\A s \in Live(reg) \ Live(reg') :
          LET o == reg.sessions[s].peer IN
          \/ CloseSession(o, s)
          \/ cleanup[<<s, "close">>].phase # "none" /\ cleanup[<<s, "close">>].client = o
          \/ client[o] # "up"
          \/ reg.sessions[s].idle \/ cleanup[<<s, "expiry">>].phase # "none"
          \/ ~Current(s) \/ relay' # relay]_vars

=============================================================================
