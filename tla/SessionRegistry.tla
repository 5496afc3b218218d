-------------------------- MODULE SessionRegistry --------------------------
(***************************************************************************)
(* The broker's book of logical sessions and exact-tab leases              *)
(* (src/src/broker/broker.mjs): four linked structures that every handler  *)
(* edits in place.  A registry is one value; an operator here is one of    *)
(* the helpers that edit it, applied to the value.                         *)
(***************************************************************************)
EXTENDS Integers, FiniteSets

CONSTANTS
    Clients,     \* client peers: a connection is never used again once closed
    Tasks,       \* taskIds that sessions name
    NoTask,      \* session.taskId of a session opened without one
    Tabs,        \* tabs of the profile
    SessionIds,  \* createId("session"): never given twice
    LeaseIds,    \* createId("lease"): never given twice
    MaxGen,      \* bound: profile generations
    NoSession, NoLease, NoLeaseId

ASSUME RegistryAssumption ==
    /\ NoTask \notin Tasks
    /\ NoLeaseId \notin LeaseIds
    /\ MaxGen \in Nat \ {0}

Gens == 1 .. MaxGen

Session == [peer : Clients, gen : Gens, task : Tasks \union {NoTask},
            leaseIds : SUBSET LeaseIds, idle : BOOLEAN]

Lease == [session : SessionIds, tab : Tabs, gen : Gens]

\* Model values stand for a missing map entry; records never equal them.
Registry == [sessions : [SessionIds -> Session \union {NoSession}],
             leases   : [LeaseIds -> Lease \union {NoLease}],
             index    : [Tabs -> LeaseIds \union {NoLeaseId}],
             held     : [Clients -> SUBSET SessionIds]]

ASSUME NothingAssumption == NoSession \notin Session /\ NoLease \notin Lease

EmptyRegistry == [sessions |-> [s \in SessionIds |-> NoSession],
                  leases   |-> [l \in LeaseIds |-> NoLease],
                  index    |-> [t \in Tabs |-> NoLeaseId],
                  held     |-> [c \in Clients |-> {}]]

Live(g) == {s \in SessionIds : g.sessions[s] # NoSession}

OwnedBy(g, c) == {s \in Live(g) : g.sessions[s].peer = c}

\* lastSeenAt: a session that has not been used for the TTL is idle.
Used(g, s) == [g EXCEPT !.sessions[s].idle = FALSE]

Aged(g, s) == [g EXCEPT !.sessions[s].idle = TRUE]

-----------------------------------------------------------------------------
(* Sessions                                                                *)

\* Mutant of Opened: a new session that was never seen.
OpenedUnseen(g, s, c, task, gen) ==
    [g EXCEPT !.sessions[s] = [peer |-> c, gen |-> gen, task |-> task, leaseIds |-> {}],
              !.held[c] = @ \union {s}]

\* A session opened by client c for a task, in the profile's generation.
Opened(g, s, c, task, gen) ==
    [g EXCEPT !.sessions[s] = [peer |-> c, gen |-> gen, task |-> task,
                               leaseIds |-> {}, idle |-> FALSE],
              !.held[c] = @ \union {s}]

\* A session handed to client c; its old owner forgets it if it is one of
\* the clients in peers, the connections this.peers still holds.
Transferred(g, s, c, peers) ==
    LET old == g.sessions[s].peer
        forgotten == [g.held EXCEPT ![old] = IF old \in peers THEN @ \ {s} ELSE @]
    IN  [g EXCEPT !.sessions[s] = [@ EXCEPT !.peer = c, !.idle = FALSE],
                  !.held = [forgotten EXCEPT ![c] = @ \union {s}]]

\* Mutant of Deleted: a session's leases are left in the book.
DeletedAlone(g, S, peers) ==
    LET ended == S \intersect Live(g)
    IN  [g EXCEPT
          !.sessions = [s \in SessionIds |-> IF s \in ended THEN NoSession ELSE @[s]],
          !.held = [c \in Clients |-> IF c \in peers THEN @[c] \ ended ELSE @[c]]]

\* Deletion of a set of sessions, with the leases each of them lists.
Deleted(g, S, peers) ==
    LET ended   == S \intersect Live(g)
        dropped == UNION {g.sessions[s].leaseIds : s \in ended}
        Was(t, l) == /\ l \in dropped
                     /\ g.leases[l] # NoLease
                     /\ g.leases[l].tab = t
    IN  [sessions |-> [s \in SessionIds |-> IF s \in ended THEN NoSession ELSE g.sessions[s]],
         leases   |-> [l \in LeaseIds |-> IF l \in dropped THEN NoLease ELSE g.leases[l]],
         index    |-> [t \in Tabs |-> IF Was(t, g.index[t]) THEN NoLeaseId ELSE g.index[t]],
         held     |-> [c \in Clients |->
                          IF c \in peers
                          THEN {s \in g.held[c] : s \notin ended \/ g.sessions[s].peer # c}
                          ELSE g.held[c]]]

-----------------------------------------------------------------------------
(* Leases                                                                  *)

\* The session has just been asked for, so it is in use.
Granted(g, l, s, t) ==
    [Used(g, s) EXCEPT !.leases[l] = [session |-> s, tab |-> t, gen |-> g.sessions[s].gen],
              !.index[t] = l,
              !.sessions[s].leaseIds = @ \union {l}]

Unlisted(session, l) ==
    IF session = NoSession THEN session
    ELSE [session EXCEPT !.leaseIds = @ \ {l}]

Released(g, l) ==
    IF g.leases[l] = NoLease THEN g
    ELSE LET s == g.leases[l].session
             t == g.leases[l].tab
         IN  [g EXCEPT !.leases[l] = NoLease,
                       !.index[t] = IF @ = l THEN NoLeaseId ELSE @,
                       !.sessions[s] = Unlisted(@, l)]

\* The session that reserves a tab: what the code reads through the index.
Holds(g, s, t) ==
    /\ g.index[t] # NoLeaseId
    /\ g.leases[g.index[t]] # NoLease
    /\ g.leases[g.index[t]].session = s

Free(g, t) == g.index[t] = NoLeaseId

-----------------------------------------------------------------------------
(* What the four structures say of one another.                            *)

\* A lease belongs to a live session that lists it, is of that session's
\* generation, and is the one its tab's index names.
LeasesLinked(g) ==
    \A l \in LeaseIds : g.leases[l] # NoLease =>
        LET lease == g.leases[l] IN
        /\ lease.session \in Live(g)
        /\ l \in g.sessions[lease.session].leaseIds
        /\ lease.gen = g.sessions[lease.session].gen
        /\ g.index[lease.tab] = l

\* The index and the sessions name existing leases only, each its own.
IndexLinked(g) ==
    \A t \in Tabs : g.index[t] # NoLeaseId =>
        /\ g.leases[g.index[t]] # NoLease
        /\ g.leases[g.index[t]].tab = t

SessionsLinked(g) ==
    \A s \in Live(g) :
        /\ \A l \in g.sessions[s].leaseIds :
               g.leases[l] # NoLease /\ g.leases[l].session = s
        /\ s \in g.held[g.sessions[s].peer]

Linked(g) == LeasesLinked(g) /\ IndexLinked(g) /\ SessionsLinked(g)

=============================================================================
