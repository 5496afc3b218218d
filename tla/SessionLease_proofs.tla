------------------------ MODULE SessionLease_proofs ------------------------
(***************************************************************************)
(* Safety of sessions and leases for every number of clients, tabs,        *)
(* sessions and relays; and, at the end, of the reload of the Extension,   *)
(* which MCReload puts beside them.                                        *)
(*                                                                         *)
(* Every action edits the book (reg, minted, granted) in one of the ways   *)
(* BookStep lists; what the properties say of the book follows from that   *)
(* alone, with the lemmas about the registry's edits.  The other variables *)
(* matter for types, for the clients that leave and for queued commands.   *)
(***************************************************************************)
EXTENDS MCReload, TLAPS

-----------------------------------------------------------------------------
(* What each helper that edits the book of sessions and leases returns: a  *)
(* registry, whose four structures agree when they agreed before.          *)

\* A live session has a record, and a lease that is there has one.
LEMMA EntryTypes ==
    ASSUME NEW g \in Registry
    PROVE  /\ Live(g) \subseteq SessionIds
           /\ \A s \in Live(g) : g.sessions[s] \in Session
           /\ \A l \in LeaseIds : g.leases[l] # NoLease => g.leases[l] \in Lease
BY DEF Registry, Live

\* The empty registry of a broker that has just begun (the constructor).
LEMMA EmptyLinked ==
    /\ EmptyRegistry \in Registry
    /\ Linked(EmptyRegistry)
    /\ Live(EmptyRegistry) = {}
<1>1. EmptyRegistry \in Registry
  BY DEF EmptyRegistry, Registry
<1>2. Live(EmptyRegistry) = {}
  BY DEF EmptyRegistry, Live
<1>3. Linked(EmptyRegistry)
  BY <1>2, NothingAssumption DEF EmptyRegistry, Linked, LeasesLinked, IndexLinked, SessionsLinked
<1> QED BY <1>1, <1>2, <1>3

\* Using a session, or letting it grow idle, changes its idle flag only.
LEMMA TouchedLinked ==
    ASSUME NEW g \in Registry, NEW s \in Live(g), NEW h,
           h = Used(g, s) \/ h = Aged(g, s)
    PROVE  /\ h \in Registry
           /\ Live(h) = Live(g)
           /\ h.leases = g.leases /\ h.index = g.index /\ h.held = g.held
           /\ \A u \in Live(g) : /\ h.sessions[u].peer = g.sessions[u].peer
                                 /\ h.sessions[u].gen = g.sessions[u].gen
                                 /\ h.sessions[u].task = g.sessions[u].task
                                 /\ h.sessions[u].leaseIds = g.sessions[u].leaseIds
           /\ Linked(g) => Linked(h)
<1> DEFINE old == g.sessions[s]
<1>0. old \in Session /\ s \in SessionIds
  BY EntryTypes
<1>1. PICK b \in BOOLEAN : h = [g EXCEPT !.sessions[s].idle = b]
  BY DEF Used, Aged
<1> DEFINE new == [old EXCEPT !.idle = b]
<1>2. new \in Session /\ new # NoSession
  BY <1>0, NothingAssumption DEF Session
<1>3. /\ h.sessions = [g.sessions EXCEPT ![s] = new]
      /\ h.leases = g.leases /\ h.index = g.index /\ h.held = g.held
  BY <1>1 DEF Registry
<1>4. h \in Registry
  BY <1>0, <1>1, <1>2 DEF Registry
<1>5. Live(h) = Live(g)
  BY <1>0, <1>2, <1>3 DEF Live, Registry
<1>6. \A u \in Live(g) : /\ h.sessions[u].peer = g.sessions[u].peer
                         /\ h.sessions[u].gen = g.sessions[u].gen
                         /\ h.sessions[u].task = g.sessions[u].task
                         /\ h.sessions[u].leaseIds = g.sessions[u].leaseIds
  BY <1>0, <1>3, EntryTypes DEF Registry, Session
<1>7. Linked(g) => Linked(h)
  BY <1>3, <1>5, <1>6, EntryTypes DEF Linked, LeasesLinked, IndexLinked, SessionsLinked, Lease
<1> QED BY <1>3, <1>4, <1>5, <1>6, <1>7

\* A session that is opened under a fresh id joins the book (#openSession).
LEMMA OpenedLinked ==
    ASSUME NEW g \in Registry, NEW s \in SessionIds, s \notin Live(g),
           NEW c \in Clients, NEW task \in Tasks \union {NoTask}, NEW gen \in Gens,
           NEW h, h = Opened(g, s, c, task, gen)
    PROVE  /\ h \in Registry
           /\ Live(h) = Live(g) \union {s}
           /\ \A u \in Live(g) : u # s /\ h.sessions[u] = g.sessions[u]
           /\ h.sessions[s].peer = c /\ h.sessions[s].gen = gen
           /\ h.sessions[s].task = task /\ h.sessions[s].leaseIds = {}
           /\ h.leases = g.leases /\ h.index = g.index
           /\ \A d \in Clients : h.held[d] \subseteq g.held[d] \union {s}
           /\ Linked(g) => Linked(h)
<1> DEFINE new == [peer |-> c, gen |-> gen, task |-> task, leaseIds |-> {}, idle |-> FALSE]
<1>0. new \in Session
  BY DEF Session
<1>1. new \in Session /\ new # NoSession
  BY <1>0, NothingAssumption
<1>2. /\ h.sessions = [g.sessions EXCEPT ![s] = new]
      /\ h.leases = g.leases /\ h.index = g.index
      /\ h.held = [g.held EXCEPT ![c] = @ \union {s}]
  BY DEF Opened, Registry
<1>3. h \in Registry
  BY <1>1 DEF Opened, Registry
<1>4. Live(h) = Live(g) \union {s}
  BY <1>1, <1>2 DEF Live, Registry
<1>5. \A u \in Live(g) : u # s /\ h.sessions[u] = g.sessions[u]
  BY <1>2 DEF Live, Registry
<1>6. h.sessions[s] = new
  BY <1>2 DEF Registry
<1>7. \A d \in Clients : g.held[d] \subseteq h.held[d]
  BY <1>2 DEF Registry
<1>8. s \in h.held[c]
  BY <1>2 DEF Registry
<1>9. Linked(g) => Linked(h)
  <2> SUFFICES ASSUME Linked(g) PROVE Linked(h)
    OBVIOUS
  <2>1. LeasesLinked(h)
    BY <1>2, <1>4, <1>5 DEF Linked, LeasesLinked
  <2>2. IndexLinked(h)
    BY <1>2 DEF Linked, IndexLinked
  <2>3. SessionsLinked(h)
    <3>1. ASSUME NEW u \in Live(g)
          PROVE  /\ \A l \in h.sessions[u].leaseIds :
                        h.leases[l] # NoLease /\ h.leases[l].session = u
                 /\ u \in h.held[h.sessions[u].peer]
      <4>1. g.sessions[u].peer \in Clients
        BY EntryTypes DEF Session
      <4> QED BY <1>2, <1>5, <1>7, <4>1 DEF Linked, SessionsLinked
    <3>2. /\ \A l \in h.sessions[s].leaseIds :
                 h.leases[l] # NoLease /\ h.leases[l].session = s
          /\ s \in h.held[h.sessions[s].peer]
      BY <1>6, <1>8
    <3> QED BY <1>4, <3>1, <3>2 DEF SessionsLinked
  <2> QED BY <2>1, <2>2, <2>3 DEF Linked
<1>10. \A d \in Clients : h.held[d] \subseteq g.held[d] \union {s}
  BY <1>2 DEF Registry
<1> QED BY <1>2, <1>3, <1>4, <1>5, <1>6, <1>9, <1>10

\* A session that changes hands keeps all but its owner (#openSession).
LEMMA TransferredLinked ==
    ASSUME NEW g \in Registry, NEW s \in Live(g), NEW c \in Clients, NEW peers \in SUBSET Clients,
           NEW h, h = Transferred(g, s, c, peers)
    PROVE  /\ h \in Registry
           /\ Live(h) = Live(g)
           /\ \A u \in Live(g) \ {s} : h.sessions[u] = g.sessions[u]
           /\ h.sessions[s].peer = c
           /\ h.sessions[s].gen = g.sessions[s].gen
           /\ h.sessions[s].task = g.sessions[s].task
           /\ h.sessions[s].leaseIds = g.sessions[s].leaseIds
           /\ h.leases = g.leases /\ h.index = g.index
           /\ \A d \in Clients : h.held[d] \subseteq g.held[d] \union {s}
           /\ s \in h.held[c]
           /\ \A d \in Clients : g.held[d] \ {s} \subseteq h.held[d]
           /\ Linked(g) => Linked(h)
<1> DEFINE old == g.sessions[s]
           new == [old EXCEPT !.peer = c, !.idle = FALSE]
           forgotten == [g.held EXCEPT ![old.peer] = IF old.peer \in peers THEN @ \ {s} ELSE @]
<1>0. old \in Session /\ s \in SessionIds
  BY EntryTypes
<1>1. new \in Session /\ new # NoSession
  BY <1>0, NothingAssumption DEF Session
<1>2. /\ h.sessions = [g.sessions EXCEPT ![s] = new]
      /\ h.leases = g.leases /\ h.index = g.index
      /\ h.held = [forgotten EXCEPT ![c] = @ \union {s}]
  BY DEF Transferred, Registry
<1>3. forgotten \in [Clients -> SUBSET SessionIds]
  BY <1>0 DEF Registry, Session
<1>4. h \in Registry
  BY <1>0, <1>1, <1>3, ZenonT(30) DEF Transferred, Registry
<1>5. \A d \in Clients : /\ h.held[d] \subseteq g.held[d] \union {s}
                         /\ g.held[d] \ {s} \subseteq h.held[d]
  <2>1. \A d \in Clients : /\ forgotten[d] \subseteq g.held[d]
                           /\ g.held[d] \ {s} \subseteq forgotten[d]
    BY <1>0 DEF Registry, Session
  <2> HIDE DEF forgotten
  <2> QED BY <1>2, <1>3, <2>1
<1>6. s \in h.held[c]
  BY <1>2, <1>3
<1>7. /\ \A u \in Live(g) \ {s} : h.sessions[u] = g.sessions[u]
      /\ h.sessions[s] = new
  <2>1. h.sessions = [g.sessions EXCEPT ![s] = new]
    BY <1>2
  <2> QED BY <1>0, <2>1, EntryTypes DEF Registry
<1>8. Live(h) = Live(g)
  BY <1>0, <1>1, <1>2 DEF Live, Registry
<1>9. Linked(g) => Linked(h)
  <2> SUFFICES ASSUME Linked(g) PROVE Linked(h)
    OBVIOUS
  <2>0. h.leases = g.leases /\ h.index = g.index
    BY <1>2
  <2>1. new.leaseIds = old.leaseIds /\ new.gen = old.gen /\ new.peer = c
    BY <1>0 DEF Session
  <2> HIDE DEF new, forgotten
  <2>2. LeasesLinked(h)
    <3> SUFFICES ASSUME NEW l \in LeaseIds, h.leases[l] # NoLease
                 PROVE  LET lease == h.leases[l] IN
                        /\ lease.session \in Live(h)
                        /\ l \in h.sessions[lease.session].leaseIds
                        /\ lease.gen = h.sessions[lease.session].gen
                        /\ h.index[lease.tab] = l
      BY DEF LeasesLinked
    <3>1. CASE g.leases[l].session = s
      BY <1>7, <1>8, <2>0, <2>1, <3>1 DEF Linked, LeasesLinked, old
    <3>2. CASE g.leases[l].session # s
      BY <1>7, <1>8, <2>0, <3>2 DEF Linked, LeasesLinked
    <3> QED BY <3>1, <3>2
  <2>3. IndexLinked(h)
    BY <2>0 DEF Linked, IndexLinked
  <2>4. SessionsLinked(h)
    <3>1. ASSUME NEW u \in Live(g) \ {s}
          PROVE  /\ \A l \in h.sessions[u].leaseIds :
                        h.leases[l] # NoLease /\ h.leases[l].session = u
                 /\ u \in h.held[h.sessions[u].peer]
      <4>1. g.sessions[u].peer \in Clients
        BY EntryTypes DEF Session
      <4> QED BY <1>5, <1>7, <2>0, <4>1 DEF Linked, SessionsLinked
    <3>2. /\ \A l \in h.sessions[s].leaseIds :
                 h.leases[l] # NoLease /\ h.leases[l].session = s
          /\ s \in h.held[h.sessions[s].peer]
      BY <1>6, <1>7, <2>0, <2>1 DEF Linked, SessionsLinked, old
    <3> QED BY <1>8, <3>1, <3>2 DEF SessionsLinked
  <2> QED BY <2>2, <2>3, <2>4 DEF Linked
<1>10. h.leases = g.leases /\ h.index = g.index
  BY <1>2
<1>11. /\ new.peer = c /\ new.gen = old.gen /\ new.task = old.task
       /\ new.leaseIds = old.leaseIds
  BY <1>0 DEF Session
<1> HIDE DEF new, forgotten
<1> QED BY <1>4, <1>5, <1>6, <1>7, <1>8, <1>9, <1>10, <1>11

-----------------------------------------------------------------------------
(* Deletion, in four parts: what is left of each structure.                *)

\* The deletion of sessions removes them, the leases they list, the index
\* entries of those, and their ids from the connections that are still
\* there (#deleteSession with #deleteLease).
LEMMA DeletedParts ==
    ASSUME NEW g \in Registry, NEW S, NEW peers
    PROVE  LET h == Deleted(g, S, peers)
               dropped == UNION {g.sessions[s].leaseIds : s \in S \intersect Live(g)} IN
           /\ h \in Registry
           /\ Live(h) = Live(g) \ S
           /\ \A s \in Live(h) : h.sessions[s] = g.sessions[s]
           /\ \A l \in LeaseIds : h.leases[l] = IF l \in dropped THEN NoLease ELSE g.leases[l]
           /\ \A t \in Tabs : h.index[t] \in {g.index[t], NoLeaseId}
           /\ \A c \in Clients : h.held[c] \subseteq g.held[c]
           /\ \A c \in Clients : \A s \in g.held[c] \intersect Live(h) : s \in h.held[c]
<1> DEFINE h == Deleted(g, S, peers)
           ended == S \intersect Live(g)
           dropped == UNION {g.sessions[s].leaseIds : s \in ended}
           Was(t, l) == l \in dropped /\ g.leases[l] # NoLease /\ g.leases[l].tab = t
           sessions == [s \in SessionIds |-> IF s \in ended THEN NoSession ELSE g.sessions[s]]
           leases == [l \in LeaseIds |-> IF l \in dropped THEN NoLease ELSE g.leases[l]]
           index == [t \in Tabs |-> IF Was(t, g.index[t]) THEN NoLeaseId ELSE g.index[t]]
           held == [c \in Clients |-> IF c \in peers
                                      THEN {s \in g.held[c] : s \notin ended \/ g.sessions[s].peer # c}
                                      ELSE g.held[c]]
<1>1. h = [sessions |-> sessions, leases |-> leases, index |-> index, held |-> held]
  BY DEF Deleted
<1>2. sessions \in [SessionIds -> Session \union {NoSession}]
  BY DEF Registry
<1>3. leases \in [LeaseIds -> Lease \union {NoLease}]
  BY DEF Registry
<1>4. index \in [Tabs -> LeaseIds \union {NoLeaseId}]
  BY DEF Registry
<1>5. held \in [Clients -> SUBSET SessionIds]
  BY DEF Registry
<1>6. Live(h) = Live(g) \ S
  BY <1>1 DEF Live
<1>7. \A s \in Live(h) : h.sessions[s] = g.sessions[s]
  BY <1>1, <1>6 DEF Live
<1>8. \A c \in Clients : h.held[c] \subseteq g.held[c]
  BY <1>1
<1>9. \A c \in Clients : \A s \in g.held[c] \intersect Live(h) : s \in h.held[c]
  BY <1>1, <1>6
<1>10. \A t \in Tabs : h.index[t] \in {g.index[t], NoLeaseId}
  BY <1>1
<1>11. \A l \in LeaseIds : h.leases[l] = IF l \in dropped THEN NoLease ELSE g.leases[l]
  BY <1>1
<1>12. h \in Registry
  <2> HIDE DEF h, sessions, leases, index, held
  <2> QED BY <1>1, <1>2, <1>3, <1>4, <1>5 DEF Registry
<1> QED BY <1>6, <1>7, <1>8, <1>9, <1>10, <1>11, <1>12

\* In a registry whose structures agree, the leases of the sessions that are
\* left stay, and so do their index entries; the others are gone from both.
LEMMA DeletedLinked ==
    ASSUME NEW g \in Registry, NEW S, NEW peers, Linked(g)
    PROVE  LET h == Deleted(g, S, peers) IN
           /\ Linked(h)
           /\ \A l \in LeaseIds :
                 h.leases[l] = IF g.leases[l] # NoLease /\ g.leases[l].session \notin S
                               THEN g.leases[l] ELSE NoLease
           /\ \A t \in Tabs :
                 h.index[t] = IF g.index[t] # NoLeaseId /\ g.leases[g.index[t]].session \notin S
                              THEN g.index[t] ELSE NoLeaseId
<1> DEFINE h == Deleted(g, S, peers)
           ended == S \intersect Live(g)
           dropped == UNION {g.sessions[s].leaseIds : s \in ended}
<1>1. \A l \in LeaseIds : g.leases[l] # NoLease =>
         (l \in dropped <=> g.leases[l].session \in S)
  <2> SUFFICES ASSUME NEW l \in LeaseIds, g.leases[l] # NoLease
               PROVE  l \in dropped <=> g.leases[l].session \in S
    OBVIOUS
  <2>1. ASSUME l \in dropped PROVE g.leases[l].session \in S
    BY <2>1 DEF Linked, SessionsLinked
  <2>2. ASSUME g.leases[l].session \in S PROVE l \in dropped
    BY <2>2 DEF Linked, LeasesLinked
  <2> QED BY <2>1, <2>2
<1>2. \A l \in LeaseIds :
         h.leases[l] = IF g.leases[l] # NoLease /\ g.leases[l].session \notin S
                       THEN g.leases[l] ELSE NoLease
  <2> HIDE DEF dropped
  <2>1. \A l \in LeaseIds : h.leases[l] = IF l \in dropped THEN NoLease ELSE g.leases[l]
    BY DeletedParts DEF dropped
  <2> QED BY <1>1, <2>1
<1>3. \A t \in Tabs :
         h.index[t] = IF g.index[t] # NoLeaseId /\ g.leases[g.index[t]].session \notin S
                      THEN g.index[t] ELSE NoLeaseId
  <2> SUFFICES ASSUME NEW t \in Tabs
               PROVE  h.index[t] = IF g.index[t] # NoLeaseId
                                      /\ g.leases[g.index[t]].session \notin S
                                   THEN g.index[t] ELSE NoLeaseId
    OBVIOUS
  <2> DEFINE l == g.index[t]
  <2>1. h.index[t] = IF l \in dropped /\ g.leases[l] # NoLease /\ g.leases[l].tab = t
                     THEN NoLeaseId ELSE l
    BY DEF Deleted
  <2>2. CASE l = NoLeaseId
    BY <2>1, <2>2
  <2>3. CASE l # NoLeaseId
    <3>1. l \in LeaseIds /\ g.leases[l] # NoLease /\ g.leases[l].tab = t
      BY <2>3 DEF Registry, Linked, IndexLinked
    <3> HIDE DEF h, dropped, l
    <3>2. h.index[t] = IF g.leases[l].session \notin S THEN l ELSE NoLeaseId
      BY <1>1, <2>1, <3>1
    <3> QED BY <2>3, <3>2 DEF l
  <2> QED BY <2>2, <2>3
<1>4. /\ h \in Registry
      /\ Live(h) = Live(g) \ S
      /\ \A s \in Live(h) : h.sessions[s] = g.sessions[s]
      /\ \A c \in Clients : \A s \in g.held[c] \intersect Live(h) : s \in h.held[c]
  BY DeletedParts
<1> HIDE DEF h, dropped, ended
<1>5. \A l \in LeaseIds : h.leases[l] # NoLease =>
         /\ h.leases[l] = g.leases[l]
         /\ g.leases[l] # NoLease
         /\ g.leases[l].session \in Live(h)
         /\ g.leases[l].tab \in Tabs
  BY <1>2, <1>4, EntryTypes DEF Linked, LeasesLinked, Lease
<1>6. LeasesLinked(h)
  <2> SUFFICES ASSUME NEW l \in LeaseIds, h.leases[l] # NoLease
               PROVE  LET lease == g.leases[l] IN
                      /\ l \in h.sessions[lease.session].leaseIds
                      /\ lease.gen = h.sessions[lease.session].gen
                      /\ h.index[lease.tab] = l
    BY <1>5 DEF LeasesLinked
  <2>1. g.index[g.leases[l].tab] = l /\ l # NoLeaseId
    BY <1>5, RegistryAssumption DEF Linked, LeasesLinked
  <2>2. h.index[g.leases[l].tab] = l
    BY <1>3, <1>4, <1>5, <2>1
  <2> QED BY <1>4, <1>5, <2>2 DEF Linked, LeasesLinked
<1>7. IndexLinked(h)
  <2> SUFFICES ASSUME NEW t \in Tabs, h.index[t] # NoLeaseId
               PROVE  h.leases[h.index[t]] # NoLease /\ h.leases[h.index[t]].tab = t
    BY DEF IndexLinked
  <2>1. h.index[t] = g.index[t] /\ g.index[t] \in LeaseIds
        /\ g.leases[g.index[t]].session \notin S
    BY <1>3 DEF Registry
  <2>2. g.leases[g.index[t]] # NoLease /\ g.leases[g.index[t]].tab = t
    BY <2>1, RegistryAssumption DEF Linked, IndexLinked
  <2> QED BY <1>2, <2>1, <2>2
<1>8. SessionsLinked(h)
  <2> SUFFICES ASSUME NEW s \in Live(h)
               PROVE  /\ \A l \in h.sessions[s].leaseIds :
                             h.leases[l] # NoLease /\ h.leases[l].session = s
                      /\ s \in h.held[h.sessions[s].peer]
    BY DEF SessionsLinked
  <2>1. s \in Live(g) /\ s \notin S /\ h.sessions[s] = g.sessions[s]
    BY <1>4
  <2>2. g.sessions[s].peer \in Clients /\ g.sessions[s].leaseIds \subseteq LeaseIds
    BY <2>1, EntryTypes DEF Session
  <2>3. \A l \in g.sessions[s].leaseIds : g.leases[l] # NoLease /\ g.leases[l].session = s
    BY <2>1 DEF Linked, SessionsLinked
  <2> QED BY <1>2, <1>4, <2>1, <2>2, <2>3 DEF Linked, SessionsLinked
<1>9. Linked(h)
  BY <1>6, <1>7, <1>8 DEF Linked
<1> QED BY <1>2, <1>3, <1>9 DEF h

-----------------------------------------------------------------------------
(* Leases                                                                  *)

\* A fresh lease on a free tab is listed by its session and by the index
\* (#acquireLease).
LEMMA GrantedLinked ==
    ASSUME NEW g \in Registry, NEW s \in Live(g), NEW t \in Tabs,
           NEW l \in LeaseIds, g.leases[l] = NoLease, Free(g, t),
           NEW h, h = Granted(g, l, s, t)
    PROVE  /\ h \in Registry
           /\ Live(h) = Live(g)
           /\ \A u \in Live(g) : /\ h.sessions[u].peer = g.sessions[u].peer
                                 /\ h.sessions[u].gen = g.sessions[u].gen
                                 /\ h.sessions[u].task = g.sessions[u].task
           /\ \A m \in LeaseIds \ {l} : h.leases[m] = g.leases[m]
           /\ h.leases[l] # NoLease
           /\ h.leases[l].session = s /\ h.leases[l].tab = t
           /\ \A r \in Tabs : h.index[r] = IF r = t THEN l ELSE g.index[r]
           /\ h.held = g.held
           /\ Linked(g) => Linked(h)
<1> DEFINE u0 == Used(g, s)
           lease == [session |-> s, tab |-> t, gen |-> g.sessions[s].gen]
           new == [u0.sessions[s] EXCEPT !.leaseIds = @ \union {l}]
<1>1. /\ u0 \in Registry /\ Live(u0) = Live(g)
      /\ u0.leases = g.leases /\ u0.index = g.index /\ u0.held = g.held
      /\ \A u \in Live(g) : /\ u0.sessions[u].peer = g.sessions[u].peer
                            /\ u0.sessions[u].gen = g.sessions[u].gen
                            /\ u0.sessions[u].task = g.sessions[u].task
                            /\ u0.sessions[u].leaseIds = g.sessions[u].leaseIds
      /\ Linked(g) => Linked(u0)
  BY TouchedLinked
<1>2. s \in SessionIds /\ g.sessions[s] \in Session /\ u0.sessions[s] \in Session
  BY <1>1, EntryTypes
<1>3. lease \in Lease /\ lease # NoLease
  BY <1>2, NothingAssumption DEF Session, Lease
<1>4. new \in Session /\ new # NoSession
  BY <1>2, NothingAssumption DEF Session
<1> HIDE DEF u0
<1>5. h = [u0 EXCEPT !.leases[l] = lease, !.index[t] = l,
                     !.sessions[s].leaseIds = @ \union {l}]
  BY DEF Granted, u0
<1>6. /\ h.sessions = [u0.sessions EXCEPT ![s] = new]
      /\ h.leases = [g.leases EXCEPT ![l] = lease]
      /\ h.index = [g.index EXCEPT ![t] = l]
      /\ h.held = g.held
  BY <1>1, <1>5 DEF Registry
<1>7. h \in Registry
  <2>1. h = [sessions |-> h.sessions, leases |-> h.leases, index |-> h.index, held |-> h.held]
    BY <1>1, <1>5 DEF Registry
  <2> HIDE DEF lease, new
  <2>2. h.sessions \in [SessionIds -> Session \union {NoSession}]
    BY <1>1, <1>2, <1>4, <1>6 DEF Registry
  <2>3. /\ h.leases \in [LeaseIds -> Lease \union {NoLease}]
        /\ h.index \in [Tabs -> LeaseIds \union {NoLeaseId}]
        /\ h.held \in [Clients -> SUBSET SessionIds]
    BY <1>3, <1>6 DEF Registry
  <2> QED BY <2>1, <2>2, <2>3 DEF Registry
<1> HIDE DEF lease, new
<1>8. Live(h) = Live(g)
  BY <1>1, <1>2, <1>4, <1>6 DEF Live, Registry
<1>9. /\ \A u \in Live(g) \ {s} : h.sessions[u] = u0.sessions[u]
      /\ h.sessions[s] = new
  BY <1>1, <1>2, <1>6, EntryTypes DEF Registry
<1>10. /\ new.peer = u0.sessions[s].peer /\ new.gen = u0.sessions[s].gen
       /\ new.task = u0.sessions[s].task
       /\ new.leaseIds = u0.sessions[s].leaseIds \union {l}
  BY <1>2 DEF new, Session
<1>11. \A u \in Live(g) : /\ h.sessions[u].peer = g.sessions[u].peer
                          /\ h.sessions[u].gen = g.sessions[u].gen
                          /\ h.sessions[u].task = g.sessions[u].task
                          /\ h.sessions[u].leaseIds =
                                g.sessions[u].leaseIds \union (IF u = s THEN {l} ELSE {})
  BY <1>1, <1>9, <1>10
<1>12. lease.session = s /\ lease.tab = t /\ lease.gen = g.sessions[s].gen
  BY DEF lease
<1>13. Linked(g) => Linked(h)
  <2> SUFFICES ASSUME Linked(g) PROVE Linked(h)
    OBVIOUS
  <2>1. LeasesLinked(h)
    <3> SUFFICES ASSUME NEW m \in LeaseIds, h.leases[m] # NoLease
                 PROVE  LET e == h.leases[m] IN
                        /\ e.session \in Live(h)
                        /\ m \in h.sessions[e.session].leaseIds
                        /\ e.gen = h.sessions[e.session].gen
                        /\ h.index[e.tab] = m
      BY DEF LeasesLinked
    <3>1. CASE m = l
      <4>1. h.leases[m] = lease /\ h.index[t] = l
        BY <1>6, <3>1 DEF Registry
      <4> QED BY <1>8, <1>11, <1>12, <3>1, <4>1
    <3>2. CASE m # l
      <4>1. h.leases[m] = g.leases[m] /\ g.leases[m] # NoLease
        BY <1>6, <3>2 DEF Registry
      <4>2. g.leases[m].tab \in Tabs /\ g.index[g.leases[m].tab] = m
        BY <4>1, EntryTypes DEF Linked, LeasesLinked, Lease
      <4>3. g.leases[m].tab # t
        BY <4>2, RegistryAssumption DEF Free
      <4>4. h.index[g.leases[m].tab] = m
        BY <1>6, <4>2, <4>3 DEF Registry
      <4> QED BY <1>8, <1>11, <4>1, <4>4 DEF Linked, LeasesLinked
    <3> QED BY <3>1, <3>2
  <2>2. IndexLinked(h)
    <3> SUFFICES ASSUME NEW r \in Tabs, h.index[r] # NoLeaseId
                 PROVE  h.leases[h.index[r]] # NoLease /\ h.leases[h.index[r]].tab = r
      BY DEF IndexLinked
    <3>1. CASE r = t
      <4>1. h.index[r] = l /\ h.leases[l] = lease
        BY <1>6, <3>1 DEF Registry
      <4> QED BY <1>3, <1>12, <3>1, <4>1
    <3>2. CASE r # t
      <4>1. h.index[r] = g.index[r] /\ g.index[r] \in LeaseIds
        BY <1>6, <3>2 DEF Registry
      <4>2. g.leases[g.index[r]] # NoLease /\ g.leases[g.index[r]].tab = r
        BY <4>1, RegistryAssumption DEF Linked, IndexLinked
      <4>3. h.leases[g.index[r]] = g.leases[g.index[r]]
        BY <1>6, <4>1, <4>2 DEF Registry
      <4> QED BY <4>1, <4>2, <4>3
    <3> QED BY <3>1, <3>2
  <2>3. SessionsLinked(h)
    <3> SUFFICES ASSUME NEW u \in Live(g)
                 PROVE  /\ \A m \in h.sessions[u].leaseIds :
                               h.leases[m] # NoLease /\ h.leases[m].session = u
                        /\ u \in h.held[h.sessions[u].peer]
      BY <1>8 DEF SessionsLinked
    <3>1. ASSUME NEW m \in h.sessions[u].leaseIds
          PROVE  h.leases[m] # NoLease /\ h.leases[m].session = u
      <4>0. g.sessions[u].leaseIds \subseteq LeaseIds
        BY EntryTypes DEF Session
      <4>1. CASE m \in g.sessions[u].leaseIds
        <5>1. m # l /\ m \in LeaseIds /\ g.leases[m] # NoLease /\ g.leases[m].session = u
          BY <4>0, <4>1 DEF Linked, SessionsLinked
        <5>2. h.leases[m] = g.leases[m]
          BY <1>6, <5>1 DEF Registry
        <5> QED BY <5>1, <5>2
      <4>2. CASE m \notin g.sessions[u].leaseIds
        <5>1. u = s /\ m = l
          BY <1>11, <3>1, <4>2
        <5>2. h.leases[m] = lease
          BY <1>6, <5>1 DEF Registry
        <5> QED BY <1>3, <1>12, <5>1, <5>2
      <4> QED BY <4>1, <4>2
    <3> QED BY <1>6, <1>11, <3>1 DEF Linked, SessionsLinked
  <2> QED BY <2>1, <2>2, <2>3 DEF Linked
<1>14. /\ \A m \in LeaseIds \ {l} : h.leases[m] = g.leases[m]
       /\ h.leases[l] = lease
       /\ \A r \in Tabs : h.index[r] = IF r = t THEN l ELSE g.index[r]
       /\ h.held = g.held
  BY <1>6 DEF Registry
<1> QED BY <1>3, <1>7, <1>8, <1>11, <1>12, <1>13, <1>14

\* A lease that is given up leaves its session's list and its tab's index
\* entry (#deleteLease).
LEMMA ReleasedLinked ==
    ASSUME NEW g \in Registry, NEW l \in LeaseIds, Linked(g),
           NEW h, h = Released(g, l)
    PROVE  /\ h \in Registry
           /\ Live(h) = Live(g)
           /\ \A u \in Live(g) : /\ h.sessions[u].peer = g.sessions[u].peer
                                 /\ h.sessions[u].gen = g.sessions[u].gen
                                 /\ h.sessions[u].task = g.sessions[u].task
           /\ \A m \in LeaseIds : h.leases[m] = IF m = l THEN NoLease ELSE g.leases[m]
           /\ \A t \in Tabs : h.index[t] = IF g.index[t] = l THEN NoLeaseId ELSE g.index[t]
           /\ h.held = g.held
           /\ Linked(h)
<1> DEFINE s == g.leases[l].session
           t == g.leases[l].tab
           new == [g.sessions[s] EXCEPT !.leaseIds = @ \ {l}]
<1>1. CASE g.leases[l] = NoLease
  <2>1. h = g
    BY <1>1 DEF Released
  <2>3. \A r \in Tabs : g.index[r] # l
    BY <1>1, RegistryAssumption DEF Linked, IndexLinked
  <2> QED BY <1>1, <2>1, <2>3
<1>2. CASE g.leases[l] # NoLease
  <2>1. /\ s \in Live(g) /\ s \in SessionIds /\ t \in Tabs
        /\ l \in g.sessions[s].leaseIds /\ g.index[t] = l
    BY <1>2, EntryTypes DEF Linked, LeasesLinked, Lease
  <2>2. g.sessions[s] \in Session /\ g.sessions[s] # NoSession
    BY <2>1, EntryTypes DEF Live
  <2>3. new \in Session /\ new # NoSession
    BY <2>2, NothingAssumption DEF Session
  <2>4. h = [g EXCEPT !.leases[l] = NoLease,
                      !.index[t] = IF @ = l THEN NoLeaseId ELSE @,
                      !.sessions[s] = Unlisted(@, l)]
    BY <1>2 DEF Released
  <2>5. /\ h.sessions = [g.sessions EXCEPT ![s] = new]
        /\ h.leases = [g.leases EXCEPT ![l] = NoLease]
        /\ h.index = [g.index EXCEPT ![t] = NoLeaseId]
        /\ h.held = g.held
    <3>1. Unlisted(g.sessions[s], l) = new
      BY <2>2 DEF Unlisted
    <3> QED BY <2>1, <2>4, <3>1 DEF Registry
  <2>6. h = [sessions |-> h.sessions, leases |-> h.leases, index |-> h.index, held |-> h.held]
    BY <2>4 DEF Registry
  <2>7. /\ new.peer = g.sessions[s].peer /\ new.gen = g.sessions[s].gen
        /\ new.task = g.sessions[s].task
        /\ new.leaseIds = g.sessions[s].leaseIds \ {l}
    BY <2>2 DEF Session
  <2> HIDE DEF new, s, t
  <2>8. h \in Registry
    <3>1. h.sessions \in [SessionIds -> Session \union {NoSession}]
      BY <2>1, <2>3, <2>5 DEF Registry
    <3>2. /\ h.leases \in [LeaseIds -> Lease \union {NoLease}]
          /\ h.index \in [Tabs -> LeaseIds \union {NoLeaseId}]
          /\ h.held \in [Clients -> SUBSET SessionIds]
      BY <2>5 DEF Registry
    <3> QED BY <2>6, <3>1, <3>2 DEF Registry
  <2>9. Live(h) = Live(g)
    BY <2>1, <2>2, <2>3, <2>5 DEF Live, Registry
  <2>10. /\ \A u \in Live(g) \ {s} : h.sessions[u] = g.sessions[u]
         /\ h.sessions[s] = new
    BY <2>1, <2>5, EntryTypes DEF Registry
  <2>11. \A u \in Live(g) : /\ h.sessions[u].peer = g.sessions[u].peer
                            /\ h.sessions[u].gen = g.sessions[u].gen
                            /\ h.sessions[u].task = g.sessions[u].task
    BY <2>7, <2>10
  <2>12. \A u \in Live(g) : h.sessions[u].leaseIds = g.sessions[u].leaseIds \ {l}
    <3> SUFFICES ASSUME NEW u \in Live(g) \ {s}
                 PROVE  h.sessions[u].leaseIds = g.sessions[u].leaseIds \ {l}
      BY <2>7, <2>10
    <3>1. l \notin g.sessions[u].leaseIds
      BY DEF Linked, SessionsLinked, s
    <3>2. g.sessions[u].leaseIds \subseteq LeaseIds
      BY EntryTypes DEF Session
    <3> QED BY <2>10, <3>1, <3>2
  <2>13. \A r \in Tabs : h.index[r] = IF g.index[r] = l THEN NoLeaseId ELSE g.index[r]
    <3> SUFFICES ASSUME NEW r \in Tabs
                 PROVE  h.index[r] = IF g.index[r] = l THEN NoLeaseId ELSE g.index[r]
      OBVIOUS
    <3>1. g.index[r] = l => r = t
      BY RegistryAssumption DEF Linked, IndexLinked, t
    <3> QED BY <2>1, <2>5, <3>1 DEF Registry
  <2>14. \A m \in LeaseIds : h.leases[m] = IF m = l THEN NoLease ELSE g.leases[m]
    BY <2>5 DEF Registry
  <2>15. LeasesLinked(h)
    <3> SUFFICES ASSUME NEW m \in LeaseIds, h.leases[m] # NoLease
                 PROVE  LET e == h.leases[m] IN
                        /\ e.session \in Live(h)
                        /\ m \in h.sessions[e.session].leaseIds
                        /\ e.gen = h.sessions[e.session].gen
                        /\ h.index[e.tab] = m
      BY DEF LeasesLinked
    <3>1. m # l /\ h.leases[m] = g.leases[m]
      BY <2>14
    <3>2. /\ g.leases[m].session \in Live(g)
          /\ m \in g.sessions[g.leases[m].session].leaseIds
          /\ g.leases[m].gen = g.sessions[g.leases[m].session].gen
          /\ g.index[g.leases[m].tab] = m
          /\ g.leases[m].tab \in Tabs
      BY <3>1, EntryTypes DEF Linked, LeasesLinked, Lease
    <3> QED BY <2>9, <2>11, <2>12, <2>13, <3>1, <3>2
  <2>16. IndexLinked(h)
    <3> SUFFICES ASSUME NEW r \in Tabs, h.index[r] # NoLeaseId
                 PROVE  h.leases[h.index[r]] # NoLease /\ h.leases[h.index[r]].tab = r
      BY DEF IndexLinked
    <3>1. h.index[r] = g.index[r] /\ g.index[r] # l /\ g.index[r] \in LeaseIds
      BY <2>13 DEF Registry
    <3> QED BY <2>14, <3>1 DEF Linked, IndexLinked
  <2>17. SessionsLinked(h)
    <3> SUFFICES ASSUME NEW u \in Live(g)
                 PROVE  /\ \A m \in h.sessions[u].leaseIds :
                               h.leases[m] # NoLease /\ h.leases[m].session = u
                        /\ u \in h.held[h.sessions[u].peer]
      BY <2>9 DEF SessionsLinked
    <3>1. g.sessions[u].leaseIds \subseteq LeaseIds
      BY EntryTypes DEF Session
    <3> QED BY <2>5, <2>11, <2>12, <2>14, <3>1 DEF Linked, SessionsLinked
  <2> QED BY <2>5, <2>8, <2>9, <2>11, <2>13, <2>14, <2>15, <2>16, <2>17 DEF Linked
<1> QED BY <1>1, <1>2

-----------------------------------------------------------------------------
(* The book under every action.                                            *)

Touch(s) ==
    /\ reg' = Used(reg, s) \/ reg' = Aged(reg, s)
    /\ UNCHANGED <<minted, granted>>

Enter(s, c, task) ==
    /\ client[c] = "up" /\ profile.connected
    /\ Matches(task) = {}
    /\ reg' = Opened(reg, s, c, task, profile.gen)
    /\ minted' = minted \union {s}
    /\ UNCHANGED granted

Pass(s, c) ==
    /\ client[c] = "up"
    /\ reg.sessions[s].leaseIds = {}
    /\ reg' = Transferred(reg, s, c, Peers)
    /\ UNCHANGED <<minted, granted>>

Leave(S) ==
    /\ reg' = Deleted(reg, S, Peers)
    /\ UNCHANGED <<minted, granted>>

Grant(s, t, l) ==
    /\ Free(reg, t)
    /\ reg' = Granted(reg, l, s, t)
    /\ granted' = granted \union {l}
    /\ UNCHANGED minted

GiveUp(l) ==
    /\ \E g \in {reg} \union {Used(reg, s) : s \in Live(reg)} : reg' = Released(g, l)
    /\ UNCHANGED <<minted, granted>>

\* The ways in which a step edits the book.
BookStep ==
    \/ UNCHANGED bookVars
    \/ \E s \in Live(reg) : Touch(s)
    \/ \E s \in SessionIds \ minted, c \in Clients, task \in Tasks \union {NoTask} :
          Enter(s, c, task)
    \/ \E s \in Live(reg), c \in Clients : Pass(s, c)
    \/ \E S \in SUBSET SessionIds : Leave(S)
    \/ \E s \in Live(reg), t \in Tabs, l \in LeaseIds \ granted : Grant(s, t, l)
    \/ \E l \in LeaseIds : GiveUp(l)

\* What is in the book was given; a session's profile was registered.
Minted ==
    /\ Live(reg) \subseteq minted
    /\ \A l \in LeaseIds : reg.leases[l] # NoLease => l \in granted

Registered ==
    /\ profile.connected \/ Live(reg) # {} => profile.gen # 0
    /\ profile.gen # 0 => profile.peer \in Relays

\* An operation works for a session of the generation it was admitted in,
\* under a lease when it has a target.
OpsAdmitted ==
    \A o \in Ops : op[o].phase # "free" =>
        /\ op[o].session \in minted
        /\ op[o].tab # NoTab => op[o].lease \in LeaseIds
        /\ op[o].session \in Live(reg) => op[o].gen = reg.sessions[op[o].session].gen

\* The inductive invariant.
LeaseInv ==
    /\ TypeOK
    /\ Linked(reg)
    /\ Minted
    /\ Registered
    /\ OneSessionPerTask
    /\ DepartedHoldNothing
    /\ OpsAdmitted

-----------------------------------------------------------------------------
(* Every step edits the book in one of these ways.                         *)

LEMMA ClientBook ==
    ASSUME TypeOK, NEW c \in Clients, ClientNext(c)
    PROVE  BookStep
<1>1. ASSUME NEW task \in Tasks \union {NoTask}, ReuseSession(c, task) PROVE BookStep
  BY <1>1 DEF ReuseSession, Matches, BookStep, Touch
<1>2. ASSUME NEW task \in Tasks \union {NoTask}, TakeOver(c, task) PROVE BookStep
  BY <1>2 DEF TakeOver, Matches, MayOpen, Transferable, BookStep, Pass
<1>3. ASSUME NEW task \in Tasks \union {NoTask}, NewSession(c, task) PROVE BookStep
  BY <1>3 DEF NewSession, MayOpen, BookStep, Enter
<1>4. ASSUME NEW s \in SessionIds, StaleRequest(c, s) PROVE BookStep
  BY <1>4 DEF StaleRequest, BookStep, Leave
<1>5. ASSUME NEW s \in SessionIds, CloseSession(c, s) PROVE BookStep
  BY <1>5 DEF CloseSession, Required, Owned, BookStep, Leave, Touch
<1>6. ASSUME NEW s \in SessionIds, NEW t \in Tabs, AcquireLease(c, s, t) PROVE BookStep
  BY <1>6 DEF AcquireLease, Required, Owned, BookStep, Touch, Grant
<1>7. ASSUME NEW s \in SessionIds, NEW o \in Ops, NEW t \in Tabs \union {NoTab},
             SubmitOp(o, c, s, t) PROVE BookStep
  BY <1>7 DEF SubmitOp, Required, Owned, BookStep, Touch
<1>8. ASSUME NEW l \in LeaseIds, ReleaseLease(c, l) PROVE BookStep
  BY <1>8 DEF ReleaseLease, Owned, BookStep, GiveUp
<1>9. CASE DisconnectClient(c)
  BY <1>9 DEF DisconnectClient, BookStep
<1>10. CASE FinishDisconnect(c)
  BY <1>10 DEF FinishDisconnect, BookStep, Leave, TypeOK, Registry
<1>11. CASE DisconnectFails(c)
  BY <1>11 DEF DisconnectFails, BookStep
<1> QED
  BY <1>1, <1>2, <1>3, <1>4, <1>5, <1>6, <1>7, <1>8, <1>9, <1>10, <1>11 DEF ClientNext

LEMMA OpBook ==
    ASSUME NEW o \in Ops, OpNext(o)
    PROVE  BookStep
<1>1. CASE SendOp(o)
  BY <1>1 DEF SendOp, Dispatchable, Required, Owned, BookStep, Touch
<1>2. CASE DropOp(o)
  BY <1>2 DEF DropOp, BookStep
<1>3. CASE EndOp(o)
  BY <1>3 DEF EndOp, BookStep
<1> QED BY <1>1, <1>2, <1>3 DEF OpNext

LEMMA SessionBook ==
    ASSUME NEW s \in SessionIds, SessionNext(s)
    PROVE  BookStep
<1>1. ASSUME NEW k \in Kinds, NextTab(s, k) PROVE BookStep
  BY <1>1 DEF NextTab, BookStep
<1>2. ASSUME NEW k \in Kinds, SendClose(s, k) PROVE BookStep
  BY <1>2 DEF SendClose, BookStep
<1>3. ASSUME NEW k \in Kinds, EndCleanup(s, k) PROVE BookStep
  BY <1>3 DEF EndCleanup, BookStep, Leave, bookVars
<1>4. CASE FinishExpiry(s)
  BY <1>4 DEF FinishExpiry, BookStep, Leave
<1>5. CASE GrowIdle(s)
  BY <1>5 DEF GrowIdle, BookStep, Touch
<1>6. CASE ExpireAtOnce(s)
  BY <1>6 DEF ExpireAtOnce, BookStep, Leave
<1>7. CASE BeginExpiry(s)
  <2>1. s \in Live(reg) /\ UNCHANGED <<minted, granted>>
    BY <1>7, Zenon DEF BeginExpiry, Expiring
  <2>2. reg' = reg \/ reg' = Deleted(reg, {s}, Peers) \/ reg' = Used(reg, s)
    BY <1>7, Zenon DEF BeginExpiry
  <2> QED BY <2>1, <2>2 DEF BookStep, Leave, Touch, bookVars
<1> QED
  BY <1>1, <1>2, <1>3, <1>4, <1>5, <1>6, <1>7 DEF SessionNext, CleanupNext

LEMMA RelayBook ==
    ASSUME TypeOK, NEW r \in Relays, RelayNext(r)
    PROVE  BookStep
<1>1. CASE FirstHello(r)
  BY <1>1 DEF FirstHello, BookStep
<1>2. ASSUME NEW gen \in 0 .. MaxGen, LaterHello(r, gen) PROVE BookStep
  BY <1>2 DEF LaterHello, InvalidateProfile, BookStep, Leave
<1>3. CASE InstallProfile(r)
  BY <1>3 DEF InstallProfile, BookStep
<1>4. CASE FinishHello(r)
  BY <1>4 DEF FinishHello, BookStep
<1>5. CASE HelloFails(r)
  BY <1>5 DEF HelloFails, BookStep
<1>6. ASSUME NEW t \in Tabs, TabRemoved(r, t) PROVE BookStep
  <2>1. CASE Free(reg, t)
    BY <1>6, <2>1 DEF TabRemoved, BookStep, bookVars
  <2>2. CASE ~Free(reg, t)
    <3>1. reg.index[t] \in LeaseIds
      BY <2>2 DEF TypeOK, Registry, Free
    <3> QED BY <1>6, <2>2, <3>1 DEF TabRemoved, BookStep, GiveUp
  <2> QED BY <2>1, <2>2
<1>7. CASE LoseRelay(r)
  BY <1>7 DEF LoseRelay, InvalidateProfile, BookStep, Leave, bookVars
<1> QED
  BY <1>1, <1>2, <1>3, <1>4, <1>5, <1>6, <1>7 DEF RelayNext

LEMMA NextBook ==
    ASSUME TypeOK, [Next]_vars
    PROVE  BookStep
<1>1. CASE Next
  BY <1>1, ClientBook, OpBook, SessionBook, RelayBook DEF Next
<1>2. CASE UNCHANGED vars
  BY <1>2 DEF vars, BookStep
<1> QED BY <1>1, <1>2

-----------------------------------------------------------------------------
(* The book: types, links, ids given.                                      *)

LEMMA PeersAreClients == Peers \in SUBSET Clients
BY DEF Peers

\* The session that is opened is of a generation there is.
LEMMA CurrentGen ==
    ASSUME TypeOK, Registered, profile.connected
    PROVE  profile.gen \in Gens /\ profile.peer \in Relays
BY RegistryAssumption DEF TypeOK, Profile, Registered, Gens

LEMMA BookLinked ==
    ASSUME TypeOK, Linked(reg), Minted, Registered, BookStep
    PROVE  /\ reg' \in Registry /\ Linked(reg')
           /\ minted' \subseteq SessionIds /\ granted' \subseteq LeaseIds
           /\ Minted'
<1>0. reg \in Registry /\ minted \subseteq SessionIds /\ granted \subseteq LeaseIds
  BY DEF TypeOK
<1>1. CASE UNCHANGED bookVars
  BY <1>0, <1>1 DEF bookVars, Minted, Live
<1>2. ASSUME NEW s \in Live(reg), Touch(s)
      PROVE  /\ reg' \in Registry /\ Linked(reg')
             /\ minted' \subseteq SessionIds /\ granted' \subseteq LeaseIds /\ Minted'
  <2>1. reg' \in Registry /\ Live(reg') = Live(reg) /\ reg'.leases = reg.leases /\ Linked(reg')
    BY <1>0, <1>2, TouchedLinked DEF Touch
  <2> QED BY <1>0, <1>2, <2>1 DEF Touch, Minted
<1>3. ASSUME NEW s \in SessionIds \ minted, NEW c \in Clients,
             NEW task \in Tasks \union {NoTask}, Enter(s, c, task)
      PROVE  /\ reg' \in Registry /\ Linked(reg')
             /\ minted' \subseteq SessionIds /\ granted' \subseteq LeaseIds /\ Minted'
  <2>1. s \notin Live(reg) /\ profile.gen \in Gens
    BY <1>3, CurrentGen DEF Minted, Enter
  <2>2. reg' = Opened(reg, s, c, task, profile.gen)
    BY <1>3 DEF Enter
  <2>3. /\ reg' \in Registry /\ Live(reg') = Live(reg) \union {s}
        /\ reg'.leases = reg.leases /\ Linked(reg')
    BY <1>0, <2>1, <2>2, OpenedLinked
  <2> QED BY <1>0, <1>3, <2>3 DEF Enter, Minted
<1>4. ASSUME NEW s \in Live(reg), NEW c \in Clients, Pass(s, c)
      PROVE  /\ reg' \in Registry /\ Linked(reg')
             /\ minted' \subseteq SessionIds /\ granted' \subseteq LeaseIds /\ Minted'
  <2>1. reg' = Transferred(reg, s, c, Peers)
    BY <1>4 DEF Pass
  <2>2. reg' \in Registry /\ Live(reg') = Live(reg) /\ reg'.leases = reg.leases /\ Linked(reg')
    BY <1>0, <2>1, TransferredLinked, PeersAreClients
  <2> QED BY <1>0, <1>4, <2>2 DEF Pass, Minted
<1>5. ASSUME NEW S \in SUBSET SessionIds, Leave(S)
      PROVE  /\ reg' \in Registry /\ Linked(reg')
             /\ minted' \subseteq SessionIds /\ granted' \subseteq LeaseIds /\ Minted'
  <2>1. reg' = Deleted(reg, S, Peers)
    BY <1>5 DEF Leave
  <2>2. reg' \in Registry /\ Live(reg') = Live(reg) \ S
    BY <1>0, <2>1, DeletedParts
  <2>3. /\ Linked(reg')
        /\ \A l \in LeaseIds : reg'.leases[l] # NoLease => reg.leases[l] # NoLease
    BY <1>0, <2>1, DeletedLinked
  <2> QED BY <1>0, <1>5, <2>2, <2>3 DEF Leave, Minted
<1>6. ASSUME NEW s \in Live(reg), NEW t \in Tabs, NEW l \in LeaseIds \ granted, Grant(s, t, l)
      PROVE  /\ reg' \in Registry /\ Linked(reg')
             /\ minted' \subseteq SessionIds /\ granted' \subseteq LeaseIds /\ Minted'
  <2>1. reg' = Granted(reg, l, s, t) /\ Free(reg, t) /\ reg.leases[l] = NoLease
    BY <1>6 DEF Grant, Minted
  <2>2. /\ reg' \in Registry /\ Live(reg') = Live(reg) /\ Linked(reg')
        /\ \A m \in LeaseIds \ {l} : reg'.leases[m] = reg.leases[m]
    BY <1>0, <2>1, GrantedLinked
  <2> QED BY <1>0, <1>6, <2>2 DEF Grant, Minted
<1>7. ASSUME NEW l \in LeaseIds, GiveUp(l)
      PROVE  /\ reg' \in Registry /\ Linked(reg')
             /\ minted' \subseteq SessionIds /\ granted' \subseteq LeaseIds /\ Minted'
  <2>1. PICK g \in {reg} \union {Used(reg, s) : s \in Live(reg)} : reg' = Released(g, l)
    BY <1>7 DEF GiveUp
  <2>2. g \in Registry /\ Linked(g) /\ Live(g) = Live(reg) /\ g.leases = reg.leases
    BY <1>0, <2>1, TouchedLinked
  <2>3. /\ reg' \in Registry /\ Live(reg') = Live(g) /\ Linked(reg')
        /\ \A m \in LeaseIds : reg'.leases[m] # NoLease => g.leases[m] # NoLease
    BY <2>1, <2>2, ReleasedLinked
  <2> QED BY <1>0, <1>7, <2>2, <2>3 DEF GiveUp, Minted
<1> QED BY <1>1, <1>2, <1>3, <1>4, <1>5, <1>6, <1>7 DEF BookStep

\* A session that was there before the step: it kept its generation and its
\* task, and its owner too unless it went to a client that is connected.
Stayed(s) ==
    /\ s \in Live(reg)
    /\ reg'.sessions[s].gen = reg.sessions[s].gen
    /\ reg'.sessions[s].task = reg.sessions[s].task
    /\ \/ reg'.sessions[s].peer = reg.sessions[s].peer
       \/ client[reg'.sessions[s].peer] = "up"

\* A session that has just been opened by a client that is connected, the
\* only one for its task.
Entered(s) ==
    /\ s \notin minted
    /\ reg'.sessions[s].gen = profile.gen
    /\ client[reg'.sessions[s].peer] = "up"
    /\ profile.connected
    /\ \A u \in Live(reg') \ {s} : u \in Live(reg) /\ reg'.sessions[u] = reg.sessions[u]
    /\ reg'.sessions[s].task # NoTask => Matches(reg'.sessions[s].task) = {}

\* A session that is there after a step stayed or has just been entered.
LEMMA BookSessions ==
    ASSUME TypeOK, Linked(reg), Minted, Registered, BookStep
    PROVE  \A s \in Live(reg') : Stayed(s) \/ Entered(s)
<1> SUFFICES ASSUME NEW s \in Live(reg') PROVE Stayed(s) \/ Entered(s)
  OBVIOUS
<1>0. reg \in Registry
  BY DEF TypeOK
<1>1. CASE UNCHANGED bookVars
  BY <1>1 DEF bookVars, Stayed
<1>2. ASSUME NEW u \in Live(reg), Touch(u) PROVE Stayed(s)
  BY <1>0, <1>2, TouchedLinked DEF Touch, Stayed
<1>3. ASSUME NEW u \in SessionIds \ minted, NEW c \in Clients,
             NEW task \in Tasks \union {NoTask}, Enter(u, c, task), ~Stayed(s)
      PROVE  Entered(s)
  <2>1. u \notin Live(reg) /\ profile.gen \in Gens /\ profile.connected /\ client[c] = "up"
    BY <1>3, CurrentGen DEF Minted, Enter
  <2>2. reg' = Opened(reg, u, c, task, profile.gen) /\ Matches(task) = {}
    BY <1>3 DEF Enter
  <2>3. /\ Live(reg') = Live(reg) \union {u}
        /\ \A v \in Live(reg) : v # u /\ reg'.sessions[v] = reg.sessions[v]
        /\ reg'.sessions[u].peer = c /\ reg'.sessions[u].gen = profile.gen
        /\ reg'.sessions[u].task = task
    BY <1>0, <2>1, <2>2, OpenedLinked
  <2>4. s = u
    BY <1>3, <2>3 DEF Stayed
  <2> QED BY <2>1, <2>2, <2>3, <2>4 DEF Entered
<1>4. ASSUME NEW u \in Live(reg), NEW c \in Clients, Pass(u, c) PROVE Stayed(s)
  <2>1. reg' = Transferred(reg, u, c, Peers) /\ client[c] = "up"
    BY <1>4 DEF Pass
  <2>2. /\ Live(reg') = Live(reg)
        /\ \A v \in Live(reg) \ {u} : reg'.sessions[v] = reg.sessions[v]
        /\ reg'.sessions[u].peer = c /\ reg'.sessions[u].gen = reg.sessions[u].gen
        /\ reg'.sessions[u].task = reg.sessions[u].task
    BY <1>0, <2>1, TransferredLinked, PeersAreClients
  <2> QED BY <2>1, <2>2 DEF Stayed
<1>5. ASSUME NEW S \in SUBSET SessionIds, Leave(S) PROVE Stayed(s)
  <2>1. Live(reg') = Live(reg) \ S /\ reg'.sessions[s] = reg.sessions[s]
    BY <1>0, <1>5, DeletedParts DEF Leave
  <2> QED BY <2>1 DEF Stayed
<1>6. ASSUME NEW u \in Live(reg), NEW t \in Tabs, NEW l \in LeaseIds \ granted, Grant(u, t, l)
      PROVE  Stayed(s)
  BY <1>0, <1>6, GrantedLinked DEF Grant, Minted, Stayed
<1>7. ASSUME NEW l \in LeaseIds, GiveUp(l) PROVE Stayed(s)
  <2>1. PICK g \in {reg} \union {Used(reg, u) : u \in Live(reg)} : reg' = Released(g, l)
    BY <1>7 DEF GiveUp
  <2>2. /\ g \in Registry /\ Linked(g) /\ Live(g) = Live(reg)
        /\ \A u \in Live(reg) : /\ g.sessions[u].peer = reg.sessions[u].peer
                                /\ g.sessions[u].gen = reg.sessions[u].gen
                                /\ g.sessions[u].task = reg.sessions[u].task
    BY <1>0, <2>1, TouchedLinked
  <2>3. /\ Live(reg') = Live(g)
        /\ \A u \in Live(g) : /\ reg'.sessions[u].peer = g.sessions[u].peer
                              /\ reg'.sessions[u].gen = g.sessions[u].gen
                              /\ reg'.sessions[u].task = g.sessions[u].task
    BY <2>1, <2>2, ReleasedLinked
  <2> QED BY <2>2, <2>3 DEF Stayed
<1> QED BY <1>1, <1>2, <1>3, <1>4, <1>5, <1>6, <1>7 DEF BookStep

-----------------------------------------------------------------------------
(* The other variables keep their types.                                   *)

\* What TypeOK says of the connections and the profile.
PeersTyped ==
    /\ client \in [Clients -> {"up", "leaving", "gone"}]
    /\ relay \in [Relays -> {"new", "up", "gone"}]
    /\ claims \subseteq Relays
    /\ profile \in Profile
    /\ gens \in 0 .. MaxGen
    /\ hello \in [Relays -> Hello]

\* A profile that is connected has a generation, keeps it or gets another,
\* and then names the relay it came from.
ProfileKept ==
    /\ profile'.connected \/ profile.gen # 0 => profile'.gen # 0
    /\ profile'.gen # 0 => profile'.peer \in Relays

LEMMA PeersKept ==
    ASSUME TypeOK, Registered, UNCHANGED peerVars
    PROVE  PeersTyped' /\ ProfileKept
BY DEF TypeOK, Registered, peerVars, PeersTyped, ProfileKept

LEMMA ClientPeers ==
    ASSUME TypeOK, Registered, NEW c \in Clients, ClientNext(c)
    PROVE  PeersTyped' /\ ProfileKept
<1>1. ASSUME NEW task \in Tasks \union {NoTask},
             ReuseSession(c, task) \/ TakeOver(c, task) \/ NewSession(c, task)
      PROVE  UNCHANGED peerVars
  BY <1>1 DEF ReuseSession, TakeOver, NewSession
<1>2. ASSUME NEW s \in SessionIds, StaleRequest(c, s) \/ CloseSession(c, s)
      PROVE  UNCHANGED peerVars
  BY <1>2 DEF StaleRequest, CloseSession
<1>3. ASSUME NEW s \in SessionIds, NEW t \in Tabs, AcquireLease(c, s, t)
      PROVE  UNCHANGED peerVars
  BY <1>3 DEF AcquireLease
<1>4. ASSUME NEW s \in SessionIds, NEW o \in Ops, NEW t \in Tabs \union {NoTab},
             SubmitOp(o, c, s, t)
      PROVE  UNCHANGED peerVars
  BY <1>4 DEF SubmitOp
<1>5. ASSUME NEW l \in LeaseIds, ReleaseLease(c, l)
      PROVE  UNCHANGED peerVars
  BY <1>5 DEF ReleaseLease
<1>6. ASSUME DisconnectClient(c) \/ FinishDisconnect(c) \/ DisconnectFails(c)
      PROVE  PeersTyped' /\ ProfileKept
  BY <1>6 DEF DisconnectClient, FinishDisconnect, DisconnectFails, TypeOK, Registered,
              PeersTyped, ProfileKept
<1> QED
  BY <1>1, <1>2, <1>3, <1>4, <1>5, <1>6, PeersKept DEF ClientNext

LEMMA WorkPeers ==
    ASSUME TypeOK, Registered,
           (\E o \in Ops : OpNext(o)) \/ (\E s \in SessionIds : SessionNext(s))
    PROVE  PeersTyped' /\ ProfileKept
<1>1. ASSUME NEW o \in Ops, OpNext(o) PROVE UNCHANGED peerVars
  BY <1>1 DEF OpNext, SendOp, DropOp, EndOp
<1>2. ASSUME NEW s \in SessionIds, NEW k \in Kinds, CleanupNext(s, k)
      PROVE  UNCHANGED peerVars
  BY <1>2 DEF CleanupNext, NextTab, SendClose, EndCleanup
<1>3. ASSUME NEW s \in SessionIds, FinishExpiry(s) \/ GrowIdle(s) \/ ExpireAtOnce(s)
      PROVE  UNCHANGED peerVars
  BY <1>3 DEF FinishExpiry, GrowIdle, ExpireAtOnce
<1>4. ASSUME NEW s \in SessionIds, BeginExpiry(s) PROVE UNCHANGED peerVars
  BY <1>4, Zenon DEF BeginExpiry
<1> QED BY <1>1, <1>2, <1>3, <1>4, PeersKept DEF SessionNext

LEMMA RelayPeers ==
    ASSUME TypeOK, Registered, NEW r \in Relays, RelayNext(r)
    PROVE  PeersTyped' /\ ProfileKept
<1>0. MaxGen \in Nat \ {0}
  BY RegistryAssumption
<1>1. CASE FirstHello(r)
  BY <1>0, <1>1 DEF FirstHello, TypeOK, PeersTyped, ProfileKept, Profile, Hello
<1>2. ASSUME NEW gen \in 0 .. MaxGen, LaterHello(r, gen)
      PROVE  PeersTyped' /\ ProfileKept
  BY <1>2 DEF LaterHello, TypeOK, Registered, PeersTyped, ProfileKept, Hello
<1>3. CASE InstallProfile(r)
  <2> DEFINE gen == IF hello[r].gen = 0 THEN gens + 1 ELSE hello[r].gen
  <2>1. hello[r] \in Hello /\ gens \in 0 .. MaxGen /\ (hello[r].gen = 0 => gens < MaxGen)
    BY <1>3 DEF InstallProfile, TypeOK
  <2>2. gen \in 0 .. MaxGen /\ gen # 0
    BY <1>0, <2>1 DEF Hello
  <2>3. /\ profile' = [connected |-> TRUE, peer |-> r, gen |-> gen]
        /\ hello' = [hello EXCEPT ![r] = [phase |-> "recording", gen |-> gen]]
        /\ gens' \in {gens, gen} /\ UNCHANGED <<client, relay, claims>>
    BY <1>3 DEF InstallProfile
  <2> HIDE DEF gen
  <2> QED BY <2>2, <2>3 DEF TypeOK, PeersTyped, ProfileKept, Profile, Hello
<1>4. CASE FinishHello(r)
  BY <1>0, <1>4 DEF FinishHello, TypeOK, Registered, PeersTyped, ProfileKept, Hello, NoHello
<1>5. CASE HelloFails(r)
  BY <1>0, <1>5 DEF HelloFails, TypeOK, Registered, PeersTyped, ProfileKept, Hello, NoHello
<1>6. ASSUME NEW t \in Tabs, TabRemoved(r, t) PROVE PeersTyped' /\ ProfileKept
  BY <1>6, PeersKept DEF TabRemoved
<1>7. CASE LoseRelay(r)
  <2>1. /\ relay' = [relay EXCEPT ![r] = "gone"]
        /\ profile' = profile \/ profile' = [profile EXCEPT !.connected = FALSE]
        /\ UNCHANGED <<client, claims, gens, hello>>
    BY <1>7 DEF LoseRelay
  <2> QED BY <2>1 DEF TypeOK, Registered, PeersTyped, ProfileKept, Profile
<1> QED BY <1>1, <1>2, <1>3, <1>4, <1>5, <1>6, <1>7 DEF RelayNext

LEMMA NextPeers ==
    ASSUME TypeOK, Registered, [Next]_vars
    PROVE  PeersTyped' /\ ProfileKept
<1>1. CASE Next
  BY <1>1, ClientPeers, WorkPeers, RelayPeers DEF Next
<1>2. CASE UNCHANGED vars
  BY <1>2, PeersKept DEF vars, peerVars
<1> QED BY <1>1, <1>2

-----------------------------------------------------------------------------
(* Operations and cleanups keep their types, and operations their session. *)

WorkTyped ==
    /\ op \in [Ops -> Op \union {FreeOp}]
    /\ cleanup \in [SessionIds \X Kinds -> Cleanup \union {NoCleanup}]
    /\ tabTask \in [Tabs -> Tasks \union {NoTask}]

\* An operation that is under way was so before, for the same session in the
\* same generation, or has just been admitted for a current session.
OpKept(o) ==
    op'[o].phase # "free" =>
        \/ /\ op[o].phase # "free"
           /\ op'[o].session = op[o].session /\ op'[o].gen = op[o].gen
           /\ op'[o].tab = op[o].tab /\ op'[o].lease = op[o].lease
        \/ /\ op'[o].session \in Live(reg)
           /\ op'[o].gen = reg.sessions[op'[o].session].gen
           /\ op'[o].tab # NoTab => op'[o].lease \in LeaseIds

WorkStep == WorkTyped' /\ \A o \in Ops : OpKept(o)

LEMMA SlotTypes ==
    ASSUME TypeOK
    PROVE  /\ \A o \in Ops : op[o].phase # "free" => op[o] \in Op
           /\ \A s \in SessionIds, k \in Kinds :
                 cleanup[<<s, k>>].phase # "none" => cleanup[<<s, k>>] \in Cleanup
<1>1. ASSUME NEW o \in Ops, op[o].phase # "free" PROVE op[o] \in Op
  BY <1>1 DEF TypeOK, FreeOp
<1>2. ASSUME NEW s \in SessionIds, NEW k \in Kinds, cleanup[<<s, k>>].phase # "none"
      PROVE  cleanup[<<s, k>>] \in Cleanup
  <2>1. <<s, k>> \in SessionIds \X Kinds
    OBVIOUS
  <2> QED BY <1>2, <2>1 DEF TypeOK, NoCleanup
<1> QED BY <1>1, <1>2

LEMMA WorkKept ==
    ASSUME TypeOK, UNCHANGED <<op, cleanup, tabTask>>
    PROVE  WorkStep
BY DEF TypeOK, WorkTyped, WorkStep, OpKept

\* A cleanup that goes on.
LEMMA CleanupKept ==
    ASSUME TypeOK, NEW s \in SessionIds, NEW k \in Kinds,
           NEW new \in Cleanup \union {NoCleanup},
           cleanup' = [cleanup EXCEPT ![<<s, k>>] = new],
           UNCHANGED <<op, tabTask>>
    PROVE  WorkStep
<1>1. <<s, k>> \in SessionIds \X Kinds
  OBVIOUS
<1>2. cleanup' \in [SessionIds \X Kinds -> Cleanup \union {NoCleanup}]
  BY <1>1 DEF TypeOK
<1> QED BY <1>2 DEF TypeOK, WorkTyped, WorkStep, OpKept

LEMMA RejectKept ==
    ASSUME TypeOK, NEW S, Reject(S)
    PROVE  /\ op' \in [Ops -> Op \union {FreeOp}]
           /\ cleanup' \in [SessionIds \X Kinds -> Cleanup \union {NoCleanup}]
           /\ \A o \in Ops : OpKept(o)
<1>1. op' \in [Ops -> Op \union {FreeOp}] /\ \A o \in Ops : OpKept(o)
  BY DEF Reject, TypeOK, OpKept, FreeOp
<1>2. ASSUME NEW sk \in SessionIds \X Kinds
      PROVE  cleanup'[sk] \in Cleanup \union {NoCleanup}
  <2> DEFINE old == cleanup[sk]
             todo == IF old.phase = "listing" THEN {} ELSE old.todo
             new == [old EXCEPT !.todo = todo, !.phase = "preparing", !.tab = NoTab]
  <2>1. old \in Cleanup \union {NoCleanup}
    BY DEF TypeOK
  <2>2. \/ cleanup'[sk] = old
        \/ old.phase \in {"listing", "closing"} /\ cleanup'[sk] = new
    BY DEF Reject
  <2>3. ASSUME old.phase \in {"listing", "closing"} PROVE new \in Cleanup
    <3>1. old \in Cleanup
      BY <2>1, <2>3 DEF NoCleanup
    <3> QED BY <3>1 DEF Cleanup, Phases
  <2> QED BY <2>1, <2>2, <2>3
<1>3. cleanup' = [sk \in SessionIds \X Kinds |-> cleanup'[sk]]
  BY DEF Reject
<1> QED BY <1>1, <1>2, <1>3

\* A cleanup that begins captures the profile's record.
LEMMA ListingTypes ==
    ASSUME TypeOK, Registered, NEW s \in Live(reg), NEW c \in Clients
    PROVE  /\ Listing(s, c) \in Cleanup
           /\ [Listing(s, c) EXCEPT !.phase = "detaching"] \in Cleanup
<1>1. profile.gen \in Gens /\ profile.peer \in Relays
  BY RegistryAssumption DEF TypeOK, Profile, Registered, Gens
<1>2. Entries(s) \in SUBSET Tabs
  BY DEF Entries
<1> QED BY <1>1, <1>2 DEF Listing, Cleanup, Phases

LEMMA OpWork ==
    ASSUME TypeOK, NEW o \in Ops, OpNext(o)
    PROVE  WorkStep
<1>1. CASE SendOp(o)
  <2>1. op[o] \in Op /\ op[o].phase = "queued"
    BY <1>1, SlotTypes DEF SendOp
  <2>2. op' = [op EXCEPT ![o] = [op[o] EXCEPT !.phase = "sent"]] /\ UNCHANGED <<cleanup, tabTask>>
    BY <1>1 DEF SendOp
  <2>3. [op[o] EXCEPT !.phase = "sent"] \in Op
    BY <2>1 DEF Op
  <2>4. op' \in [Ops -> Op \union {FreeOp}]
    BY <2>2, <2>3 DEF TypeOK
  <2>5. \A p \in Ops : OpKept(p)
    BY <2>1, <2>2 DEF TypeOK, OpKept, Op
  <2> QED BY <2>2, <2>4, <2>5 DEF TypeOK, WorkTyped, WorkStep
<1>2. CASE DropOp(o)
  BY <1>2 DEF DropOp, TypeOK, WorkTyped, WorkStep, OpKept, FreeOp
<1>3. CASE EndOp(o)
  <2>1. op[o] \in Op
    BY <1>3, SlotTypes DEF EndOp
  <2>2. op[o].task \in Tasks \union {NoTask}
    BY <2>1 DEF Op
  <2>3. op' = [op EXCEPT ![o] = FreeOp] /\ UNCHANGED cleanup
    BY <1>3 DEF EndOp
  <2>4. tabTask' = tabTask \/ \E t \in Tabs : tabTask' = [tabTask EXCEPT ![t] = op[o].task]
    BY <1>3 DEF EndOp
  <2>5. tabTask' \in [Tabs -> Tasks \union {NoTask}]
    BY <2>2, <2>4 DEF TypeOK
  <2>6. op' \in [Ops -> Op \union {FreeOp}] /\ \A p \in Ops : OpKept(p)
    BY <2>3 DEF TypeOK, OpKept, FreeOp
  <2> QED BY <2>3, <2>5, <2>6 DEF TypeOK, WorkTyped, WorkStep
<1> QED BY <1>1, <1>2, <1>3 DEF OpNext

LEMMA SessionWork ==
    ASSUME TypeOK, Registered, NEW s \in SessionIds, SessionNext(s)
    PROVE  WorkStep
<1>1. ASSUME NEW k \in Kinds, NextTab(s, k) PROVE WorkStep
  <2> DEFINE old == cleanup[<<s, k>>]
  <2>1. old \in Cleanup /\ UNCHANGED <<op, tabTask>>
    BY <1>1, SlotTypes DEF NextTab
  <2>2. PICK t \in old.todo, skipped \in SUBSET old.todo :
           cleanup' = [cleanup EXCEPT ![<<s, k>>] = Picked(old, t, skipped)]
    BY <1>1 DEF NextTab
  <2>3. Picked(old, t, skipped) \in Cleanup
    BY <2>1, <2>2 DEF Picked, Cleanup, Phases
  <2> QED BY <2>1, <2>2, <2>3, CleanupKept
<1>2. ASSUME NEW k \in Kinds, SendClose(s, k) PROVE WorkStep
  <2> DEFINE old == cleanup[<<s, k>>]
             new == [old EXCEPT !.phase = "closing"]
  <2>1. old \in Cleanup
    BY <1>2, SlotTypes DEF SendClose
  <2>2. new \in Cleanup
    BY <2>1 DEF Cleanup, Phases
  <2>3. cleanup' = [cleanup EXCEPT ![<<s, k>>] = new] /\ UNCHANGED <<op, tabTask>>
    BY <1>2 DEF SendClose
  <2> HIDE DEF new
  <2> QED BY <2>2, <2>3, CleanupKept
<1>3. ASSUME NEW k \in Kinds, EndCleanup(s, k) PROVE WorkStep
  <2> DEFINE old == cleanup[<<s, k>>]
             new == IF k = "close" THEN NoCleanup ELSE [old EXCEPT !.phase = "detaching"]
  <2>1. old \in Cleanup
    BY <1>3, SlotTypes DEF EndCleanup
  <2>2. new \in Cleanup \union {NoCleanup}
    BY <2>1 DEF Cleanup, Phases
  <2>3. cleanup' = [cleanup EXCEPT ![<<s, k>>] = new] /\ UNCHANGED <<op, tabTask>>
    BY <1>3 DEF EndCleanup
  <2> HIDE DEF new
  <2> QED BY <2>2, <2>3, CleanupKept
<1>4. CASE FinishExpiry(s)
  BY <1>4, CleanupKept DEF FinishExpiry, Kinds
<1>5. CASE GrowIdle(s) \/ ExpireAtOnce(s)
  BY <1>5, WorkKept DEF GrowIdle, ExpireAtOnce, workVars
<1>6. CASE BeginExpiry(s)
  <2> DEFINE listing == Listing(s, reg.sessions[s].peer)
             nothing == [listing EXCEPT !.phase = "detaching"]
  <2>1. s \in Live(reg) /\ reg.sessions[s].peer \in Clients
    BY <1>6, EntryTypes, Zenon DEF BeginExpiry, Expiring, TypeOK, Session
  <2>2. listing \in Cleanup /\ nothing \in Cleanup
    BY <2>1, ListingTypes
  <2>3. /\ \/ cleanup' = [cleanup EXCEPT ![<<s, "expiry">>] = nothing]
           \/ cleanup' = [cleanup EXCEPT ![<<s, "expiry">>] =
                             IF relay[profile.peer] = "up" THEN listing ELSE nothing]
        /\ UNCHANGED <<op, tabTask>>
    BY <1>6, Zenon DEF BeginExpiry
  <2> HIDE DEF listing, nothing
  <2>4. \E new \in Cleanup : cleanup' = [cleanup EXCEPT ![<<s, "expiry">>] = new]
    BY <2>2, <2>3
  <2> QED BY <2>3, <2>4, CleanupKept DEF Kinds
<1> QED
  BY <1>1, <1>2, <1>3, <1>4, <1>5, <1>6 DEF SessionNext, CleanupNext

LEMMA ClientWork ==
    ASSUME TypeOK, Registered, NEW c \in Clients, ClientNext(c)
    PROVE  WorkStep
<1>1. ASSUME NEW task \in Tasks \union {NoTask},
             ReuseSession(c, task) \/ TakeOver(c, task) \/ NewSession(c, task)
      PROVE  WorkStep
  BY <1>1, WorkKept DEF ReuseSession, TakeOver, NewSession, workVars
<1>2. ASSUME NEW s \in SessionIds, StaleRequest(c, s) PROVE WorkStep
  BY <1>2, WorkKept DEF StaleRequest, workVars
<1>3. ASSUME NEW s \in SessionIds, CloseSession(c, s) PROVE WorkStep
  <2>1. CASE UNCHANGED cleanup
    BY <1>3, <2>1, WorkKept DEF CloseSession
  <2>2. CASE cleanup' = [cleanup EXCEPT ![<<s, "close">>] = Listing(s, c)]
    <3>1. s \in Live(reg) /\ UNCHANGED <<op, tabTask>>
      BY <1>3 DEF CloseSession, Required, Owned
    <3>2. Listing(s, c) \in Cleanup
      BY <3>1, ListingTypes
    <3> QED BY <2>2, <3>1, <3>2, CleanupKept DEF Kinds
  <2> QED BY <1>3, <2>1, <2>2 DEF CloseSession
<1>4. ASSUME NEW s \in SessionIds, NEW t \in Tabs, AcquireLease(c, s, t)
      PROVE  WorkStep
  BY <1>4, WorkKept DEF AcquireLease, workVars
<1>5. ASSUME NEW s \in SessionIds, NEW o \in Ops, NEW t \in Tabs \union {NoTab},
             SubmitOp(o, c, s, t)
      PROVE  WorkStep
  <2> DEFINE new == [phase |-> "queued", client |-> c, session |-> s,
                     task |-> reg.sessions[s].task, tab |-> t,
                     lease |-> IF t = NoTab THEN NoLeaseId ELSE reg.index[t],
                     gen |-> profile.gen, relay |-> profile.peer]
  <2>1. s \in Live(reg) /\ profile.gen = reg.sessions[s].gen /\ profile.connected
    BY <1>5 DEF SubmitOp, Required, Owned, Current
  <2>2. reg.sessions[s].task \in Tasks \union {NoTask}
    BY <2>1, EntryTypes DEF TypeOK, Session
  <2>3. (IF t = NoTab THEN NoLeaseId ELSE reg.index[t]) \in LeaseIds \union {NoLeaseId}
    BY DEF TypeOK, Registry
  <2>4. new \in Op
    BY <2>1, <2>2, <2>3, CurrentGen DEF Op
  <2>5. op' = [op EXCEPT ![o] = new] /\ UNCHANGED <<cleanup, tabTask>>
    BY <1>5 DEF SubmitOp
  <2>6. /\ new.session = s /\ new.gen = profile.gen
        /\ new.tab # NoTab => new.lease \in LeaseIds
    BY <1>5 DEF SubmitOp, Holds, TypeOK, Registry
  <2> HIDE DEF new
  <2>7. op' \in [Ops -> Op \union {FreeOp}]
    BY <2>4, <2>5 DEF TypeOK
  <2>8. \A p \in Ops : OpKept(p)
    BY <2>1, <2>5, <2>6 DEF TypeOK, OpKept
  <2> QED BY <2>5, <2>7, <2>8 DEF TypeOK, WorkTyped, WorkStep
<1>6. ASSUME NEW l \in LeaseIds, ReleaseLease(c, l) PROVE WorkStep
  BY <1>6, WorkKept DEF ReleaseLease, workVars
<1>7. CASE DisconnectClient(c)
  <2>1. Reject(reg.held[c]) /\ UNCHANGED tabTask
    BY <1>7 DEF DisconnectClient
  <2> QED BY <2>1, RejectKept DEF TypeOK, WorkTyped, WorkStep
<1>8. CASE FinishDisconnect(c) \/ DisconnectFails(c)
  BY <1>8, WorkKept DEF FinishDisconnect, DisconnectFails, workVars
<1> QED
  BY <1>1, <1>2, <1>3, <1>4, <1>5, <1>6, <1>7, <1>8 DEF ClientNext

LEMMA RelayWork ==
    ASSUME TypeOK, NEW r \in Relays, RelayNext(r)
    PROVE  WorkStep
<1>1. CASE FirstHello(r) \/ FinishHello(r) \/ HelloFails(r)
  BY <1>1, WorkKept DEF FirstHello, FinishHello, HelloFails, workVars
<1>2. ASSUME NEW gen \in 0 .. MaxGen, LaterHello(r, gen) PROVE WorkStep
  <2>1. Reject(SessionIds) /\ UNCHANGED tabTask
    BY <1>2 DEF LaterHello, InvalidateProfile
  <2> QED BY <2>1, RejectKept DEF TypeOK, WorkTyped, WorkStep
<1>3. CASE InstallProfile(r)
  <2>1. UNCHANGED <<op, cleanup>> /\ tabTask' \in {tabTask, [t \in Tabs |-> NoTask]}
    BY <1>3 DEF InstallProfile
  <2>2. tabTask' \in [Tabs -> Tasks \union {NoTask}]
    BY <2>1 DEF TypeOK
  <2> QED BY <2>1, <2>2 DEF TypeOK, WorkTyped, WorkStep, OpKept
<1>4. ASSUME NEW t \in Tabs, TabRemoved(r, t) PROVE WorkStep
  BY <1>4 DEF TabRemoved, TypeOK, WorkTyped, WorkStep, OpKept
<1>5. CASE LoseRelay(r)
  <2>1. Reject(SessionIds) \/ UNCHANGED <<op, cleanup>>
    BY <1>5 DEF LoseRelay, InvalidateProfile
  <2>2. UNCHANGED tabTask
    BY <1>5 DEF LoseRelay
  <2> QED BY <2>1, <2>2, RejectKept, WorkKept DEF TypeOK, WorkTyped, WorkStep
<1> QED BY <1>1, <1>2, <1>3, <1>4, <1>5 DEF RelayNext

LEMMA NextWork ==
    ASSUME TypeOK, Registered, [Next]_vars
    PROVE  WorkStep
<1>1. CASE Next
  BY <1>1, ClientWork, OpWork, SessionWork, RelayWork DEF Next
<1>2. CASE UNCHANGED vars
  BY <1>2, WorkKept DEF vars, workVars
<1> QED BY <1>1, <1>2

-----------------------------------------------------------------------------
(* Connections that are gone.                                              *)

\* Connections leave by the steps of #disconnectPeer alone.
LEMMA LeftAlone ==
    ASSUME [Next]_vars
    PROVE  \/ UNCHANGED client
           \/ \E d \in Clients : DisconnectClient(d) \/ FinishDisconnect(d) \/ DisconnectFails(d)
<1>1. ASSUME NEW c \in Clients, ClientNext(c)
      PROVE  UNCHANGED client \/ DisconnectClient(c) \/ FinishDisconnect(c) \/ DisconnectFails(c)
  BY <1>1 DEF ClientNext, ReuseSession, TakeOver, NewSession, StaleRequest, CloseSession,
              AcquireLease, SubmitOp, ReleaseLease, peerVars
<1>2. ASSUME NEW o \in Ops, OpNext(o) PROVE UNCHANGED client
  BY <1>2 DEF OpNext, SendOp, DropOp, EndOp, peerVars
<1>3. ASSUME NEW s \in SessionIds, SessionNext(s) PROVE UNCHANGED client
  <2>1. CASE BeginExpiry(s)
    BY <2>1, Zenon DEF BeginExpiry, peerVars
  <2>2. CASE ~BeginExpiry(s)
    BY <1>3, <2>2 DEF SessionNext, CleanupNext, NextTab, SendClose, EndCleanup, FinishExpiry,
                      GrowIdle, ExpireAtOnce, peerVars
  <2> QED BY <2>1, <2>2
<1>4. ASSUME NEW r \in Relays, RelayNext(r) PROVE UNCHANGED client
  BY <1>4 DEF RelayNext, FirstHello, LaterHello, InstallProfile, FinishHello, HelloFails,
              TabRemoved, LoseRelay, peerVars
<1>5. CASE UNCHANGED vars
  BY <1>5 DEF vars, peerVars
<1> QED BY <1>1, <1>2, <1>3, <1>4, <1>5 DEF Next

\* Who is gone after a step was gone before it, or its last session has just
\* been deleted, or it had none.
LEMMA ClientsLeave ==
    ASSUME TypeOK, Linked(reg), "leaving" \notin WritesFail, [Next]_vars,
           NEW c \in Clients, client'[c] = "gone", client[c] # "gone"
    PROVE  \A s \in Live(reg') : reg'.sessions[s].peer # c
<1> SUFFICES ASSUME NEW s \in Live(reg'), reg'.sessions[s].peer = c PROVE FALSE
  OBVIOUS
<1>0. reg \in Registry
  BY DEF TypeOK
<1>1. PICK d \in Clients : DisconnectClient(d) \/ FinishDisconnect(d)
  <2>1. UNCHANGED client \/ \E d \in Clients :
           DisconnectClient(d) \/ FinishDisconnect(d) \/ DisconnectFails(d)
    BY LeftAlone
  <2> QED BY <2>1 DEF DisconnectFails
<1>2. CASE DisconnectClient(d)
  <2>1. d = c /\ reg.held[c] = {} /\ reg' = reg
    BY <1>2 DEF DisconnectClient, TypeOK, bookVars
  <2> QED BY <2>1 DEF Linked, SessionsLinked
<1>3. CASE FinishDisconnect(d)
  <2>1. d = c /\ reg' = Deleted(reg, reg.held[c], Peers)
    BY <1>3 DEF FinishDisconnect, TypeOK
  <2>2. Live(reg') = Live(reg) \ reg.held[c] /\ reg'.sessions[s] = reg.sessions[s]
    BY <1>0, <2>1, DeletedParts
  <2> QED BY <2>2 DEF Linked, SessionsLinked
<1> QED BY <1>1, <1>2, <1>3

-----------------------------------------------------------------------------
(* The invariant                                                           *)

LEMMA InitLeaseInv == Init => LeaseInv
<1> SUFFICES ASSUME Init PROVE LeaseInv
  OBVIOUS
<1>1. reg = EmptyRegistry /\ reg \in Registry /\ Linked(reg) /\ Live(reg) = {}
  BY EmptyLinked DEF Init
<1>2. \A l \in LeaseIds : reg.leases[l] = NoLease
  BY <1>1 DEF EmptyRegistry
<1>3. TypeOK
  BY <1>1, RegistryAssumption
     DEF Init, TypeOK, Profile, Hello, NoHello
<1>4. Minted /\ Registered /\ OneSessionPerTask /\ DepartedHoldNothing
  BY <1>1, <1>2 DEF Init, Minted, Registered, OneSessionPerTask, DepartedHoldNothing
<1>5. OpsAdmitted
  BY DEF Init, OpsAdmitted, FreeOp
<1> QED BY <1>1, <1>3, <1>4, <1>5 DEF LeaseInv

LEMMA NextLeaseInv ==
    ASSUME LeaseInv, [Next]_vars
    PROVE  LeaseInv'
<1>0. TypeOK /\ Linked(reg) /\ Minted /\ Registered /\ OpsAdmitted
  BY DEF LeaseInv
<1>1. BookStep
  BY <1>0, NextBook
<1>2. /\ reg' \in Registry /\ Linked(reg')
      /\ minted' \subseteq SessionIds /\ granted' \subseteq LeaseIds /\ Minted'
  BY <1>0, <1>1, BookLinked
<1>3. PeersTyped' /\ ProfileKept
  BY <1>0, NextPeers
<1>4. WorkTyped' /\ \A o \in Ops : OpKept(o)
  BY <1>0, NextWork DEF WorkStep
<1>5. TypeOK'
  BY <1>2, <1>3, <1>4 DEF TypeOK, PeersTyped, WorkTyped
<1>6. \A s \in Live(reg') : Stayed(s) \/ Entered(s)
  BY <1>0, <1>1, BookSessions
<1>7. \A s \in Live(reg') : s \in SessionIds /\ reg'.sessions[s].peer \in Clients
  BY <1>2, EntryTypes DEF Session
<1>8. Registered'
  <2>1. Live(reg') # {} => profile.gen # 0
    BY <1>0, <1>6 DEF Registered, Stayed, Entered
  <2> QED BY <1>3, <2>1 DEF Registered, ProfileKept
<1>9. OneSessionPerTask'
  <2> SUFFICES ASSUME NEW s \in Live(reg'), NEW u \in Live(reg'),
                      reg'.sessions[s].task # NoTask,
                      reg'.sessions[s].task = reg'.sessions[u].task,
                      reg'.sessions[s].gen = reg'.sessions[u].gen, s # u
               PROVE  FALSE
    BY DEF OneSessionPerTask
  <2>1. CASE Stayed(s) /\ Stayed(u)
    BY <2>1 DEF LeaseInv, OneSessionPerTask, Stayed
  <2>2. CASE Entered(s)
    BY <1>7, <2>2 DEF Entered, Matches
  <2>3. CASE Entered(u)
    BY <1>7, <2>3 DEF Entered, Matches
  <2> QED BY <1>6, <2>1, <2>2, <2>3
<1>10. DepartedHoldNothing'
  <2> SUFFICES ASSUME "leaving" \notin WritesFail, NEW s \in Live(reg'),
                      client'[reg'.sessions[s].peer] = "gone"
               PROVE  FALSE
    BY DEF DepartedHoldNothing
  <2>1. client[reg'.sessions[s].peer] = "gone"
    BY <1>0, <1>7, ClientsLeave
  <2>2. s \in Live(reg) /\ reg'.sessions[s].peer = reg.sessions[s].peer
    BY <1>6, <2>1 DEF Stayed, Entered
  <2> QED BY <2>1, <2>2 DEF LeaseInv, DepartedHoldNothing
<1>11. OpsAdmitted'
  <2> SUFFICES ASSUME NEW o \in Ops, op'[o].phase # "free"
               PROVE  /\ op'[o].session \in minted'
                      /\ op'[o].tab # NoTab => op'[o].lease \in LeaseIds
                      /\ op'[o].session \in Live(reg') =>
                            op'[o].gen = reg'.sessions[op'[o].session].gen
    BY DEF OpsAdmitted
  <2>1. /\ op'[o].session \in minted
        /\ op'[o].tab # NoTab => op'[o].lease \in LeaseIds
        /\ op'[o].session \in Live(reg) => op'[o].gen = reg.sessions[op'[o].session].gen
    BY <1>0, <1>4 DEF OpKept, OpsAdmitted, Minted
  <2>2. minted \subseteq minted'
    BY <1>1 DEF BookStep, bookVars, Touch, Enter, Pass, Leave, Grant, GiveUp
  <2> QED BY <1>6, <2>1, <2>2 DEF Stayed, Entered
<1> QED BY <1>2, <1>5, <1>8, <1>9, <1>10, <1>11 DEF LeaseInv

LEMMA LeaseInvariant == Spec => []LeaseInv
<1>1. Init => LeaseInv
  BY InitLeaseInv
<1>2. LeaseInv /\ [Next]_vars => LeaseInv'
  BY NextLeaseInv
<1> QED BY <1>1, <1>2, PTL DEF Spec

\* A queued command is sent by SendOp only.
LEMMA SendsOnly ==
    ASSUME TypeOK, [Next]_vars, NEW o \in Ops, op[o].phase = "queued", op'[o].phase = "sent"
    PROVE  SendOp(o)
<1>1. op' # op
  OBVIOUS
<1>2. ~\E S \in SUBSET SessionIds : Reject(S)
  BY DEF Reject, FreeOp
<1>3. ASSUME NEW c \in Clients, ClientNext(c) PROVE FALSE
  <2>1. ASSUME NEW p \in Ops, NEW s \in SessionIds, NEW t \in Tabs \union {NoTab},
               SubmitOp(p, c, s, t)
        PROVE  FALSE
    <3>1. p # o
      BY <2>1 DEF SubmitOp
    <3> QED BY <2>1, <3>1 DEF SubmitOp, TypeOK
  <2>2. CASE DisconnectClient(c)
    <3>1. reg.held[c] \in SUBSET SessionIds
      BY DEF TypeOK, Registry
    <3> QED BY <1>2, <2>2, <3>1 DEF DisconnectClient
  <2> QED BY <1>1, <1>3, <2>1, <2>2
          DEF ClientNext, ReuseSession, TakeOver, NewSession, StaleRequest, CloseSession,
              AcquireLease, ReleaseLease, FinishDisconnect, DisconnectFails, workVars
<1>4. ASSUME NEW p \in Ops, OpNext(p) PROVE p = o /\ SendOp(p)
  BY <1>4 DEF OpNext, SendOp, DropOp, EndOp, TypeOK, FreeOp
<1>5. ASSUME NEW s \in SessionIds, SessionNext(s) PROVE FALSE
  <2>1. CASE BeginExpiry(s)
    BY <1>1, <2>1, Zenon DEF BeginExpiry
  <2>2. CASE ~BeginExpiry(s)
    BY <1>1, <1>5, <2>2 DEF SessionNext, CleanupNext, NextTab, SendClose, EndCleanup,
                            FinishExpiry, GrowIdle, ExpireAtOnce, workVars
  <2> QED BY <2>1, <2>2
<1>6. ASSUME NEW r \in Relays, RelayNext(r) PROVE FALSE
  BY <1>1, <1>2, <1>6 DEF RelayNext, FirstHello, LaterHello, InstallProfile, FinishHello,
                          HelloFails, TabRemoved, LoseRelay, InvalidateProfile, workVars
<1>7. Next
  BY <1>1 DEF vars, workVars
<1> QED BY <1>3, <1>4, <1>5, <1>6, <1>7 DEF Next

-----------------------------------------------------------------------------
(* The theorems                                                            *)

\* Every variable keeps its type: no handler leaves a record it could not
\* read again.
THEOREM TypeCorrect == Spec => []TypeOK
<1>1. LeaseInv => TypeOK
  BY DEF LeaseInv
<1> QED BY <1>1, LeaseInvariant, PTL

\* The four structures of the book agree after every handler, for any number
\* of clients, sessions, leases and generations.
THEOREM IndicesStayLinked == Spec => []IndicesAgree
<1>1. LeaseInv => IndicesAgree
  BY DEF LeaseInv, IndicesAgree
<1> QED BY <1>1, LeaseInvariant, PTL

\* A task has one session per generation.
THEOREM TaskSessionsAreUnique == Spec => []OneSessionPerTask
<1>1. LeaseInv => OneSessionPerTask
  BY DEF LeaseInv
<1> QED BY <1>1, LeaseInvariant, PTL

\* With a ledger that does not fail, connections that are gone hold nothing.
THEOREM DepartedAreEmptyHanded == Spec => []DepartedHoldNothing
<1>1. LeaseInv => DepartedHoldNothing
  BY DEF LeaseInv
<1> QED BY <1>1, LeaseInvariant, PTL

\* A command goes out for the owner of its session, in the generation it was
\* admitted in, under the lease that reserves its tab.
THEOREM OwnersSend == Spec => OwnerSends
<1> DEFINE Sends == \A o \in Ops : op[o].phase = "queued" /\ op'[o].phase = "sent" =>
               /\ op[o].session \in OwnedBy(reg, op[o].client)
               /\ client[op[o].client] = "up"
               /\ relay[op[o].relay] = "up"
               /\ reg.sessions[op[o].session].gen = op[o].gen
               /\ op[o].gen = profile.gen
               /\ op[o].tab # NoTab => reg.index[op[o].tab] = op[o].lease
                                       /\ Holds(reg, op[o].session, op[o].tab)
<1>1. LeaseInv /\ [Next]_vars => [Sends]_vars
  <2> SUFFICES ASSUME LeaseInv, [Next]_vars, NEW o \in Ops,
                      op[o].phase = "queued", op'[o].phase = "sent"
               PROVE  /\ op[o].session \in OwnedBy(reg, op[o].client)
                      /\ client[op[o].client] = "up"
                      /\ relay[op[o].relay] = "up"
                      /\ reg.sessions[op[o].session].gen = op[o].gen
                      /\ op[o].gen = profile.gen
                      /\ op[o].tab # NoTab => reg.index[op[o].tab] = op[o].lease
                                              /\ Holds(reg, op[o].session, op[o].tab)
    OBVIOUS
  <2>1. SendOp(o)
    BY SendsOnly DEF LeaseInv
  <2>3. /\ client[op[o].client] = "up" /\ relay[op[o].relay] = "up"
        /\ profile.gen = op[o].gen
        /\ op[o].session \in Live(reg) /\ reg.sessions[op[o].session].peer = op[o].client
        /\ profile.gen = reg.sessions[op[o].session].gen
        /\ TargetHeld(o)
    BY <2>1 DEF SendOp, Dispatchable, Reachable, Required, Owned, Current
  <2>4. ASSUME op[o].tab # NoTab
        PROVE  reg.index[op[o].tab] = op[o].lease /\ Holds(reg, op[o].session, op[o].tab)
    <3>1. /\ reg.leases[op[o].lease] # NoLease
          /\ reg.leases[op[o].lease].session = op[o].session
          /\ reg.leases[op[o].lease].tab = op[o].tab
      BY <2>3, <2>4 DEF TargetHeld
    <3>2. op[o].lease \in LeaseIds
      BY <2>1, <2>4 DEF SendOp, LeaseInv, OpsAdmitted
    <3> QED BY <3>1, <3>2, RegistryAssumption DEF LeaseInv, Linked, LeasesLinked, Holds
  <2> QED BY <2>3, <2>4 DEF OwnedBy
<1> HIDE DEF Sends
<1>2. LeaseInv /\ [Next]_vars => [Sends]_vars
  BY <1>1
<1>3. Spec => [][Sends]_vars
  BY <1>2, LeaseInvariant, PTL DEF Spec
<1> QED BY <1>3 DEF OwnerSends, Sends

-----------------------------------------------------------------------------
(* The book implements TabReservation.                                     *)

\* A book that keeps sessions, their owners and reservations stutters.
LEMMA BookStutters ==
    ASSUME Live(reg') = Live(reg), minted' = minted,
           \A s \in Live(reg) : reg'.sessions[s].peer = reg.sessions[s].peer,
           \A s \in SessionIds, t \in Tabs : Holds(reg', s, t) = Holds(reg, s, t)
    PROVE  UNCHANGED <<life, owner, tabsOf>>
<1>1. life' = life
  BY DEF life
<1>2. owner' = owner
  BY DEF owner
<1>3. tabsOf' = tabsOf
  BY DEF tabsOf
<1> QED BY <1>1, <1>2, <1>3

LEMMA EnterOpens ==
    ASSUME TypeOK, Linked(reg), Minted, Registered,
           NEW s \in SessionIds \ minted, NEW c \in Clients,
           NEW task \in Tasks \union {NoTask}, Enter(s, c, task)
    PROVE  Reservation!Open(s, c)
<1>0. reg \in Registry /\ s \notin Live(reg) /\ profile.gen \in Gens
  BY CurrentGen DEF TypeOK, Minted, Enter
<1>1. /\ Live(reg') = Live(reg) \union {s}
      /\ \A u \in Live(reg) : u # s /\ reg'.sessions[u] = reg.sessions[u]
      /\ reg'.sessions[s].peer = c
      /\ reg'.leases = reg.leases /\ reg'.index = reg.index
  <2>1. reg' = Opened(reg, s, c, task, profile.gen)
    BY DEF Enter
  <2> QED BY <1>0, <2>1, OpenedLinked
<1>2. life[s] = "new"
  BY <1>0 DEF life
<1>3. life' = [life EXCEPT ![s] = "open"]
  BY <1>0, <1>1 DEF life, Enter
<1>4. owner' = [owner EXCEPT ![s] = {c}]
  BY <1>0, <1>1 DEF owner
<1>5. tabsOf' = tabsOf
  BY <1>1 DEF tabsOf, Holds
<1> QED BY <1>2, <1>3, <1>4, <1>5 DEF Reservation!Open

LEMMA PassHandsOver ==
    ASSUME TypeOK, Linked(reg), NEW s \in Live(reg), NEW c \in Clients, Pass(s, c)
    PROVE  Reservation!HandOver(s, c)
<1>0. reg \in Registry /\ s \in SessionIds
  BY EntryTypes DEF TypeOK
<1>1. /\ Live(reg') = Live(reg)
      /\ \A u \in Live(reg) \ {s} : reg'.sessions[u] = reg.sessions[u]
      /\ reg'.sessions[s].peer = c
      /\ reg'.leases = reg.leases /\ reg'.index = reg.index
  <2>1. reg' = Transferred(reg, s, c, Peers)
    BY DEF Pass
  <2> QED BY <1>0, <2>1, TransferredLinked, PeersAreClients
<1>2. life[s] = "open" /\ life' = life
  BY <1>0, <1>1 DEF life, Pass
<1>3. owner' = [owner EXCEPT ![s] = {c}]
  BY <1>0, <1>1 DEF owner
<1>4. tabsOf' = tabsOf
  BY <1>1 DEF tabsOf, Holds
<1>5. tabsOf[s] = {}
  <2>1. ASSUME NEW t \in Tabs, Holds(reg, s, t) PROVE FALSE
    <3>1. reg.index[t] \in LeaseIds
      BY <1>0, <2>1 DEF Holds, Registry
    <3> QED BY <2>1, <3>1 DEF Holds, Linked, LeasesLinked, Pass
  <2> QED BY <1>0, <2>1 DEF tabsOf
<1> QED BY <1>2, <1>3, <1>4, <1>5 DEF Reservation!HandOver

LEMMA LeaveEnds ==
    ASSUME TypeOK, Linked(reg), Minted, NEW S \in SUBSET SessionIds, Leave(S)
    PROVE  Reservation!End(S \intersect Live(reg))
<1>0. reg \in Registry /\ reg' = Deleted(reg, S, Peers)
  BY DEF TypeOK, Leave
<1>1. /\ Live(reg') = Live(reg) \ S
      /\ \A s \in Live(reg') : reg'.sessions[s] = reg.sessions[s]
  BY <1>0, DeletedParts
<1>2. /\ \A l \in LeaseIds :
            reg'.leases[l] = IF reg.leases[l] # NoLease /\ reg.leases[l].session \notin S
                             THEN reg.leases[l] ELSE NoLease
      /\ \A t \in Tabs :
            reg'.index[t] = IF reg.index[t] # NoLeaseId /\ reg.leases[reg.index[t]].session \notin S
                            THEN reg.index[t] ELSE NoLeaseId
  BY <1>0, DeletedLinked
<1> DEFINE ended == S \intersect Live(reg)
<1>3. \A s \in ended : life[s] = "open"
  BY DEF life
<1>4. life' = [s \in SessionIds |-> IF s \in ended THEN "over" ELSE life[s]]
  BY <1>1 DEF life, Minted, Leave
<1>5. owner' = [s \in SessionIds |-> IF s \in ended THEN {} ELSE owner[s]]
  BY <1>1 DEF owner
<1>6. ASSUME NEW s \in SessionIds, NEW t \in Tabs
      PROVE  Holds(reg', s, t) <=> s \notin ended /\ Holds(reg, s, t)
  <2>1. reg.index[t] \in LeaseIds \union {NoLeaseId}
    BY <1>0 DEF Registry
  <2>2. reg.index[t] # NoLeaseId =>
           /\ reg.leases[reg.index[t]] # NoLease
           /\ reg.leases[reg.index[t]].session \in Live(reg)
    BY <2>1 DEF Linked, IndexLinked, LeasesLinked
  <2>3. CASE reg.index[t] = NoLeaseId
    BY <1>2, <2>3 DEF Holds
  <2>4. CASE reg.index[t] # NoLeaseId
    BY <1>2, <2>1, <2>2, <2>4, RegistryAssumption DEF Holds
  <2> QED BY <2>3, <2>4
<1>7. tabsOf' = [s \in SessionIds |-> IF s \in ended THEN {} ELSE tabsOf[s]]
  BY <1>6 DEF tabsOf
<1> QED BY <1>3, <1>4, <1>5, <1>7 DEF Reservation!End

LEMMA GrantReserves ==
    ASSUME TypeOK, Linked(reg), Minted,
           NEW s \in Live(reg), NEW t \in Tabs, NEW l \in LeaseIds \ granted, Grant(s, t, l)
    PROVE  Reservation!Reserve(s, t)
<1>0. /\ reg \in Registry /\ s \in SessionIds /\ reg.leases[l] = NoLease
      /\ reg' = Granted(reg, l, s, t) /\ Free(reg, t) /\ minted' = minted
  BY EntryTypes DEF TypeOK, Minted, Grant
<1>1. /\ Live(reg') = Live(reg)
      /\ \A u \in Live(reg) : reg'.sessions[u].peer = reg.sessions[u].peer
      /\ \A m \in LeaseIds \ {l} : reg'.leases[m] = reg.leases[m]
      /\ reg'.leases[l] # NoLease /\ reg'.leases[l].session = s
      /\ \A r \in Tabs : reg'.index[r] = IF r = t THEN l ELSE reg.index[r]
  BY <1>0, GrantedLinked
<1>2. life[s] = "open" /\ life' = life
  BY <1>0, <1>1 DEF life
<1>3. owner' = owner
  BY <1>1 DEF owner
<1>4. \A u \in SessionIds : ~Holds(reg, u, t)
  BY <1>0 DEF Holds, Free
<1>5. ASSUME NEW u \in SessionIds, NEW r \in Tabs
      PROVE  Holds(reg', u, r) <=> Holds(reg, u, r) \/ (u = s /\ r = t)
  <2>1. CASE r = t
    BY <1>1, <1>4, <2>1, RegistryAssumption DEF Holds
  <2>2. CASE r # t
    <3>1. reg'.index[r] = reg.index[r] /\ reg.index[r] \in LeaseIds \union {NoLeaseId}
      BY <1>0, <1>1, <2>2 DEF Registry
    <3>2. reg.index[r] # NoLeaseId => reg.index[r] # l
      BY <1>0 DEF Linked, IndexLinked
    <3> QED BY <1>1, <2>2, <3>1, <3>2 DEF Holds
  <2> QED BY <2>1, <2>2
<1>6. \A u \in SessionIds : t \notin tabsOf[u]
  BY <1>4 DEF tabsOf
<1>7. tabsOf' = [tabsOf EXCEPT ![s] = @ \union {t}]
  <2>1. tabsOf' = [u \in SessionIds |-> tabsOf[u] \union (IF u = s THEN {t} ELSE {})]
    BY <1>5 DEF tabsOf
  <2> QED BY <1>0, <2>1 DEF tabsOf
<1> QED BY <1>2, <1>3, <1>6, <1>7 DEF Reservation!Reserve

LEMMA GiveUpReleases ==
    ASSUME TypeOK, Linked(reg), NEW l \in LeaseIds, GiveUp(l)
    PROVE  \/ UNCHANGED <<life, owner, tabsOf>>
           \/ \E s \in SessionIds, t \in Tabs : Reservation!Release(s, t)
<1>0. reg \in Registry /\ minted' = minted
  BY DEF TypeOK, GiveUp
<1>1. PICK g \in {reg} \union {Used(reg, s) : s \in Live(reg)} : reg' = Released(g, l)
  BY DEF GiveUp
<1>2. /\ g \in Registry /\ Linked(g) /\ Live(g) = Live(reg)
      /\ g.leases = reg.leases /\ g.index = reg.index
      /\ \A u \in Live(reg) : g.sessions[u].peer = reg.sessions[u].peer
  BY <1>0, <1>1, TouchedLinked
<1>3. /\ Live(reg') = Live(reg)
      /\ \A u \in Live(reg) : reg'.sessions[u].peer = reg.sessions[u].peer
      /\ \A m \in LeaseIds : reg'.leases[m] = IF m = l THEN NoLease ELSE reg.leases[m]
      /\ \A r \in Tabs : reg'.index[r] = IF reg.index[r] = l THEN NoLeaseId ELSE reg.index[r]
  <2>1. /\ Live(reg') = Live(g)
        /\ \A u \in Live(g) : reg'.sessions[u].peer = g.sessions[u].peer
        /\ \A m \in LeaseIds : reg'.leases[m] = IF m = l THEN NoLease ELSE g.leases[m]
        /\ \A r \in Tabs : reg'.index[r] = IF g.index[r] = l THEN NoLeaseId ELSE g.index[r]
    BY <1>1, <1>2, ReleasedLinked
  <2> QED BY <1>2, <2>1
<1>4. \A u \in SessionIds, r \in Tabs :
         Holds(reg', u, r) <=> Holds(reg, u, r) /\ reg.index[r] # l
  <2> SUFFICES ASSUME NEW u \in SessionIds, NEW r \in Tabs
               PROVE  Holds(reg', u, r) <=> Holds(reg, u, r) /\ reg.index[r] # l
    OBVIOUS
  <2>1. reg.index[r] \in LeaseIds \union {NoLeaseId}
    BY <1>0 DEF Registry
  <2> QED BY <1>3, <2>1 DEF Holds
<1>5. CASE \A r \in Tabs : reg.index[r] # l
  <2>1. \A u \in SessionIds, r \in Tabs : Holds(reg', u, r) = Holds(reg, u, r)
    BY <1>4, <1>5 DEF Holds
  <2> QED BY <1>0, <1>3, <2>1, BookStutters
<1>6. ASSUME NEW t \in Tabs, reg.index[t] = l
      PROVE  \E s \in SessionIds : Reservation!Release(s, t)
  <2> DEFINE s == reg.leases[l].session
  <2>1. /\ reg.leases[l] # NoLease /\ reg.leases[l].tab = t /\ l # NoLeaseId
        /\ s \in SessionIds
    BY <1>6, EntryTypes, RegistryAssumption, <1>0
       DEF Linked, IndexLinked, LeasesLinked
  <2>2. \A r \in Tabs : reg.index[r] = l => r = t
    BY <2>1 DEF Linked, IndexLinked
  <2>3. life' = life
    BY <1>0, <1>3 DEF life
  <2>4. owner' = owner
    BY <1>3 DEF owner
  <2>5. Holds(reg, s, t)
    BY <1>6, <2>1 DEF Holds
  <2>6. \A u \in SessionIds : Holds(reg, u, t) => u = s
    BY <1>6 DEF Holds
  <2> HIDE DEF s
  <2>7. \A u \in SessionIds, r \in Tabs :
           Holds(reg', u, r) <=> Holds(reg, u, r) /\ ~(u = s /\ r = t)
    BY <1>4, <1>6, <2>2, <2>6
  <2>8. t \in tabsOf[s]
    BY <2>1, <2>5 DEF tabsOf
  <2>9. tabsOf' = [tabsOf EXCEPT ![s] = @ \ {t}]
    <3>1. tabsOf' = [u \in SessionIds |-> tabsOf[u] \ (IF u = s THEN {t} ELSE {})]
      BY <2>7 DEF tabsOf
    <3> QED BY <2>1, <3>1 DEF tabsOf
  <2> QED BY <2>1, <2>3, <2>4, <2>8, <2>9 DEF Reservation!Release
<1>7. CASE \E t \in Tabs : reg.index[t] = l
  <2>1. PICK t \in Tabs : reg.index[t] = l
    BY <1>7
  <2>2. PICK s \in SessionIds : Reservation!Release(s, t)
    BY <1>6, <2>1
  <2> QED BY <2>2
<1> QED BY <1>5, <1>7

LEMMA BookRefines ==
    ASSUME LeaseInv, [Next]_vars
    PROVE  [Reservation!Next]_<<life, owner, tabsOf>>
<1>0. TypeOK /\ Linked(reg) /\ Minted /\ Registered /\ reg \in Registry
  BY DEF LeaseInv, TypeOK
<1>1. BookStep
  BY <1>0, NextBook
<1>2. CASE UNCHANGED bookVars
  BY <1>2, BookStutters DEF bookVars
<1>3. ASSUME NEW s \in Live(reg), Touch(s) PROVE UNCHANGED <<life, owner, tabsOf>>
  <2>1. /\ Live(reg') = Live(reg) /\ minted' = minted
        /\ reg'.leases = reg.leases /\ reg'.index = reg.index
        /\ \A u \in Live(reg) : reg'.sessions[u].peer = reg.sessions[u].peer
    BY <1>0, <1>3, TouchedLinked DEF Touch
  <2>2. \A u \in SessionIds, t \in Tabs : Holds(reg', u, t) = Holds(reg, u, t)
    BY <2>1 DEF Holds
  <2> QED BY <2>1, <2>2, BookStutters
<1>4. ASSUME NEW s \in SessionIds \ minted, NEW c \in Clients,
             NEW task \in Tasks \union {NoTask}, Enter(s, c, task)
      PROVE  Reservation!Next
  BY <1>0, <1>4, EnterOpens DEF Reservation!Next
<1>5. ASSUME NEW s \in Live(reg), NEW c \in Clients, Pass(s, c) PROVE Reservation!Next
  BY <1>0, <1>5, PassHandsOver, EntryTypes DEF Reservation!Next
<1>6. ASSUME NEW S \in SUBSET SessionIds, Leave(S) PROVE Reservation!Next
  <2>1. S \intersect Live(reg) \in SUBSET SessionIds
    OBVIOUS
  <2> QED BY <1>0, <1>6, <2>1, LeaveEnds DEF Reservation!Next
<1>7. ASSUME NEW s \in Live(reg), NEW t \in Tabs, NEW l \in LeaseIds \ granted, Grant(s, t, l)
      PROVE  Reservation!Next
  BY <1>0, <1>7, GrantReserves, EntryTypes DEF Reservation!Next
<1>8. ASSUME NEW l \in LeaseIds, GiveUp(l)
      PROVE  [Reservation!Next]_<<life, owner, tabsOf>>
  BY <1>0, <1>8, GiveUpReleases DEF Reservation!Next
<1> QED BY <1>1, <1>2, <1>3, <1>4, <1>5, <1>6, <1>7, <1>8 DEF BookStep

\* The book implements TabReservation: a tab is reserved by one live session
\* at a time, owners change empty-handed, and what ends reserves nothing.
THEOREM Refinement == Spec => KeepsReservations
<1>1. Init => Reservation!Init
  <2> SUFFICES ASSUME Init PROVE Reservation!Init
    OBVIOUS
  <2>1. reg = EmptyRegistry /\ minted = {} /\ Live(reg) = {}
    BY EmptyLinked DEF Init
  <2>2. life = [s \in SessionIds |-> "new"] /\ owner = [s \in SessionIds |-> {}]
    BY <2>1 DEF life, owner
  <2>3. tabsOf = [s \in SessionIds |-> {}]
    BY <2>1 DEF tabsOf, Holds, EmptyRegistry
  <2> QED BY <2>2, <2>3 DEF Reservation!Init
<1>2. LeaseInv /\ [Next]_vars => [Reservation!Next]_<<life, owner, tabsOf>>
  BY BookRefines
<1>3. Spec => Reservation!Init /\ [][Reservation!Next]_<<life, owner, tabsOf>>
  BY <1>1, <1>2, LeaseInvariant, PTL DEF Spec
<1> QED BY <1>3 DEF KeepsReservations, Reservation!Spec, Reservation!reservationVars


-----------------------------------------------------------------------------
(* The reload of the Extension, for any number of requests, of losses of   *)
(* the port and of the worker, and of restarts of the broker.              *)
(*                                                                         *)
(* Neither property is inductive.  A command that may have had an effect   *)
(* keeps its generation reserved (Guarded), and whatever a restart forgets *)
(* or a hello ends, no second command of that generation is let through    *)
(* (OwedOnce).  Identities and generations only grow and the ledger's      *)
(* follow the broker's (Grown), so whoever sees another generation than    *)
(* the one that its command was sent in sees a newer identity (Sent).      *)

Stages == {"idle", "asks", "pending", "polls", "over"}
Results == {None, "unknown", "reflected", "deferred", "refused", "accepted", "error"}
States == {"none", "blocked", "dispatched", "unknown_effect", "applied", "reconciled"}
ProfileT == [gen : Nat, runtime : Nat, up : BOOLEAN]
BindingT == [gen : Nat, runtime : Nat]
ReservationT == [of : Calls \union {None}, gen : Nat]
OpT == {"none", "prepares", "waits", "over"}
EntryT == [state : States, gen : Nat]
CallT == [at : Stages, before : Nat, reads : BOOLEAN, runtime : Nat, result : Results]
AnswerT == [of : Calls, ok : BOOLEAN]
WorkerT == [runtime : Nat, stored : Nat, reload : Calls \union {None}, storing : BOOLEAN]

Types ==
    /\ registered \in ProfileT /\ binding \in BindingT
    /\ generations \in Nat /\ runtimes \in Nat
    /\ serving \in BOOLEAN /\ busy \in BOOLEAN
    /\ reservation \in ReservationT \union {None}
    /\ reload \in [Calls -> OpT] /\ entry \in [Calls -> EntryT] /\ caller \in [Calls -> CallT]
    /\ wire \subseteq Calls /\ back \subseteq AnswerT
    /\ worker \in WorkerT

LEMMA MakeTypes ==
    /\ \A g, r \in Nat : [gen |-> g, runtime |-> r] \in BindingT
    /\ \A g, r \in Nat, u \in BOOLEAN : [gen |-> g, runtime |-> r, up |-> u] \in ProfileT
    /\ \A o \in Calls \union {None}, g \in Nat : [of |-> o, gen |-> g] \in ReservationT
    /\ \A s \in States, g \in Nat : [state |-> s, gen |-> g] \in EntryT
    /\ \A o \in Calls, k \in BOOLEAN : [of |-> o, ok |-> k] \in AnswerT
    /\ \A r, s \in Nat, c \in Calls \union {None}, b \in BOOLEAN :
          [runtime |-> r, stored |-> s, reload |-> c, storing |-> b] \in WorkerT
    /\ \A a \in Stages, n, r \in Nat, b \in BOOLEAN, x \in Results :
          [at |-> a, before |-> n, reads |-> b, runtime |-> r, result |-> x] \in CallT
BY DEF ProfileT, BindingT, ReservationT, EntryT, AnswerT, WorkerT, CallT

\* The changes of one record that the actions make.
Ended(x, a, r) == [x EXCEPT !.at = a, !.result = r]
Moved(x, a) == [x EXCEPT !.at = a]
Settled(x, s) == [x EXCEPT !.state = s]

LEMMA CallFields ==
    ASSUME NEW x \in CallT, NEW a \in Stages, NEW r \in Results
    PROVE  /\ Ended(x, a, r) \in CallT
           /\ Ended(x, a, r).at = a /\ Ended(x, a, r).result = r
           /\ Ended(x, a, r).before = x.before /\ Ended(x, a, r).reads = x.reads
           /\ Ended(x, a, r).runtime = x.runtime
           /\ Moved(x, a) \in CallT
           /\ Moved(x, a).at = a /\ Moved(x, a).result = x.result
           /\ Moved(x, a).before = x.before /\ Moved(x, a).reads = x.reads
           /\ Moved(x, a).runtime = x.runtime
BY DEF CallT, Ended, Moved

LEMMA EntryFields ==
    ASSUME NEW x \in EntryT, NEW s \in States
    PROVE  /\ Settled(x, s) \in EntryT
           /\ Settled(x, s).state = s /\ Settled(x, s).gen = x.gen
BY DEF EntryT, Settled

\* What a call keeps through every step but its plan, its poll and an answer it can read back.
CallsKept(x, y) ==
    /\ y \in [Calls -> CallT]
    /\ \A d \in Calls :
          /\ y[d].before = x[d].before /\ y[d].runtime = x[d].runtime
          /\ y[d].at = "idle" <=> x[d].at = "idle"
          /\ y[d].at = "asks" => x[d].at = "asks"
          /\ y[d].at = "polls" => x[d].at = "polls"
          /\ y[d].result = "reflected" => x[d].result = "reflected"

LEMMA ToldKeeps ==
    ASSUME caller \in [Calls -> CallT], NEW c \in Calls, NEW r \in Results, r # "reflected"
    PROVE  /\ CallsKept(caller, Reload!Told(caller, c, r))
           /\ Reload!Told(caller, c, r)[c] \in CallT
           /\ Reload!Told(caller, c, r)[c].before = caller[c].before
           /\ Reload!Told(caller, c, r)[c].runtime = caller[c].runtime
           /\ Reload!Told(caller, c, r)[c].at = "idle" <=> caller[c].at = "idle"
           /\ Reload!Told(caller, c, r)[c].at = "asks" => caller[c].at = "asks"
           /\ Reload!Told(caller, c, r)[c].at = "polls" => caller[c].at = "polls"
           /\ Reload!Told(caller, c, r)[c].result = "reflected" => caller[c].result = "reflected"
<1>1. caller[c] \in CallT /\ "over" \in Stages
      BY DEF Stages
<1> DEFINE y == Ended(caller[c], "over", r)
<1>2. /\ y \in CallT /\ y.at = "over" /\ y.result = r
      /\ y.before = caller[c].before /\ y.runtime = caller[c].runtime
      BY <1>1, CallFields
<1>3. CASE caller[c].at \in {"asks", "pending"}
  <2>1. Reload!Told(caller, c, r) = [caller EXCEPT ![c] = y]
        BY <1>3 DEF Reload!Told, Ended
  <2> HIDE DEF y
  <2> QED  BY <1>2, <1>3, <2>1 DEF CallsKept
<1>4. CASE caller[c].at \notin {"asks", "pending"}
      BY <1>4 DEF Reload!Told, CallsKept
<1> QED  BY <1>3, <1>4

LEMMA InvalidatedKeeps ==
    ASSUME Types, NEW W \in SUBSET Calls, Reload!Invalidated(W)
    PROVE  /\ CallsKept(caller, caller') /\ entry' \in [Calls -> EntryT] /\ reload' \in [Calls -> OpT]
           /\ \A d \in Calls :
                 /\ entry'[d].gen = entry[d].gen
                 /\ entry'[d].state = IF d \in W THEN "unknown_effect" ELSE entry[d].state
                 /\ reload'[d] = IF d \in W THEN "over" ELSE reload[d]
<1>1. CallsKept(caller, caller')
  <2>1. "error" \in Results /\ "error" # "reflected"
        BY DEF Results
  <2>2. caller' = [d \in Calls |-> IF d \in W THEN Reload!Told(caller, d, "error")[d] ELSE caller[d]]
        BY DEF Reload!Invalidated
  <2> QED  BY <2>1, <2>2, ToldKeeps DEF CallsKept, Types
<1>2. entry' \in [Calls -> EntryT] /\ reload' \in [Calls -> OpT]
  <2>1. "unknown_effect" \in States /\ "over" \in OpT
        BY DEF States, OpT
  <2> QED  BY <2>1, EntryFields DEF Reload!Invalidated, Types, Settled
<1>3. \A d \in Calls :
                 /\ entry'[d].gen = entry[d].gen
                 /\ entry'[d].state = IF d \in W THEN "unknown_effect" ELSE entry[d].state
                 /\ reload'[d] = IF d \in W THEN "over" ELSE reload[d]
  <2>1. "unknown_effect" \in States
        BY DEF States
  <2> QED  BY <2>1, EntryFields DEF Reload!Invalidated, Types, Settled
<1> QED  BY <1>1, <1>2, <1>3
\* The changes of the worker and of the profile.
Scheduled(w, c) == [w EXCEPT !.reload = c]
Rotated(w, n) == [w EXCEPT !.runtime = n, !.storing = TRUE]
Unscheduled(w) == [w EXCEPT !.stored = w.runtime, !.reload = None, !.storing = FALSE]
Lost(p) == [p EXCEPT !.up = FALSE]

LEMMA WorkerFields ==
    ASSUME NEW w \in WorkerT, NEW c \in Calls \union {None}, NEW n \in Nat
    PROVE  /\ Scheduled(w, c) \in WorkerT /\ Scheduled(w, c).reload = c
           /\ Scheduled(w, c).runtime = w.runtime /\ Scheduled(w, c).stored = w.stored
           /\ Scheduled(w, c).storing = w.storing
           /\ Rotated(w, n) \in WorkerT /\ Rotated(w, n).reload = w.reload
           /\ Rotated(w, n).runtime = n /\ Rotated(w, n).stored = w.stored
           /\ Rotated(w, n).storing
           /\ Unscheduled(w) \in WorkerT /\ Unscheduled(w).reload = None
           /\ Unscheduled(w).runtime = w.runtime /\ Unscheduled(w).stored = w.runtime
           /\ ~Unscheduled(w).storing
<1>1. Scheduled(w, c) \in WorkerT /\ Rotated(w, n) \in WorkerT /\ Unscheduled(w) \in WorkerT
      BY DEF WorkerT, Scheduled, Rotated, Unscheduled
<1>2. /\ Scheduled(w, c).reload = c
      /\ Scheduled(w, c).runtime = w.runtime /\ Scheduled(w, c).stored = w.stored
      /\ Scheduled(w, c).storing = w.storing
      BY DEF WorkerT, Scheduled
<1>3. /\ Rotated(w, n).reload = w.reload
      /\ Rotated(w, n).runtime = n /\ Rotated(w, n).stored = w.stored
      /\ Rotated(w, n).storing
      BY DEF WorkerT, Rotated
<1>4. /\ Unscheduled(w).reload = None
      /\ Unscheduled(w).runtime = w.runtime /\ Unscheduled(w).stored = w.runtime
      /\ ~Unscheduled(w).storing
      BY DEF WorkerT, Unscheduled
<1> QED  BY <1>1, <1>2, <1>3, <1>4

LEMMA ProfileFields ==
    ASSUME NEW p \in ProfileT
    PROVE  /\ Lost(p) \in ProfileT /\ Lost(p).gen = p.gen /\ Lost(p).runtime = p.runtime
           /\ ~Lost(p).up
BY DEF ProfileT, Lost

LEMMA Numbers ==
    ASSUME Types
    PROVE  /\ registered.gen \in Nat /\ registered.runtime \in Nat /\ registered.up \in BOOLEAN
           /\ binding.gen \in Nat /\ binding.runtime \in Nat
           /\ worker.runtime \in Nat /\ worker.stored \in Nat
           /\ worker.reload \in Calls \union {None}
           /\ \A c \in Calls : /\ caller[c].before \in Nat /\ caller[c].runtime \in Nat
                               /\ entry[c].gen \in Nat
<1>1. registered.gen \in Nat /\ registered.runtime \in Nat /\ registered.up \in BOOLEAN
      BY DEF Types, ProfileT
<1>2. binding.gen \in Nat /\ binding.runtime \in Nat
      BY DEF Types, BindingT
<1>3. worker.runtime \in Nat /\ worker.stored \in Nat /\ worker.reload \in Calls \union {None}
      BY DEF Types, WorkerT
<1>4. ASSUME NEW c \in Calls
      PROVE  caller[c].before \in Nat /\ caller[c].runtime \in Nat /\ entry[c].gen \in Nat
  <2>1. caller[c] \in CallT /\ entry[c] \in EntryT
        BY DEF Types
  <2> QED  BY <2>1 DEF CallT, EntryT
<1> QED  BY <1>1, <1>2, <1>3, <1>4

-----------------------------------------------------------------------------
(* The invariant                                                           *)

\* Identities and generations only grow, and the ledger's follow the broker's, which follow
\* those that the Extension has stored.
Grown ==
    /\ registered.runtime <= worker.stored /\ binding.runtime <= worker.stored
    /\ worker.stored <= worker.runtime /\ worker.runtime <= runtimes
    /\ ~worker.storing => worker.stored = worker.runtime
    /\ binding.gen <= registered.gen /\ registered.gen <= generations
    /\ binding.gen = registered.gen => binding.runtime = registered.runtime

\* What a client saw was a generation with its identity.
Past(c) ==
    caller[c].at # "idle" =>
        /\ caller[c].before <= generations /\ caller[c].runtime <= worker.stored
        /\ registered.gen = caller[c].before => registered.runtime = caller[c].runtime
        /\ binding.gen = caller[c].before => binding.runtime = caller[c].runtime

\* A command was sent with its generation on record, so a restart does not fall back behind it.
Sent(c) ==
    reload[c] = "waits" \/ caller[c].at = "polls" =>
        /\ caller[c].at # "idle" /\ caller[c].before <= binding.gen
        /\ registered.gen # caller[c].before => caller[c].runtime < runtimes

\* A command that may have an effect, and its record.
Owed(c) == entry[c].state \in {"dispatched", "unknown_effect", "applied"}
Answering(c) == \E a \in back : a.of = c
Fits(c) ==
    /\ caller[c].at \in {"idle", "asks"} => reload[c] = "none"
    /\ c \in wire \/ Answering(c) => Owed(c)
    /\ c \in wire => ~Answering(c)
    /\ \A a, b \in back : a.of = c /\ b.of = c => a = b
    /\ worker.reload = c => Owed(c) \/ entry[c].state = "reconciled"
    /\ reload[c] \in {"none", "prepares"} => entry[c].state = "none"
    /\ reload[c] = "waits" => Owed(c)

\* The reservation guards the profile until the generation of such a command is over.
Guarded(c) ==
    /\ reload[c] = "prepares" /\ caller[c].before = registered.gen
        => reservation = [of |-> c, gen |-> registered.gen]
    /\ Owed(c) => entry[c].gen <= binding.gen
    /\ Owed(c) /\ entry[c].gen = registered.gen
        => /\ reservation # None /\ reservation.gen = registered.gen
           /\ reservation.of \in {c, None}

OwedOnce == \A c, d \in Calls : Owed(c) /\ Owed(d) /\ entry[c].gen = entry[d].gen => c = d

IndInv ==
    /\ Types /\ Grown /\ OwedOnce /\ Reload!ReflectedIsFresh
    /\ \A c \in Calls : Past(c) /\ Sent(c) /\ Fits(c) /\ Guarded(c)

LEMMA InitInv == Reload!Init => IndInv
<1> SUFFICES ASSUME Reload!Init PROVE IndInv
    OBVIOUS
<1>1. registered \in ProfileT /\ binding \in BindingT
      BY MakeTypes DEF Reload!Init
<1>2. worker \in WorkerT
      BY MakeTypes DEF Reload!Init
<1>3. Reload!IdleCall \in CallT /\ Reload!IdleCall.at = "idle" /\ Reload!IdleCall.result = None
      BY MakeTypes DEF Reload!IdleCall, CallT, Stages, Results
<1>4. Reload!NoEntry \in EntryT /\ Reload!NoEntry.state = "none"
      BY MakeTypes DEF Reload!NoEntry, States
<1>5. Types
      BY <1>1, <1>2, <1>3, <1>4 DEF Reload!Init, Types, OpT
<1>6. Grown
      BY DEF Grown, Reload!Init
<1>7. \A c \in Calls : caller[c] = Reload!IdleCall /\ entry[c] = Reload!NoEntry /\ reload[c] = "none"
      BY DEF Reload!Init
<1>8. None # "reflected"
      BY ReloadAssumption
<1>9. worker.reload \notin Calls /\ wire = {} /\ back = {}
      BY ReloadAssumption DEF Reload!Init
<1>10. \A c \in Calls : ~Owed(c) /\ caller[c].at = "idle" /\ caller[c].result # "reflected"
      BY <1>3, <1>4, <1>7, <1>8 DEF Owed
<1>11. \A c \in Calls : Past(c) /\ Sent(c) /\ Fits(c) /\ Guarded(c)
      BY <1>4, <1>7, <1>9, <1>10 DEF Past, Sent, Fits, Guarded, Answering
<1>12. OwedOnce /\ Reload!ReflectedIsFresh
      BY <1>10 DEF OwedOnce, Reload!ReflectedIsFresh
<1> QED  BY <1>5, <1>6, <1>11, <1>12 DEF IndInv

-----------------------------------------------------------------------------
(* Its steps                                                               *)

LEMMA PlansStep ==
    ASSUME IndInv, NEW c \in Calls, Reload!Plans(c) PROVE IndInv'
<1> USE DEF Reload!port, Reload!registry
<1>1. PICK reads \in BOOLEAN :
          caller' = [caller EXCEPT ![c] = [at |-> "asks", before |-> registered.gen, reads |-> reads,
                                       runtime |-> registered.runtime, result |-> None]]
      BY DEF Reload!Plans
<1> DEFINE new == [at |-> "asks", before |-> registered.gen, reads |-> reads,
                   runtime |-> registered.runtime, result |-> None]
<1>2. new \in CallT /\ new.at = "asks" /\ new.before = registered.gen
      /\ new.runtime = registered.runtime /\ new.result = None
  <2>1. "asks" \in Stages /\ None \in Results
        BY DEF Stages, Results
  <2> QED  BY <2>1, MakeTypes, Numbers DEF IndInv
<1>3. caller' = [caller EXCEPT ![c] = new]
      BY <1>1
<1> HIDE DEF new
<1>4. Types'
      BY <1>2, <1>3 DEF Types, IndInv, Reload!Plans
<1>5. \A d \in Calls : d # c => caller'[d] = caller[d]
      BY <1>3 DEF IndInv, Types
<1>6. caller'[c] = new
      BY <1>3 DEF IndInv, Types
<1>7. reload[c] = "none"
      BY DEF IndInv, Fits, Reload!Plans
<1>8. Reload!ReflectedIsFresh'
      BY <1>2, <1>5, <1>6, ReloadAssumption DEF IndInv, Reload!ReflectedIsFresh, Reload!Plans
<1>9. Grown' /\ OwedOnce'
      BY DEF IndInv, Grown, OwedOnce, Owed, Reload!Plans
<1>10. ASSUME NEW d \in Calls PROVE (Past(d) /\ Sent(d) /\ Fits(d) /\ Guarded(d))'
  <2>1. CASE d # c
        BY <2>1, <1>5 DEF IndInv, Past, Sent, Fits, Guarded, Owed, Answering, Reload!Plans
  <2>2. CASE d = c
        BY <2>2, <1>2, <1>6, <1>7, Numbers
           DEF IndInv, Grown, Past, Sent, Fits, Guarded, Owed, Answering, Reload!Plans
  <2> QED  BY <2>1, <2>2
<1> QED  BY <1>4, <1>8, <1>9, <1>10 DEF IndInv

\* Steps that send nothing, start no generation and leave the reservation: some commands are
\* given up, and the worker's identity may grow.
LEMMA EbbStep ==
    ASSUME IndInv, Types', CallsKept(caller, caller'),
           registered'.gen = registered.gen, registered'.runtime = registered.runtime, binding' = binding,
           generations' = generations, reservation' = reservation, runtimes <= runtimes',
           worker.stored <= worker'.stored, worker'.stored <= worker'.runtime,
           worker'.runtime <= runtimes', ~worker'.storing => worker'.stored = worker'.runtime,
           worker'.reload \in {worker.reload, None}, wire' \subseteq wire, back' \subseteq back,
           NEW W \in SUBSET Reload!Waiting,
           \A d \in Calls :
                 /\ entry'[d].gen = entry[d].gen
                 /\ entry'[d].state = IF d \in W THEN "unknown_effect" ELSE entry[d].state
                 /\ reload'[d] = IF d \in W THEN "over" ELSE reload[d]
    PROVE  IndInv'
<1>1. /\ registered.gen \in Nat /\ registered.runtime \in Nat /\ binding.runtime \in Nat
      /\ worker.stored \in Nat /\ worker'.stored \in Nat /\ worker'.runtime \in Nat
      /\ worker.runtime \in Nat
      /\ runtimes \in Nat /\ runtimes' \in Nat
      /\ \A d \in Calls : caller[d].runtime \in Nat
  <2>1. worker'.stored \in Nat /\ worker'.runtime \in Nat
        BY DEF Types, WorkerT
  <2> QED  BY <2>1, Numbers DEF IndInv, Types
<1>2. Grown'
      BY <1>1 DEF IndInv, Grown
<1>3. \A d \in Calls : Owed(d)' <=> Owed(d)
      BY DEF Owed, Reload!Waiting, IndInv, Fits
<1>4. OwedOnce'
      BY <1>3 DEF IndInv, OwedOnce
<1>5. Reload!ReflectedIsFresh'
      BY <1>1 DEF IndInv, Reload!ReflectedIsFresh, CallsKept
<1>6. ASSUME NEW d \in Calls PROVE (Past(d) /\ Sent(d) /\ Fits(d) /\ Guarded(d))'
  <2>1. Past(d)'
        BY <1>1 DEF IndInv, Past, CallsKept
  <2>2. Sent(d)'
        BY <1>1 DEF IndInv, Sent, CallsKept
  <2>3. Fits(d)'
    <3>1. d \in Reload!Waiting => reload[d] = "waits"
          BY DEF Reload!Waiting
    <3>2. reload'[d] \in {"none", "prepares"} => reload'[d] = reload[d] /\ d \notin W
          OBVIOUS
    <3>3. caller'[d].at \in {"idle", "asks"} => reload'[d] = "none"
          BY <3>1 DEF IndInv, Fits, CallsKept
    <3>4. Answering(d)' => Answering(d)
          BY DEF Answering
    <3>5. /\ d \in wire' \/ Answering(d)' => Owed(d)'
          /\ d \in wire' => ~Answering(d)'
          /\ \A a, b \in back' : a.of = d /\ b.of = d => a = b
          BY <1>3, <3>4 DEF IndInv, Fits
    <3>7. worker'.reload = d => Owed(d)' \/ entry'[d].state = "reconciled"
          BY <1>3, ReloadAssumption DEF IndInv, Fits, Owed
    <3>6. reload'[d] = "waits" => Owed(d)'
          BY <1>3 DEF IndInv, Fits
    <3> QED  BY <3>2, <3>3, <3>5, <3>6, <3>7 DEF Fits, IndInv
  <2>4. Guarded(d)'
        BY <1>3 DEF IndInv, Guarded, CallsKept
  <2> QED  BY <2>1, <2>2, <2>3, <2>4
<1> QED  BY <1>2, <1>4, <1>5, <1>6 DEF IndInv

LEMMA NothingChanges == Types => CallsKept(caller, caller)
BY DEF CallsKept, Types

LEMMA GivesUpStep ==
    ASSUME IndInv, NEW c \in Calls, Reload!GivesUp(c) PROVE IndInv'
<1> USE DEF Reload!port, Reload!registry
<1>1. CallsKept(caller, caller')
  <2>1. "unknown" \in Results /\ "unknown" # "reflected"
        BY DEF Results
  <2> QED  BY <2>1, ToldKeeps DEF Reload!GivesUp, IndInv, Types
<1>2. Types'
      BY <1>1 DEF CallsKept, Types, IndInv, Reload!GivesUp
<1>3. /\ worker.stored <= worker.runtime /\ worker.runtime <= runtimes
      /\ runtimes <= runtimes /\ worker.stored <= worker.stored
      /\ ~worker.storing => worker.stored = worker.runtime
      BY Numbers DEF IndInv, Grown, Types
<1>4. {} \in SUBSET Reload!Waiting
      OBVIOUS
<1> QED  BY <1>1, <1>2, <1>3, <1>4, EbbStep DEF Reload!GivesUp

LEMMA WorksStep ==
    ASSUME IndInv, Reload!Works PROVE IndInv'
<1> USE DEF Reload!port, Reload!registry
<1>1. CallsKept(caller, caller')
      BY NothingChanges DEF IndInv, Reload!Works
<1>2. Types'
      BY DEF Types, IndInv, Reload!Works
<1>3. /\ worker.stored <= worker.runtime /\ worker.runtime <= runtimes
      /\ runtimes <= runtimes /\ worker.stored <= worker.stored
      /\ ~worker.storing => worker.stored = worker.runtime
      BY Numbers DEF IndInv, Grown, Types
<1>4. {} \in SUBSET Reload!Waiting
      OBVIOUS
<1> QED  BY <1>1, <1>2, <1>3, <1>4, EbbStep DEF Reload!Works

LEMMA TimesOutStep ==
    ASSUME IndInv, NEW c \in Calls, Reload!TimesOut(c) PROVE IndInv'
<1> USE DEF Reload!port, Reload!registry
<1>1. /\ CallsKept(caller, caller') /\ entry' \in [Calls -> EntryT] /\ reload' \in [Calls -> OpT]
      /\ \A d \in Calls :
            /\ entry'[d].gen = entry[d].gen
            /\ entry'[d].state = IF d \in {c} THEN "unknown_effect" ELSE entry[d].state
            /\ reload'[d] = IF d \in {c} THEN "over" ELSE reload[d]
      BY InvalidatedKeeps DEF Reload!TimesOut, IndInv
<1>2. Types'
      BY <1>1 DEF CallsKept, Types, IndInv, Reload!TimesOut
<1>3. /\ worker.stored <= worker.runtime /\ worker.runtime <= runtimes
      /\ runtimes <= runtimes /\ worker.stored <= worker.stored
      /\ ~worker.storing => worker.stored = worker.runtime
      BY Numbers DEF IndInv, Grown, Types
<1>4. {c} \in SUBSET Reload!Waiting
      BY DEF Reload!TimesOut, Reload!Waiting
<1> QED  BY <1>1, <1>2, <1>3, <1>4, EbbStep DEF Reload!TimesOut

\* A loss of the port leaves the worker w, whose identity is the stored one.
LEMMA DownStep ==
    ASSUME IndInv, NEW w \in WorkerT, Reload!Down(w), runtimes' = runtimes,
           worker.stored <= w.stored, w.stored <= w.runtime, w.runtime <= runtimes,
           ~w.storing => w.stored = w.runtime, w.reload \in {worker.reload, None}
    PROVE  IndInv'
<1> DEFINE W == IF reservation = None /\ registered.up THEN Reload!Waiting ELSE {}
<1>1. W \in SUBSET Reload!Waiting /\ W \in SUBSET Calls
      BY DEF Reload!Waiting
<1>2. Reload!Invalidated(W)
      BY DEF Reload!Down
<1> HIDE DEF W
<1>3. /\ CallsKept(caller, caller') /\ entry' \in [Calls -> EntryT] /\ reload' \in [Calls -> OpT]
      /\ \A d \in Calls :
            /\ entry'[d].gen = entry[d].gen
            /\ entry'[d].state = IF d \in W THEN "unknown_effect" ELSE entry[d].state
            /\ reload'[d] = IF d \in W THEN "over" ELSE reload[d]
      BY <1>1, <1>2, InvalidatedKeeps DEF IndInv
<1>4. registered' = Lost(registered)
      BY DEF Reload!Down, Lost
<1>5. registered' \in ProfileT /\ registered'.gen = registered.gen /\ registered'.runtime = registered.runtime
      BY <1>4, ProfileFields DEF IndInv, Types
<1>6. Types'
      BY <1>3, <1>5 DEF CallsKept, Types, IndInv, Reload!Down
<1>7. runtimes <= runtimes
      BY DEF IndInv, Types
<1> QED  BY <1>1, <1>3, <1>5, <1>6, <1>7, EbbStep DEF Reload!Down

LEMMA ReloadsStep ==
    ASSUME IndInv, Reload!Reloads PROVE IndInv'
<1>1. Reload!Down(Unscheduled(worker)) /\ runtimes' = runtimes
      BY DEF Reload!Reloads, Unscheduled
<1>2. worker \in WorkerT /\ worker.stored <= worker.runtime /\ worker.runtime <= runtimes
      /\ worker.runtime <= worker.runtime
      BY Numbers DEF IndInv, Grown, Types
<1>3. None \in Calls \union {None} /\ 0 \in Nat
      OBVIOUS
<1> QED  BY <1>1, <1>2, <1>3, WorkerFields, DownStep

LEMMA PortClosesStep ==
    ASSUME IndInv, Reload!PortCloses PROVE IndInv'
<1>1. worker \in WorkerT /\ worker.stored <= worker.runtime /\ worker.runtime <= runtimes
      /\ worker.stored <= worker.stored /\ (~worker.storing => worker.stored = worker.runtime)
      BY Numbers DEF IndInv, Grown, Types
<1> QED  BY <1>1, DownStep DEF Reload!PortCloses

LEMMA WorkerDiesStep ==
    ASSUME IndInv, Reload!WorkerDies PROVE IndInv'
<1>1. PICK kept \in {worker.runtime, worker.stored} :
          Reload!Down([runtime |-> kept, stored |-> kept, reload |-> None, storing |-> FALSE])
      BY DEF Reload!WorkerDies
<1> DEFINE w == [runtime |-> kept, stored |-> kept, reload |-> None, storing |-> FALSE]
<1>2. kept \in Nat /\ worker.stored <= kept /\ kept <= runtimes /\ kept <= kept
      BY Numbers DEF IndInv, Grown, Types
<1>3. w \in WorkerT /\ w.runtime = kept /\ w.stored = kept /\ w.reload = None
      BY <1>2, MakeTypes
<1>4. Reload!Down(w) /\ runtimes' = runtimes
      BY <1>1 DEF Reload!WorkerDies
<1> HIDE DEF w
<1> QED  BY <1>2, <1>3, <1>4, DownStep

LEMMA RotatesStep ==
    ASSUME IndInv, Reload!Rotates PROVE IndInv'
<1> USE DEF Reload!port, Reload!registry
<1>1. worker' = Rotated(worker, runtimes + 1) /\ runtimes' = runtimes + 1
      BY DEF Reload!Rotates, Rotated
<1>2. worker \in WorkerT /\ runtimes + 1 \in Nat /\ None \in Calls \union {None}
      BY DEF IndInv, Types
<1>3. /\ worker' \in WorkerT /\ worker'.reload = worker.reload /\ worker'.storing
      /\ worker'.runtime = runtimes + 1 /\ worker'.stored = worker.stored
      BY <1>1, <1>2, WorkerFields
<1>4. /\ worker.stored <= runtimes + 1 /\ runtimes <= runtimes + 1
      /\ worker.stored <= worker.stored /\ runtimes + 1 <= runtimes + 1
      BY Numbers DEF IndInv, Grown, Types
<1>5. CallsKept(caller, caller') /\ Types'
      BY <1>1, <1>2, <1>3, NothingChanges DEF Types, IndInv, Reload!Rotates
<1>6. {} \in SUBSET Reload!Waiting
      OBVIOUS
<1> QED  BY <1>1, <1>3, <1>4, <1>5, <1>6, EbbStep DEF Reload!Rotates

LEMMA FailsToReloadStep ==
    ASSUME IndInv, Reload!FailsToReload PROVE IndInv'
<1> USE DEF Reload!port, Reload!registry
<1>1. worker' = Unscheduled(worker) /\ runtimes' = runtimes
      BY DEF Reload!FailsToReload, Unscheduled
<1>2. worker \in WorkerT /\ 0 \in Nat /\ None \in Calls \union {None}
      BY DEF IndInv, Types
<1>3. /\ worker' \in WorkerT /\ worker'.reload = None
      /\ worker'.runtime = worker.runtime /\ worker'.stored = worker.runtime
      BY <1>1, <1>2, WorkerFields
<1>4. /\ worker.stored <= worker.runtime /\ worker.runtime <= runtimes
      /\ worker.runtime <= worker.runtime /\ runtimes <= runtimes
      BY Numbers DEF IndInv, Grown, Types
<1>5. CallsKept(caller, caller') /\ Types'
      BY <1>1, <1>3, NothingChanges DEF Types, IndInv, Reload!FailsToReload
<1>6. {} \in SUBSET Reload!Waiting
      OBVIOUS
<1> QED  BY <1>1, <1>3, <1>4, <1>5, <1>6, EbbStep DEF Reload!FailsToReload

LEMMA PollsStep ==
    ASSUME IndInv, NEW c \in Calls, Reload!Polls(c) PROVE IndInv'
<1> USE DEF Reload!port, Reload!registry
<1>1. PICK r \in {"reflected", "deferred"} :
          /\ caller' = [caller EXCEPT ![c].at = "over", ![c].result = r]
          /\ r = "reflected" => Reload!Fresh(c)
      BY DEF Reload!Polls
<1>2. r \in Results /\ "over" \in Stages /\ caller[c] \in CallT
      BY DEF Results, Stages, IndInv, Types
<1> DEFINE y == Ended(caller[c], "over", r)
<1>3. /\ y \in CallT /\ y.at = "over" /\ y.result = r
      /\ y.before = caller[c].before /\ y.runtime = caller[c].runtime
      BY <1>2, CallFields
<1>4. caller' = [caller EXCEPT ![c] = y]
      BY <1>1 DEF Ended
<1> HIDE DEF y
<1>5. Types'
      BY <1>3, <1>4 DEF Types, IndInv, Reload!Polls
<1>6. caller'[c] = y /\ \A d \in Calls : d # c => caller'[d] = caller[d]
      BY <1>4 DEF IndInv, Types
<1>7. Reload!ReflectedIsFresh'
  <2>1. r = "reflected" => caller[c].runtime < runtimes
        BY <1>1 DEF Reload!Fresh, IndInv, Sent, Reload!Polls
  <2> QED  BY <2>1, <1>3, <1>6, Numbers DEF IndInv, Reload!ReflectedIsFresh, Reload!Polls, Types
<1>8. Grown' /\ OwedOnce'
      BY DEF IndInv, Grown, OwedOnce, Owed, Reload!Polls
<1>9. ASSUME NEW d \in Calls PROVE (Past(d) /\ Sent(d) /\ Fits(d) /\ Guarded(d))'
  <2>1. CASE d # c
        BY <2>1, <1>6 DEF IndInv, Past, Sent, Fits, Guarded, Owed, Answering, Reload!Polls
  <2>2. CASE d = c
        BY <2>2, <1>3, <1>6 DEF IndInv, Past, Sent, Fits, Guarded, Owed, Answering, Reload!Polls
  <2> QED  BY <2>1, <2>2
<1> QED  BY <1>5, <1>7, <1>8, <1>9 DEF IndInv

LEMMA ReservesStep ==
    ASSUME IndInv, NEW c \in Calls, Reload!Reserves(c) PROVE IndInv'
<1> USE DEF Reload!port, Reload!registry
<1>1. CASE Reload!SessionIsCurrent(c) /\ reservation = None /\ Reload!SafeBoundary
  <2> DEFINE y == Moved(caller[c], "pending")
  <2>1. caller[c] \in CallT /\ "pending" \in Stages
        BY DEF Stages, IndInv, Types
  <2>2. /\ y \in CallT /\ y.at = "pending" /\ y.result = caller[c].result
        /\ y.before = caller[c].before /\ y.runtime = caller[c].runtime
        BY <2>1, CallFields DEF CallT
  <2>3. caller' = [caller EXCEPT ![c] = y]
        BY <1>1 DEF Reload!Reserves, Moved
  <2> HIDE DEF y
  <2>4. caller'[c] = y /\ \A d \in Calls : d # c => caller'[d] = caller[d]
        BY <2>3 DEF IndInv, Types
  <2>5. reservation' = [of |-> c, gen |-> registered.gen] /\ reservation' \in ReservationT
        BY <1>1, MakeTypes, Numbers DEF Reload!Reserves, IndInv
  <2>6. "prepares" \in OpT
        BY DEF OpT
  <2>7. Types'
        BY <1>1, <2>2, <2>3, <2>5, <2>6 DEF Types, IndInv, Reload!Reserves
  <2>8. reload'[c] = "prepares" /\ \A d \in Calls : d # c => reload'[d] = reload[d]
        BY <1>1, <2>6 DEF IndInv, Types, Reload!Reserves
  <2>9. Reload!ReflectedIsFresh' /\ Grown' /\ OwedOnce'
        BY <2>2, <2>4 DEF IndInv, Grown, OwedOnce, Owed, Reload!ReflectedIsFresh, Reload!Reserves
  <2>10. \A d \in Calls : ~(Owed(d) /\ entry[d].gen = registered.gen)
        BY <1>1 DEF IndInv, Guarded
  <2>11. \A d \in Calls : ~(reload[d] = "prepares" /\ caller[d].before = registered.gen)
        <3>1. \A d \in Calls : [of |-> d, gen |-> registered.gen] \in ReservationT
              BY MakeTypes, Numbers DEF IndInv
        <3> QED  BY <1>1, <3>1, ReloadAssumption DEF IndInv, Guarded, ReservationT
  <2>12. reload[c] = "none" /\ entry[c].state = "none" /\ ~Owed(c)
        BY DEF IndInv, Fits, Owed, Reload!Reserves
  <2>13. ASSUME NEW d \in Calls PROVE (Past(d) /\ Sent(d) /\ Fits(d) /\ Guarded(d))'
    <3>1. CASE d # c
          BY <3>1, <2>4, <2>5, <2>8, <2>10, <2>11
             DEF IndInv, Past, Sent, Fits, Guarded, Owed, Answering, Reload!Reserves
    <3>2. CASE d = c
          BY <3>2, <2>2, <2>4, <2>5, <2>8, <2>10, <2>12
             DEF IndInv, Past, Sent, Fits, Guarded, Owed, Answering, Reload!Reserves
    <3> QED  BY <3>1, <3>2
  <2> QED  BY <2>7, <2>9, <2>13 DEF IndInv
<1>2. CASE ~(Reload!SessionIsCurrent(c) /\ reservation = None /\ Reload!SafeBoundary)
  <2>1. CallsKept(caller, caller')
    <3>1. "refused" \in Results /\ "refused" # "reflected"
          BY DEF Results
    <3> QED  BY <1>2, <3>1, ToldKeeps DEF Reload!Reserves, IndInv, Types
  <2>2. Types'
        BY <1>2, <2>1 DEF CallsKept, Types, IndInv, Reload!Reserves
  <2>3. /\ worker.stored <= worker.runtime /\ worker.runtime <= runtimes
        /\ runtimes <= runtimes /\ worker.stored <= worker.stored
        /\ ~worker.storing => worker.stored = worker.runtime
        BY Numbers DEF IndInv, Grown, Types
  <2>4. {} \in SUBSET Reload!Waiting
        OBVIOUS
  <2> QED  BY <1>2, <2>1, <2>2, <2>3, <2>4, EbbStep DEF Reload!Reserves
<1> QED  BY <1>1, <1>2

LEMMA EndsUnsentStep ==
    ASSUME IndInv, NEW c \in Calls, Reload!EndsUnsent(c) PROVE IndInv'
<1> USE DEF Reload!port, Reload!registry
<1>1. CallsKept(caller, caller')
  <2>1. "refused" \in Results /\ "refused" # "reflected"
        BY DEF Results
  <2> QED  BY <2>1, ToldKeeps DEF Reload!EndsUnsent, IndInv, Types
<1>2. /\ reload' \in [Calls -> OpT] /\ reload'[c] = "over"
      /\ \A d \in Calls : d # c => reload'[d] = reload[d]
  <2>1. "over" \in OpT
        BY DEF OpT
  <2> QED  BY <2>1 DEF Reload!EndsUnsent, IndInv, Types
<1>3. /\ entry' \in [Calls -> EntryT] /\ \A d \in Calls : d # c => entry'[d] = entry[d]
      /\ entry[c].state = "none" /\ entry'[c].state \in {"none", "blocked"}
  <2>1. entry[c].state = "none"
        BY DEF IndInv, Fits, Reload!EndsUnsent
  <2>2. CASE entry' = entry
        BY <2>1, <2>2 DEF IndInv, Types
  <2>3. CASE entry' = [entry EXCEPT ![c] = [state |-> "blocked", gen |-> caller[c].before]]
    <3>1. [state |-> "blocked", gen |-> caller[c].before] \in EntryT
          BY MakeTypes, Numbers DEF States, IndInv
    <3> QED  BY <2>1, <2>3, <3>1 DEF IndInv, Types
  <2> QED  BY <2>2, <2>3 DEF Reload!EndsUnsent
<1>4. \A d \in Calls : (Owed(d)' <=> Owed(d)) /\ (Owed(d) => entry'[d] = entry[d])
      BY <1>3 DEF Owed
<1>5. \/ binding' = binding
      \/ binding' = [gen |-> registered.gen, runtime |-> registered.runtime]
      BY DEF Reload!EndsUnsent
<1>6. /\ binding' \in BindingT /\ binding.gen <= binding'.gen /\ binding'.gen <= registered.gen
      /\ binding'.runtime <= worker.stored
      /\ binding'.gen = registered.gen => binding'.runtime = registered.runtime
      /\ \A d \in Calls : caller[d].at # "idle" /\ binding'.gen = caller[d].before
              => binding'.runtime = caller[d].runtime
  <2>1. binding.gen <= binding.gen
        BY Numbers DEF IndInv
  <2>2. CASE binding' = binding
        BY <2>1, <2>2 DEF IndInv, Types, Grown, Past
  <2>3. CASE binding' = [gen |-> registered.gen, runtime |-> registered.runtime]
        BY <2>3, MakeTypes, Numbers DEF IndInv, Types, Grown, Past
  <2> QED  BY <1>5, <2>2, <2>3
<1>7. reservation' \in {reservation, Reload!Released(c)}
      BY DEF Reload!EndsUnsent
<1>8. \/ reservation' = reservation
      \/ reservation # None /\ reservation.of = c /\ reservation' = None
      BY <1>7 DEF Reload!Released
<1>9. Types'
      BY <1>1, <1>2, <1>3, <1>6, <1>8 DEF CallsKept, Types, IndInv, Reload!EndsUnsent
<1>10. Grown' /\ OwedOnce' /\ Reload!ReflectedIsFresh'
      BY <1>1, <1>4, <1>6, Numbers
         DEF IndInv, Grown, OwedOnce, Reload!ReflectedIsFresh, CallsKept, Reload!EndsUnsent
<1>11. ASSUME NEW d \in Calls PROVE (Past(d) /\ Sent(d) /\ Fits(d) /\ Guarded(d))'
  <2>1. Past(d)'
        BY <1>1, <1>6 DEF IndInv, Past, CallsKept, Reload!EndsUnsent
  <2>2. binding'.gen \in Nat /\ binding.gen \in Nat /\ caller[d].before \in Nat /\ entry[d].gen \in Nat
        BY <1>6, Numbers DEF IndInv, BindingT
  <2>3. Sent(d)'
        BY <1>1, <1>2, <1>6, <2>2 DEF IndInv, Sent, CallsKept, Reload!EndsUnsent
  <2>4. Fits(d)'
    <3>1. CASE d # c
          BY <3>1, <1>1, <1>2, <1>3, <1>4 DEF IndInv, Fits, CallsKept, Answering, Reload!EndsUnsent
    <3>2. CASE d = c
          BY <3>2, <1>1, <1>2, <1>3, <1>4 DEF IndInv, Fits, CallsKept, Answering, Owed, Reload!EndsUnsent
    <3> QED  BY <3>1, <3>2
  <2>5. Guarded(d)'
    <3>1. ~(reload'[d] = "prepares") \/ d # c
          BY <1>2
    <3>2. reload'[d] = "prepares" /\ caller'[d].before = registered.gen
              => reservation' = [of |-> d, gen |-> registered.gen]
      <4>1. reload'[d] = "prepares" /\ caller'[d].before = registered.gen
                => reservation = [of |-> d, gen |-> registered.gen] /\ d # c
            BY <1>1, <1>2 DEF IndInv, Guarded, CallsKept
      <4> QED  BY <4>1, <1>8
    <3>3. Owed(d)' => entry'[d].gen <= binding'.gen
          BY <1>4, <1>6, <2>2 DEF IndInv, Guarded
    <3>4. Owed(d)' /\ entry'[d].gen = registered.gen
              => /\ reservation' # None /\ reservation'.gen = registered.gen
                 /\ reservation'.of \in {d, None}
      <4>1. Owed(d) => d # c
            BY <1>3 DEF Owed
      <4> QED  BY <4>1, <1>4, <1>8, ReloadAssumption DEF IndInv, Guarded
    <3> QED  BY <3>2, <3>3, <3>4 DEF Guarded, Reload!EndsUnsent
  <2> QED  BY <2>1, <2>3, <2>4, <2>5
<1> QED  BY <1>9, <1>10, <1>11 DEF IndInv

LEMMA SendsStep ==
    ASSUME IndInv, NEW c \in Calls, Reload!Sends(c) PROVE IndInv'
<1> USE DEF Reload!port, Reload!registry
<1>1. /\ reload[c] = "prepares" /\ caller[c].before = registered.gen /\ entry[c].state = "none"
      /\ caller[c].at \notin {"idle", "asks"} /\ reservation = [of |-> c, gen |-> registered.gen]
      BY DEF Reload!Sends, Reload!SessionIsCurrent, IndInv, Fits, Guarded
<1> DEFINE e == [state |-> "dispatched", gen |-> registered.gen]
<1>2. e \in EntryT /\ e.state = "dispatched" /\ e.gen = registered.gen
      BY MakeTypes, Numbers DEF States, IndInv
<1>3. entry' = [entry EXCEPT ![c] = e]
      BY DEF Reload!Sends
<1> HIDE DEF e
<1>4. /\ entry' \in [Calls -> EntryT] /\ entry'[c] = e
      /\ \A d \in Calls : d # c => entry'[d] = entry[d]
      BY <1>2, <1>3 DEF IndInv, Types
<1>5. /\ reload' \in [Calls -> OpT] /\ reload'[c] = "waits"
      /\ \A d \in Calls : d # c => reload'[d] = reload[d]
  <2>1. "waits" \in OpT
        BY DEF OpT
  <2> QED  BY <2>1 DEF Reload!Sends, IndInv, Types
<1>6. /\ binding' \in BindingT /\ binding'.gen = registered.gen /\ binding'.runtime = registered.runtime
      BY MakeTypes, Numbers DEF Reload!Sends, IndInv
<1>7. Types'
      BY <1>4, <1>5, <1>6 DEF Types, IndInv, Reload!Sends
<1>8. \A d \in Calls : Owed(d) => ~(entry[d].gen = registered.gen) /\ d # c
  <2>1. ASSUME NEW d \in Calls, Owed(d) PROVE ~(entry[d].gen = registered.gen) /\ d # c
    <3>1. d # c
          BY <1>1, <2>1 DEF Owed
    <3>2. reservation.of = c /\ c # None
          BY <1>1, ReloadAssumption
    <3> QED  BY <2>1, <3>1, <3>2 DEF IndInv, Guarded
  <2> QED  BY <2>1
<1>9. Owed(c)' /\ \A d \in Calls : d # c => (Owed(d)' <=> Owed(d))
      BY <1>2, <1>4 DEF Owed
<1>10. OwedOnce'
      BY <1>2, <1>4, <1>8, <1>9 DEF IndInv, OwedOnce
<1>11. Grown' /\ Reload!ReflectedIsFresh'
      BY <1>6, Numbers DEF IndInv, Grown, Types, Reload!ReflectedIsFresh, Reload!Sends
<1>12. ASSUME NEW d \in Calls PROVE (Past(d) /\ Sent(d) /\ Fits(d) /\ Guarded(d))'
  <2>1. Past(d)'
        BY <1>6 DEF IndInv, Past, Reload!Sends
  <2>2. /\ registered.gen \in Nat /\ binding.gen \in Nat /\ caller[d].before \in Nat
        /\ entry[d].gen \in Nat /\ binding.gen <= registered.gen
        BY Numbers DEF IndInv, Grown
  <2>3. Sent(d)'
    <3>1. CASE d # c
          BY <3>1, <1>5, <1>6, <2>2 DEF IndInv, Sent, Reload!Sends
    <3>2. CASE d = c
          BY <3>2, <1>1, <1>6, <2>2 DEF Sent, Reload!Sends
    <3> QED  BY <3>1, <3>2
  <2>4. Fits(d)'
    <3>1. CASE d # c
          BY <3>1, <1>4, <1>5, <1>9 DEF IndInv, Fits, Answering, Reload!Sends
    <3>2. CASE d = c
      <4>1. ~Answering(c)
            BY <1>1 DEF IndInv, Fits, Owed
      <4> QED  BY <3>2, <4>1, <1>1, <1>5, <1>9 DEF Fits, Answering, Reload!Sends
    <3> QED  BY <3>1, <3>2
  <2>5. Guarded(d)'
    <3>1. CASE d # c
          BY <3>1, <1>1, <1>4, <1>5, <1>6, <1>8, <1>9, <2>2 DEF IndInv, Guarded, Reload!Sends
    <3>2. CASE d = c
          BY <3>2, <1>1, <1>2, <1>4, <1>5, <1>6, <2>2, ReloadAssumption, MakeTypes
             DEF Guarded, Reload!Sends, ReservationT
    <3> QED  BY <3>1, <3>2
  <2> QED  BY <2>1, <2>3, <2>4, <2>5
<1> QED  BY <1>7, <1>10, <1>11, <1>12 DEF IndInv

LEMMA HearsStep ==
    ASSUME IndInv, NEW c \in Calls, Reload!Hears(c) PROVE IndInv'
<1> USE DEF Reload!port, Reload!registry
<1>1. PICK a \in back :
          /\ a.of = c /\ back' = back \ {a}
          /\ entry' = [entry EXCEPT ![c].state =
                          IF ~a.ok THEN "unknown_effect"
                          ELSE IF reload[c] = "waits" THEN "applied" ELSE "reconciled"]
          /\ reload' = [reload EXCEPT ![c] = "over"]
          /\ caller' = IF reload[c] = "waits" /\ a.ok /\ caller[c].at = "pending" /\ caller[c].reads
                     THEN [caller EXCEPT ![c].at = "polls"]
                     ELSE Reload!Told(caller, c, IF a.ok THEN "accepted" ELSE "error")
      BY DEF Reload!Hears
<1> DEFINE st == IF ~a.ok THEN "unknown_effect"
                 ELSE IF reload[c] = "waits" THEN "applied" ELSE "reconciled"
<1>2. Owed(c) /\ c \notin wire /\ ~Answering(c)'
      BY <1>1 DEF IndInv, Fits, Answering
<1>3. reload[c] \notin {"none", "prepares"} /\ caller[c].at \notin {"idle", "asks"}
      BY <1>2 DEF Owed, IndInv, Fits
<1>4. st \in States /\ st \in {"unknown_effect", "applied", "reconciled"}
      BY DEF States
<1> HIDE DEF st
<1>5. entry' = [entry EXCEPT ![c] = Settled(entry[c], st)]
      BY <1>1 DEF Settled, st
<1>6. /\ entry' \in [Calls -> EntryT] /\ entry'[c].state = st /\ entry'[c].gen = entry[c].gen
      /\ \A d \in Calls : d # c => entry'[d] = entry[d]
      BY <1>4, <1>5, EntryFields DEF IndInv, Types
<1>7. /\ reload' \in [Calls -> OpT] /\ reload'[c] = "over"
      /\ \A d \in Calls : d # c => reload'[d] = reload[d]
  <2>1. "over" \in OpT
        BY DEF OpT
  <2> QED  BY <1>1, <2>1 DEF IndInv, Types
<1>8. /\ caller' \in [Calls -> CallT]
      /\ \A d \in Calls :
            /\ caller'[d].before = caller[d].before /\ caller'[d].runtime = caller[d].runtime
            /\ caller'[d].at = "idle" <=> caller[d].at = "idle"
            /\ caller'[d].at = "asks" => caller[d].at = "asks"
            /\ caller'[d].at = "polls" => caller[d].at = "polls" \/ (d = c /\ reload[c] = "waits")
            /\ caller'[d].result = "reflected" => caller[d].result = "reflected"
  <2>1. CASE reload[c] = "waits" /\ a.ok /\ caller[c].at = "pending" /\ caller[c].reads
    <3> DEFINE y == Moved(caller[c], "polls")
    <3>1. caller[c] \in CallT /\ "polls" \in Stages /\ "error" \in Results
          BY DEF Stages, Results, IndInv, Types
    <3>2. /\ y \in CallT /\ y.at = "polls" /\ y.result = caller[c].result
          /\ y.before = caller[c].before /\ y.runtime = caller[c].runtime
          BY <3>1, CallFields
    <3>3. caller' = [caller EXCEPT ![c] = y]
          BY <1>1, <2>1 DEF Moved
    <3> HIDE DEF y
    <3>4. caller'[c] = y /\ \A d \in Calls : d # c => caller'[d] = caller[d]
          BY <3>3 DEF IndInv, Types
    <3> QED  BY <1>3, <2>1, <3>2, <3>3, <3>4 DEF IndInv, Types
  <2>2. CASE ~(reload[c] = "waits" /\ a.ok /\ caller[c].at = "pending" /\ caller[c].reads)
    <3> DEFINE r == IF a.ok THEN "accepted" ELSE "error"
    <3>1. r \in Results /\ r # "reflected"
          BY DEF Results
    <3>2. caller' = Reload!Told(caller, c, r)
          BY <1>1, <2>2
    <3> HIDE DEF r
    <3>3. CallsKept(caller, caller')
          BY <3>1, <3>2, ToldKeeps DEF IndInv, Types
    <3> QED  BY <3>3 DEF CallsKept
  <2> QED  BY <2>1, <2>2
<1>9. Types'
      BY <1>1, <1>6, <1>7, <1>8 DEF Types, IndInv, Reload!Hears
<1>10. \A d \in Calls : Owed(d)' => Owed(d) \/ d = c
      BY <1>6 DEF Owed
<1>11. worker' = worker /\ wire' = wire /\ reservation' = reservation /\ registered' = registered
       /\ binding' = binding /\ generations' = generations /\ runtimes' = runtimes /\ back' \subseteq back
      BY DEF Reload!Hears
<1>12. Grown' /\ OwedOnce' /\ Reload!ReflectedIsFresh'
      BY <1>2, <1>6, <1>8, <1>10, <1>11
         DEF IndInv, Grown, OwedOnce, Reload!ReflectedIsFresh
<1>13. ASSUME NEW d \in Calls PROVE (Past(d) /\ Sent(d) /\ Fits(d) /\ Guarded(d))'
  <2>1. Past(d)' /\ Sent(d)'
        BY <1>7, <1>8, <1>11 DEF IndInv, Past, Sent
  <2>2. Fits(d)'
    <3>1. CASE d # c
          BY <3>1, <1>6, <1>7, <1>8, <1>11 DEF IndInv, Fits, Owed, Answering
    <3>2. CASE d = c
          BY <3>2, <1>2, <1>3, <1>4, <1>6, <1>7, <1>8, <1>11 DEF Fits, Owed, Answering
    <3> QED  BY <3>1, <3>2
  <2>3. Guarded(d)'
        BY <1>2, <1>6, <1>7, <1>8, <1>10, <1>11 DEF IndInv, Guarded
  <2> QED  BY <2>1, <2>2, <2>3
<1> QED  BY <1>9, <1>12, <1>13 DEF IndInv

LEMMA AcceptsStep ==
    ASSUME IndInv, NEW c \in Calls, Reload!Accepts(c) PROVE IndInv'
<1> USE DEF Reload!port, Reload!registry
<1>1. worker' = worker \/ worker' = Scheduled(worker, c)
      BY DEF Reload!Accepts, Scheduled
<1>2. /\ worker' \in WorkerT /\ worker'.runtime = worker.runtime
      /\ worker'.stored = worker.stored /\ worker'.storing = worker.storing
      /\ worker'.reload \in {worker.reload, c}
  <2>1. worker \in WorkerT /\ c \in Calls \union {None} /\ 0 \in Nat
        BY DEF IndInv, Types
  <2> QED  BY <1>1, <2>1, WorkerFields
<1>3. [of |-> c, ok |-> worker.reload = None] \in AnswerT
      BY MakeTypes
<1>4. Types'
      BY <1>2, <1>3 DEF Types, IndInv, Reload!Accepts
<1>5. c \in wire /\ wire' \subseteq wire
      BY DEF Reload!Accepts
<1>6. \A d \in Calls : Answering(d)' => Answering(d) \/ d = c
      BY DEF Reload!Accepts, Answering
<1>7. Grown' /\ OwedOnce' /\ Reload!ReflectedIsFresh'
      BY <1>2 DEF IndInv, Grown, OwedOnce, Owed, Reload!ReflectedIsFresh, Reload!Accepts
<1>8. ASSUME NEW d \in Calls PROVE (Past(d) /\ Sent(d) /\ Fits(d) /\ Guarded(d))'
  <2>1. (Past(d) /\ Sent(d) /\ Guarded(d))'
        BY <1>2 DEF IndInv, Past, Sent, Guarded, Owed, Reload!Accepts
  <2>2. Fits(d)'
    <3>1. /\ d \in wire' \/ Answering(d)' => Owed(d)
          /\ worker'.reload = d => Owed(d) \/ entry[d].state = "reconciled"
          BY <1>2, <1>5, <1>6 DEF IndInv, Fits
    <3>2. d \in wire' => ~Answering(d)'
          BY <1>5, <1>6 DEF IndInv, Fits, Reload!Accepts
    <3>3. \A a, b \in back' : a.of = d /\ b.of = d => a = b
      <4>1. ~Answering(c)
            BY <1>5 DEF IndInv, Fits
      <4> QED  BY <4>1 DEF IndInv, Fits, Answering, Reload!Accepts
    <3> QED  BY <3>1, <3>2, <3>3 DEF IndInv, Fits, Owed, Reload!Accepts
  <2> QED  BY <2>1, <2>2
<1> QED  BY <1>4, <1>7, <1>8 DEF IndInv

LEMMA GreetsStep ==
    ASSUME IndInv, Reload!Greets PROVE IndInv'
<1> USE DEF Reload!port, Reload!registry
<1>1. Reload!Waiting \in SUBSET Calls /\ Reload!Invalidated(Reload!Waiting)
      BY DEF Reload!Waiting, Reload!Greets
<1>2. /\ CallsKept(caller, caller') /\ entry' \in [Calls -> EntryT] /\ reload' \in [Calls -> OpT]
      /\ \A d \in Calls :
            /\ entry'[d].gen = entry[d].gen
            /\ entry'[d].state = IF d \in Reload!Waiting THEN "unknown_effect" ELSE entry[d].state
            /\ reload'[d] = IF d \in Reload!Waiting THEN "over" ELSE reload[d]
      BY <1>1, InvalidatedKeeps DEF IndInv
<1>3. \A d \in Calls : d \in Reload!Waiting => reload[d] = "waits"
      BY DEF Reload!Waiting
<1>4. \A d \in Calls : Owed(d)' <=> Owed(d)
      BY <1>2, <1>3 DEF Owed, IndInv, Fits
<1>5. \A d \in Calls : reload'[d] # "waits"
      BY <1>2 DEF Reload!Waiting
<1>6. /\ registered' \in ProfileT /\ generations' \in Nat /\ registered'.runtime = worker.runtime
      /\ \/ Reload!SameRuntime /\ registered'.gen = registered.gen /\ generations' = generations
         \/ ~Reload!SameRuntime /\ registered'.gen = generations + 1 /\ generations' = generations + 1
  <2>1. generations + 1 \in Nat
        BY DEF IndInv, Types
  <2>2. CASE Reload!SameRuntime
        BY <2>2, MakeTypes, Numbers DEF Reload!Greets, IndInv, Types
  <2>3. CASE ~Reload!SameRuntime
    <3>1. /\ registered' = [gen |-> generations + 1, runtime |-> worker.runtime, up |-> TRUE]
          /\ generations' = generations + 1
          BY <2>3 DEF Reload!Greets
    <3> QED  BY <2>1, <2>3, <3>1, MakeTypes, Numbers DEF IndInv
  <2> QED  BY <2>2, <2>3
<1>7. serving' = TRUE /\ Types'
      BY <1>2, <1>6 DEF CallsKept, Types, IndInv, Reload!Greets
<1>8. /\ registered.gen \in Nat /\ binding.gen \in Nat /\ generations \in Nat /\ runtimes \in Nat
      /\ registered.runtime \in Nat /\ worker.stored \in Nat /\ worker.runtime \in Nat
      /\ worker.stored = worker.runtime /\ registered.runtime <= worker.runtime
      /\ worker.runtime <= runtimes /\ binding.gen <= registered.gen /\ registered.gen <= generations
      /\ ~Reload!SameRuntime => registered.runtime < runtimes
      BY Numbers DEF IndInv, Types, Grown, Reload!Greets, Reload!SameRuntime
<1>9. Grown'
      BY <1>6, <1>8 DEF IndInv, Grown, Reload!Greets, Reload!SameRuntime
<1>10. OwedOnce' /\ Reload!ReflectedIsFresh'
      BY <1>2, <1>4 DEF IndInv, OwedOnce, Reload!ReflectedIsFresh, CallsKept, Reload!Greets
<1>11. ASSUME NEW d \in Calls PROVE (Past(d) /\ Sent(d) /\ Fits(d) /\ Guarded(d))'
  <2>1. /\ caller'[d].before = caller[d].before /\ caller'[d].runtime = caller[d].runtime
        /\ caller[d].before \in Nat /\ caller[d].runtime \in Nat /\ entry[d].gen \in Nat
        /\ caller'[d].at = "idle" <=> caller[d].at = "idle"
        /\ caller'[d].at = "polls" => caller[d].at = "polls"
        BY <1>2, Numbers DEF CallsKept, IndInv
  <2>2. CASE Reload!SameRuntime
    <3>1. /\ registered'.gen = registered.gen /\ registered'.runtime = registered.runtime
          /\ generations' = generations
          BY <1>6, <1>8, <2>2 DEF Reload!SameRuntime
    <3>2. Past(d)' /\ Sent(d)'
          BY <1>5, <2>1, <3>1 DEF IndInv, Past, Sent, Reload!Greets
    <3>3. Guarded(d)'
          BY <1>2, <1>4, <1>5, <2>1, <3>1 DEF IndInv, Guarded, Reload!Greets
    <3> QED  BY <3>2, <3>3, <1>2, <1>3, <1>4 DEF IndInv, Fits, CallsKept, Answering, Reload!Greets
  <2>3. CASE ~Reload!SameRuntime
    <3>1. registered'.gen = generations + 1 /\ generations' = generations + 1
          BY <1>6, <2>3
    <3>2. Past(d)'
          BY <1>8, <2>1, <3>1 DEF IndInv, Past, Reload!Greets
    <3>3. Sent(d)'
      <4>1. caller[d].at # "idle" /\ registered.gen = caller[d].before => caller[d].runtime < runtimes
            BY <1>8, <2>3 DEF IndInv, Past
      <4> QED  BY <1>5, <1>8, <2>1, <3>1, <4>1 DEF IndInv, Sent, Reload!Greets
    <3>4. reload'[d] = "prepares" => caller[d].at # "idle" /\ caller[d].before <= generations
          BY <1>2 DEF IndInv, Fits, Past
    <3>5. Guarded(d)'
          BY <1>4, <1>8, <2>1, <3>1, <3>4, <1>2 DEF IndInv, Guarded, Reload!Greets
    <3> QED  BY <3>2, <3>3, <3>5, <1>2, <1>3, <1>4 DEF IndInv, Fits, CallsKept, Answering, Reload!Greets
  <2> QED  BY <2>2, <2>3
<1> QED  BY <1>7, <1>9, <1>10, <1>11 DEF IndInv

LEMMA RecordsStep ==
    ASSUME IndInv, Reload!Records PROVE IndInv'
<1> USE DEF Reload!port, Reload!registry
<1>1. /\ binding' \in BindingT /\ binding.gen <= binding'.gen /\ binding'.gen <= registered.gen
      /\ binding'.runtime <= worker.stored
      /\ binding'.gen = registered.gen => binding'.runtime = registered.runtime
      /\ \A d \in Calls : caller[d].at # "idle" /\ binding'.gen = caller[d].before
              => binding'.runtime = caller[d].runtime
  <2>1. binding.gen <= binding.gen
        BY Numbers DEF IndInv
  <2>2. CASE binding' = binding
        BY <2>1, <2>2 DEF IndInv, Types, Grown, Past
  <2>3. CASE binding' = [gen |-> registered.gen, runtime |-> registered.runtime]
        BY <2>3, MakeTypes, Numbers DEF IndInv, Types, Grown, Past
  <2> QED  BY <2>2, <2>3 DEF Reload!Records
<1>2. \/ reservation' = reservation
      \/ reservation # None /\ reservation.gen # registered.gen /\ reservation' = None
      BY DEF Reload!Records
<1>3. Types'
      BY <1>1, <1>2 DEF Types, IndInv, Reload!Records
<1>4. Grown' /\ OwedOnce' /\ Reload!ReflectedIsFresh'
      BY <1>1, Numbers DEF IndInv, Grown, OwedOnce, Owed, Reload!ReflectedIsFresh, Reload!Records
<1>5. ASSUME NEW d \in Calls PROVE (Past(d) /\ Sent(d) /\ Fits(d) /\ Guarded(d))'
  <2>1. binding'.gen \in Nat /\ binding.gen \in Nat /\ caller[d].before \in Nat /\ entry[d].gen \in Nat
        BY <1>1, Numbers DEF IndInv, BindingT
  <2>2. Past(d)'
        BY <1>1 DEF IndInv, Past, Reload!Records
  <2>3. Sent(d)'
        BY <1>1, <2>1 DEF IndInv, Sent, Reload!Records
  <2>4. Fits(d)'
        BY DEF IndInv, Fits, Owed, Answering, Reload!Records
  <2>5. Guarded(d)'
        BY <1>1, <1>2, <2>1 DEF IndInv, Guarded, Owed, Reload!Records
  <2> QED  BY <2>2, <2>3, <2>4, <2>5
<1> QED  BY <1>3, <1>4, <1>5 DEF IndInv

LEMMA BrokerRestartsStep ==
    ASSUME IndInv, Reload!BrokerRestarts PROVE IndInv'
<1> USE DEF Reload!port, Reload!registry
<1>1. CallsKept(caller, caller')
  <2>1. /\ "refused" \in Results /\ "refused" # "reflected"
        /\ "unknown" \in Results /\ "unknown" # "reflected"
        BY DEF Results
  <2>2. caller' = [d \in Calls |-> IF caller[d].at = "asks" THEN Reload!Told(caller, d, "refused")[d]
                                 ELSE Reload!Told(caller, d, "unknown")[d]]
        BY DEF Reload!BrokerRestarts
  <2> QED  BY <2>1, <2>2, ToldKeeps DEF CallsKept, IndInv, Types
<1>2. /\ reload' \in [Calls -> OpT]
      /\ \A d \in Calls : reload'[d] = IF reload[d] \in {"prepares", "waits"} THEN "over" ELSE reload[d]
  <2>1. "over" \in OpT
        BY DEF OpT
  <2> QED  BY <2>1 DEF Reload!BrokerRestarts, IndInv, Types
<1>3. /\ registered' \in ProfileT /\ registered'.gen = binding.gen /\ registered'.runtime = binding.runtime
      BY MakeTypes, Numbers DEF Reload!BrokerRestarts, IndInv
<1>4. reservation' = Reload!Restored /\ Reload!Restored \in {[of |-> None, gen |-> binding.gen], None}
      /\ [of |-> None, gen |-> binding.gen] \in ReservationT
      BY MakeTypes, Numbers DEF Reload!BrokerRestarts, Reload!Restored, IndInv
<1>5. Types'
      BY <1>1, <1>2, <1>3, <1>4 DEF CallsKept, Types, IndInv, Reload!BrokerRestarts
<1>6. Grown' /\ OwedOnce' /\ Reload!ReflectedIsFresh'
      BY <1>1, <1>3, Numbers
         DEF IndInv, Types, Grown, OwedOnce, Owed, Reload!ReflectedIsFresh, CallsKept, Reload!BrokerRestarts
<1>7. ASSUME NEW d \in Calls PROVE (Past(d) /\ Sent(d) /\ Fits(d) /\ Guarded(d))'
  <2>1. Past(d)'
        BY <1>1, <1>3 DEF IndInv, Past, CallsKept, Reload!BrokerRestarts
  <2>2. reload'[d] \notin {"prepares", "waits"}
        BY <1>2
  <2>3. /\ registered.gen \in Nat /\ binding.gen \in Nat /\ caller[d].before \in Nat
        /\ binding.gen <= registered.gen /\ entry[d].gen \in Nat
        BY Numbers DEF IndInv, Grown
  <2>4. Sent(d)'
    <3>1. caller'[d].at = "polls" => caller[d].at = "polls" /\ caller'[d].at # "idle"
          BY <1>1 DEF CallsKept, IndInv, Sent
    <3>2. caller'[d].before = caller[d].before /\ caller'[d].runtime = caller[d].runtime
          BY <1>1 DEF CallsKept
    <3>3. binding' = binding /\ runtimes' = runtimes
          BY DEF Reload!BrokerRestarts
    <3>4. caller[d].at = "polls"
              => /\ caller[d].before <= binding.gen
                 /\ registered.gen # caller[d].before => caller[d].runtime < runtimes
          BY DEF IndInv, Sent
    <3>5. caller[d].at = "polls" /\ binding.gen # caller[d].before => caller[d].runtime < runtimes
          BY <2>3, <3>4
    <3> QED  BY <1>3, <2>2, <3>1, <3>2, <3>3, <3>4, <3>5 DEF Sent
  <2>5. Fits(d)'
        BY <1>1, <1>2, <2>2 DEF IndInv, Fits, CallsKept, Answering, Owed, Reload!BrokerRestarts
  <2>6. Owed(d) /\ entry[d].gen = binding.gen => Reload!Restored = [of |-> None, gen |-> binding.gen]
        BY DEF Reload!Restored, Owed
  <2>7. Guarded(d)'
        BY <1>3, <1>4, <2>2, <2>3, <2>6, ReloadAssumption
           DEF IndInv, Guarded, Owed, ReservationT, Reload!BrokerRestarts
  <2> QED  BY <2>1, <2>4, <2>5, <2>7
<1> QED  BY <1>5, <1>6, <1>7 DEF IndInv

-----------------------------------------------------------------------------
(* Theorems                                                                *)

LEMMA UnchangedStep == IndInv /\ UNCHANGED Reload!vars => IndInv'
BY DEF Reload!vars, IndInv, Types, Grown, OwedOnce, Owed, Reload!ReflectedIsFresh, Past, Sent, Fits, Guarded,
       Answering

LEMMA NextInv == IndInv /\ [Reload!Next]_(Reload!vars) => IndInv'
<1> SUFFICES ASSUME IndInv, Reload!Next PROVE IndInv'
    BY UnchangedStep
<1>1. ASSUME NEW c \in Calls,
             Reload!Plans(c) \/ Reload!GivesUp(c) \/ Reload!Polls(c) \/ Reload!Reserves(c)
             \/ Reload!EndsUnsent(c)
             \/ Reload!Sends(c) \/ Reload!Hears(c) \/ Reload!TimesOut(c) \/ Reload!Accepts(c)
      PROVE  IndInv'
      BY <1>1, PlansStep, GivesUpStep, PollsStep, ReservesStep, EndsUnsentStep, SendsStep,
         HearsStep, TimesOutStep, AcceptsStep
<1>2. CASE Reload!Greets \/ Reload!Records \/ Reload!Works \/ Reload!BrokerRestarts
      BY <1>2, GreetsStep, RecordsStep, WorksStep, BrokerRestartsStep
<1>3. CASE Reload!Rotates \/ Reload!Reloads \/ Reload!FailsToReload \/ Reload!PortCloses \/ Reload!WorkerDies
      BY <1>3, RotatesStep, ReloadsStep, FailsToReloadStep, PortClosesStep, WorkerDiesStep
<1> QED  BY <1>1, <1>2, <1>3 DEF Reload!Next

LEMMA Invariant == Reload!Spec => []IndInv
BY InitInv, NextInv, PTL DEF Reload!Spec

\* A generation of the Extension is asked to reload once (see ExtensionReload), for any number
\* of requests, losses of the port and of the worker, and restarts of the broker.
THEOREM ReloadedOncePerGeneration == Reload!Spec => []OneReloadPerGeneration
<1>1. IndInv => OneReloadPerGeneration
      BY DEF IndInv, OneReloadPerGeneration, Reload!OneReloadPerGeneration, Reload!UnderWay, OwedOnce, Fits
<1> QED  BY <1>1, Invariant, PTL

\* "reflected" is said of a new identity of the Extension only, for any number of requests,
\* losses and restarts.
THEOREM ReflectionsAreFresh == Reload!Spec => []ReflectedIsFresh
<1>1. IndInv => ReflectedIsFresh
      BY DEF IndInv, ReflectedIsFresh
<1> QED  BY <1>1, Invariant, PTL
=============================================================================
