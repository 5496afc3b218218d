--------------------------- MODULE MCSessionLease ---------------------------
(* Small instances of SessionLease for TLC. *)
EXTENDS SessionLease, TLC

\* Clients, tabs, sessions, leases, relays and operation slots are
\* interchangeable: no definition tells two of them apart.
Names == Permutations(Clients) \union Permutations(Tabs)
         \union Permutations(SessionIds) \union Permutations(LeaseIds)
         \union Permutations(Relays) \union Permutations(Ops)

\* Either one client is up and every relay is new, or one relay has registered and every
\* client is up: the crossings of two relays and those of two clients are explored apart.
MCInit ==
    /\ reg = EmptyRegistry /\ minted = {} /\ granted = {}
    /\ \/ /\ \E c \in Clients : client = [x \in Clients |-> IF x = c THEN "up" ELSE "gone"]
          /\ relay = [r \in Relays |-> "new"]
          /\ claims = {} /\ gens = 0
          /\ profile = [connected |-> FALSE, peer |-> NoRelay, gen |-> 0]
       \/ \E r \in Relays :
             /\ client = [c \in Clients |-> "up"]
             /\ relay = [x \in Relays |-> IF x = r THEN "up" ELSE "gone"]
             /\ claims = {r} /\ gens = 1
             /\ profile = [connected |-> TRUE, peer |-> r, gen |-> 1]
    /\ hello = [r \in Relays |-> NoHello]
    /\ op = [o \in Ops |-> FreeOp]
    /\ cleanup = [sk \in SessionIds \X Kinds |-> NoCleanup]
    /\ tabTask = [t \in Tabs |-> NoTask]

MCSpec == MCInit /\ [][Next]_vars

\* One relay has registered and a client has opened the first session, of a task or of
\* none: the clients are alike, so it does not matter which.
OpenedInit ==
    LET first == CHOOSE c \in Clients : TRUE IN
    \E s \in SessionIds, r \in Relays, t \in Tasks \union {NoTask} :
       /\ reg = Opened(EmptyRegistry, s, first, t, 1) /\ minted = {s} /\ granted = {}
       /\ relay = [x \in Relays |-> IF x = r THEN "up" ELSE "new"]
       /\ client = [c \in Clients |-> "up"]
       /\ claims = {r} /\ gens = 1
       /\ profile = [connected |-> TRUE, peer |-> r, gen |-> 1]
       /\ hello = [x \in Relays |-> NoHello]
       /\ op = [o \in Ops |-> FreeOp]
       /\ cleanup = [sk \in SessionIds \X Kinds |-> NoCleanup]
       /\ tabTask = [t1 \in Tabs |-> NoTask]
=============================================================================
