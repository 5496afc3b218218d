--------------------------- MODULE TabReservation ---------------------------
(***************************************************************************)
(* What sessions and exact-tab leases promise: a tab is reserved by at     *)
(* most one live session and never passes from one to another without      *)
(* being free in between; a session changes its owner only while it        *)
(* reserves nothing, and when it ends every tab it reserved is free.       *)
(***************************************************************************)
CONSTANTS Clients, SessionIds, Tabs

VARIABLES
    life,    \* each session: not opened yet, open, or over for good
    owner,   \* the client an open session belongs to, as a set of one
    tabsOf   \* the tabs each session reserves

reservationVars == <<life, owner, tabsOf>>

Init ==
    /\ life = [s \in SessionIds |-> "new"]
    /\ owner = [s \in SessionIds |-> {}]
    /\ tabsOf = [s \in SessionIds |-> {}]

Open(s, c) ==
    /\ life[s] = "new"
    /\ life' = [life EXCEPT ![s] = "open"]
    /\ owner' = [owner EXCEPT ![s] = {c}]
    /\ UNCHANGED tabsOf

HandOver(s, c) ==
    /\ life[s] = "open"
    /\ tabsOf[s] = {}
    /\ owner' = [owner EXCEPT ![s] = {c}]
    /\ UNCHANGED <<life, tabsOf>>

Reserve(s, t) ==
    /\ life[s] = "open"
    /\ \A u \in SessionIds : t \notin tabsOf[u]
    /\ tabsOf' = [tabsOf EXCEPT ![s] = @ \union {t}]
    /\ UNCHANGED <<life, owner>>

Release(s, t) ==
    /\ t \in tabsOf[s]
    /\ tabsOf' = [tabsOf EXCEPT ![s] = @ \ {t}]
    /\ UNCHANGED <<life, owner>>

\* A set of sessions ends at once: the fence of a profile, a lost client.
End(S) ==
    /\ \A s \in S : life[s] = "open"
    /\ life' = [s \in SessionIds |-> IF s \in S THEN "over" ELSE life[s]]
    /\ owner' = [s \in SessionIds |-> IF s \in S THEN {} ELSE owner[s]]
    /\ tabsOf' = [s \in SessionIds |-> IF s \in S THEN {} ELSE tabsOf[s]]

Next ==
    \/ \E s \in SessionIds :
          \/ \E c \in Clients : Open(s, c) \/ HandOver(s, c)
          \/ \E t \in Tabs : Reserve(s, t) \/ Release(s, t)
    \/ \E S \in SUBSET SessionIds : End(S)

Spec == Init /\ [][Next]_reservationVars

=============================================================================
