---------------------------- MODULE AtomicStore ----------------------------
(***************************************************************************)
(* What TaskOperationLedger promises about its files: the ledger is one    *)
(* value, replaced as a whole.  A change becomes visible to the process at *)
(* once and to restarts at some moment before it is acknowledged; a crash  *)
(* keeps or loses the change in progress and nothing else.                 *)
(***************************************************************************)
CONSTANTS Contents,  \* the values the ledger can have
          Empty      \* the value of a ledger without files

VARIABLES
    view,    \* the value the process works with
    stored,  \* the values a restart may find
    mode     \* "idle", "busy" (a change awaits its acknowledgement), "down"

storeVars == <<view, stored, mode>>

Init == view = Empty /\ stored = {Empty} /\ mode = "idle"

\* A job changes the value in memory.
Change ==
    /\ mode = "idle"
    /\ mode' = "busy"
    /\ view' \in Contents
    /\ UNCHANGED stored

\* The change in progress may reach the disk, or replace what was there.
Spread ==
    /\ mode = "busy"
    /\ stored' \in (SUBSET (stored \union {view})) \ {{}}
    /\ UNCHANGED <<view, mode>>

\* The job is acknowledged: every restart from now on finds its change.
Acknowledge ==
    /\ mode = "busy"
    /\ mode' = "idle"
    /\ stored' = {view}
    /\ UNCHANGED view

\* The process ends, or its host does; nothing appears that was not stored.
Crash ==
    /\ mode' = "down"
    /\ view' = Empty
    /\ stored' \in (SUBSET stored) \ {{}}

\* A new process adopts one of the stored values, which then is the only
\* one, and may normalise it before it takes requests.
Reopen ==
    /\ mode = "down"
    /\ \E found \in stored : stored' = {found}
                             /\ \/ mode' = "idle" /\ view' = found
                                \/ mode' = "busy" /\ view' \in Contents

Next == Change \/ Spread \/ Acknowledge \/ Crash \/ Reopen

Spec == Init /\ [][Next]_storeVars

=============================================================================
