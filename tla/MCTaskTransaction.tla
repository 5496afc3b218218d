------------------------- MODULE MCTaskTransaction -------------------------
(* TaskTransaction on two calls, two sessions and two tabs. *)
EXTENDS TaskTransaction

CONSTANTS x1, x2, s1, s2, t1, t2, k1, k2, none

Call(session, key, exact, policy, keep, awaits, steps) ==
    [session |-> session, key |-> key, exact |-> exact, policy |-> policy, keep |-> keep,
     awaits |-> awaits, steps |-> steps]

\* Calls of two sessions of the task; a session has one call at a time.
OneCallEach ==
    {Call(s1, k1, none, "cleanup", FALSE, FALSE, <<"edit", "commit">>),
     Call(s2, k2, t1, "retain", FALSE, FALSE, <<"commit", "move">>),
     Call(s2, k1, none, "retain_until_resume", TRUE, TRUE, <<"read", "edit">>)}

\* Calls of one session; the second names a tab.
OneSession ==
    {Call(s1, k1, none, "cleanup", FALSE, FALSE, <<"edit">>),
     Call(s1, k2, t2, "cleanup", FALSE, FALSE, <<"commit">>)}
=============================================================================
