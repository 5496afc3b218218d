----------------------------- MODULE TaskTabs -----------------------------
(***************************************************************************)
(* What becomes of the tabs that tasks leave in Chrome: the task-tab       *)
(* records of the broker (taskTabs, and the ledger's task_tab entries),    *)
(* and everything that closes tabs or moves records beside the running     *)
(* transactions: the end of a session, the broker's own sweep every 15     *)
(* seconds, the two signed cleanups, grouping, the hand-over of tabs to    *)
(* another task, and the removal of records of missing or old tabs.        *)
(*                                                                         *)
(* A pass reads the tabs of Chrome and its records once, then goes through *)
(* its candidates one by one; every close waits for its turn in the tab's  *)
(* queue.  In between, transactions, sessions and other passes go on.      *)
(***************************************************************************)
EXTENDS Naturals, Sequences, FiniteSets

CONSTANTS
    Tabs, Tasks, Sessions, None,
    TaskOf,      \* the task of each session
    Sweep,       \* the broker's maintenance session
    Users,       \* tabs the user opened
    Popups,      \* tabs that pages open
    Viewing,     \* tabs the user may be looking at or have pinned
    Kinds,       \* the passes an instance runs
    Endings,     \* the ways its transactions end
    Upsets,      \* the events of the environment that an instance explores
    MaxPasses,   \* how many passes go on at once, a bound
    MaxUpsets    \* how many of them there are, a bound

Passers == Sessions \union {Sweep}
Lifecycles == {"discovered", "executing", "completed", "failed", "awaiting_user", "unresolved"}
Policies == {"cleanup", "retain", "explicit", "retain_until_resume", "ledger_only"}
Outcomes == {"closed", "completed", "failed", "awaits", "in_doubt", "close_fails"}
Record == [task : Tasks, owner : Sessions \union {None}, life : Lifecycles, keep : Policies,
           old : BOOLEAN]

ASSUME TaskTabsAssumption ==
    /\ TaskOf \in [Sessions -> Tasks] /\ Users \union Popups \union Viewing \subseteq Tabs
    /\ None \notin Passers \union Tabs \union Record /\ Sweep \notin Sessions
    /\ Kinds \subseteq {"sweep", "finalize", "expire", "abandon", "cleanup", "stale", "group",
                        "transfer"}
    /\ Endings \subseteq Outcomes /\ MaxUpsets \in Nat /\ MaxPasses \in Nat

VARIABLES
    page,      \* "absent", "open" or "closed": a tab id is given out once
    record,    \* the record of a tab in memory, which takes precedence over the ledger's
    durable,   \* tabs whose record the ledger has
    lease,     \* the session that has a tab
    session,   \* "new", "live" or "gone"
    work,      \* the transaction of a session
    pass,      \* the pass of a session, or of the broker itself
    line,      \* the queue of each tab
    refused,   \* ownerless closes whose key is used up
    givenUp,   \* tabs whose record the broker may drop: nobody saw the end of their opening or
               \* of their disposable closing, or the record was collected by age
    upsets     \* disturbances so far

vars == <<page, record, durable, lease, session, work, pass, line, refused, givenUp, upsets>>

NoWork == [tab |-> None, at |-> "idle"]
NoPass == [kind |-> None, at |-> "idle", tab |-> None, todo |-> {}, live |-> {}, busy |-> {},
           seen |-> [t \in Tabs |-> None]]

Init ==
    /\ page = [t \in Tabs |-> IF t \in Users THEN "open" ELSE "absent"]
    /\ record = [t \in Tabs |-> None] /\ durable = {}
    /\ lease = [t \in Tabs |-> None]
    /\ session = [s \in Sessions |-> "new"]
    /\ work = [s \in Sessions |-> NoWork]
    /\ pass = [p \in Passers |-> NoPass]
    /\ line = [t \in Tabs |-> << >>]
    /\ refused = {} /\ givenUp = {} /\ upsets = 0

-----------------------------------------------------------------------------
(* What a record says.                                                     *)

Help(r)       == r.life = "awaiting_user"
Resumable(r)  == r.keep = "retain_until_resume"
LedgerOnly(r) == r.keep = "ledger_only" /\ ~Help(r)
Terminal(r)   == r.life \in {"discovered", "completed", "failed"}
Protected(r)  == r.keep \in {"explicit", "retain_until_resume"}
\* Mutant: only work that has ended leaves a page to the sweep.
DisposableWhenOver(r) == (LedgerOnly(r) \/ r.keep = "cleanup") /\ Terminal(r)

Disposable(r) == LedgerOnly(r) \/ (r.keep = "cleanup" /\ Terminal(r))

Live == {s \in Sessions : session[s] = "live"}
Open == {t \in Tabs : page[t] = "open"}
Tracked == {t \in Tabs : record[t] # None}
By(p) == IF p = Sweep THEN None ELSE TaskOf[p]
Creating == {work[s].tab : s \in {o \in Sessions : work[o].at = "creating"}}
\* Tasks with an operation in flight.
Pending == {By(line[t][1].by) : t \in {u \in Tabs : line[u] # << >>}} \ {None}

SafePreEffect(r, s, busy) ==
    /\ r.life = "discovered" /\ r.keep = "retain" /\ ~r.old
    /\ r.task \notin busy
    /\ r.owner \notin Live \ {s}

NewRecord(s, life, keep) ==
    [task |-> TaskOf[s], owner |-> s, life |-> life, keep |-> keep, old |-> FALSE]
Put(t, r) == record' = [record EXCEPT ![t] = r] /\ durable' = durable \union {t}
Forget(t) == record' = [record EXCEPT ![t] = None] /\ durable' = durable \ {t}
Enqueue(t, p, op) == line' = [line EXCEPT ![t] = Append(@, [by |-> p, op |-> op])]
Upset(e) == e \in Upsets /\ upsets < MaxUpsets /\ upsets' = upsets + 1

\* Owner loss: detachUnknownTaskTabs with detachOrphaned on the ledger's records of the scope.
Detaches(t) ==
    /\ t \in durable
    /\ ~Help(record[t]) /\ record[t].keep \notin {"ledger_only", "explicit"}
    /\ Resumable(record[t]) => record[t].life = "unresolved"
Detached(scope) ==
    [t \in Tabs |-> IF record[t] # None /\ Detaches(t) /\ scope[t]
                    THEN [record[t] EXCEPT !.keep = "ledger_only"] ELSE record[t]]
\* Detached afresh, a tab has a new ledgerOnlyAt and with it a new key for its close.
StillRefused == {t \in refused : record'[t] = record[t]}

-----------------------------------------------------------------------------
(* Sessions and their transactions.                                        *)

SessionOpens(s) ==
    /\ session[s] = "new" /\ \A o \in Live : TaskOf[o] # TaskOf[s]
    /\ session' = [session EXCEPT ![s] = "live"]
    /\ UNCHANGED <<page, record, durable, lease, work, pass, line, refused, givenUp, upsets>>

Free(s) == s \in Live /\ work[s].at = "idle" /\ pass[s].kind \notin {"stale"}

\* A transaction takes over a kept tab of its task that is at rest, or any tab that its session
\* has reserved; the lease and the new record are one step.
Kept(s, t) == record[t] # None /\ record[t].task = TaskOf[s]
              /\ record[t].keep \notin {"cleanup", "ledger_only"}
Begins(s, t) ==
    /\ Free(s) /\ page[t] = "open" /\ lease[t] \in {None, s}
    /\ IF Kept(s, t) THEN ~record[t].old /\ Terminal(record[t]) ELSE lease[t] = s
    /\ lease' = [lease EXCEPT ![t] = s]
    /\ \E keep \in {"cleanup", "retain"} : Put(t, NewRecord(s, "executing", keep))
    /\ work' = [work EXCEPT ![s] = [tab |-> t, at |-> "bound"]]
    /\ UNCHANGED <<page, session, pass, line, refused, givenUp, upsets>>

\* Or it has Chrome open one.
Asks(s, t) ==
    /\ Free(s) /\ t \notin Popups /\ page[t] = "absent"
    /\ \A o \in Sessions : work[o].tab # t
    /\ \A p \in Passers : pass[p].at # "listed"
    /\ work' = [work EXCEPT ![s] = [tab |-> t, at |-> "creating"]]
    /\ UNCHANGED <<page, record, durable, lease, session, pass, line, refused, givenUp, upsets>>

\* task.tab.created and the result record the tab, even for an owner who has gone.
Created(s) ==
    LET t == work[s].tab IN
    /\ work[s].at = "creating"
    /\ page' = [page EXCEPT ![t] = "open"]
    /\ \E keep \in {"cleanup", "retain"} : Put(t, NewRecord(s, "executing", keep))
    /\ IF s \in Live
       THEN lease' = [lease EXCEPT ![t] = s] /\ work' = [work EXCEPT ![s].at = "bound"]
       ELSE work' = [work EXCEPT ![s] = NoWork] /\ UNCHANGED lease
    /\ UNCHANGED <<session, pass, line, refused, givenUp, upsets>>

\* A step of the transaction joins the queue of its tab.
Acts(s) ==
    /\ s \in Live /\ work[s].at \in {"bound", "worked"} /\ lease[work[s].tab] = s
    /\ \A i \in DOMAIN line[work[s].tab] : line[work[s].tab][i].by # s
    /\ Enqueue(work[s].tab, s, "act")
    /\ UNCHANGED <<page, record, durable, lease, session, work, pass, refused, givenUp, upsets>>

\* How a transaction leaves its record; "closed" is its own cleanup, a close that worked.
Left(r, out) ==
    CASE out = "completed"   -> [r EXCEPT !.life = "completed", !.keep = "retain"]
      [] out = "failed"      -> [r EXCEPT !.life = "failed", !.keep = "retain_until_resume"]
      [] out = "awaits"      -> [r EXCEPT !.life = "awaiting_user", !.keep = "retain_until_resume"]
      [] out = "in_doubt"    -> [r EXCEPT !.life = "unresolved", !.keep = "retain_until_resume"]
      [] out = "close_fails" -> r

Ends(s, out) ==
    LET t == work[s].tab IN
    /\ work[s].at \in {"bound", "worked"} /\ \A i \in DOMAIN line[t] : line[t][i].by # s
    /\ s \in Live \/ out \in {"failed", "in_doubt", "close_fails"}
    /\ work' = [work EXCEPT ![s] = NoWork]
    /\ lease' = [lease EXCEPT ![t] = IF @ = s THEN None ELSE @]
    /\ IF out = "closed"
       THEN /\ page[t] = "open" /\ lease[t] = s /\ line[t] = << >>
            /\ page' = [page EXCEPT ![t] = "closed"] /\ Forget(t)
       ELSE /\ UNCHANGED page
            /\ IF record[t] = None THEN UNCHANGED <<record, durable>>
               ELSE Put(t, Left(record[t], out))
    /\ UNCHANGED <<session, pass, line, refused, givenUp, upsets>>

\* A client reserves any tab that nobody has, and gives it back.
Reserves(s, t) ==
    /\ Free(s) /\ page[t] = "open" /\ lease[t] = None /\ Upset("reserve")
    /\ lease' = [lease EXCEPT ![t] = s]
    /\ UNCHANGED <<page, record, durable, session, work, pass, line, refused, givenUp>>

GivesBack(s, t) ==
    /\ s \in Live /\ lease[t] = s /\ work[s].tab # t
    /\ \A i \in DOMAIN line[t] : line[t][i].by # s
    /\ lease' = [lease EXCEPT ![t] = None]
    /\ UNCHANGED <<page, record, durable, session, work, pass, line, refused, givenUp, upsets>>

\* With a signed approval a tab of the user becomes one of the task, and stays reserved.
Claims(s, t) ==
    /\ Free(s) /\ t \in Users \ Viewing /\ page[t] = "open" /\ lease[t] \in {None, s}
    /\ record[t] # None => record[t].task = TaskOf[s]
    /\ lease' = [lease EXCEPT ![t] = s]
    /\ Put(t, NewRecord(s, "executing", "explicit"))
    /\ UNCHANGED <<page, session, work, pass, line, refused, givenUp, upsets>>

\* A page of the task opens another; Chrome names the tab it came from.
PopupOpens(s, t, u) ==
    /\ page[t] = "open" /\ u \in Popups /\ page[u] = "absent" /\ record[t] # None /\ ~record[t].old
    /\ ~LedgerOnly(record[t]) /\ record[t].owner = s /\ s \in Live /\ record[u] = None
    /\ Upset("popup")
    /\ page' = [page EXCEPT ![u] = "open"]
    /\ Put(u, [record[t] EXCEPT !.life = "discovered", !.keep = "retain"])
    /\ UNCHANGED <<lease, session, work, pass, line, refused, givenUp>>

-----------------------------------------------------------------------------
(* Passes: read Chrome's tabs, read the records, go through the candidates. *)

\* The end of a session reads its records before it asks for the inventory.
Ending == {"finalize", "expire", "abandon"}
Seen == [t \in Tabs |-> record[t]]

PassStarts(p, kind) ==
    /\ pass[p].at = "idle" /\ kind \in Kinds
    /\ Cardinality({o \in Passers : pass[o].at # "idle"}) < MaxPasses
    /\ IF p = Sweep THEN kind = "sweep" /\ \E t \in Tracked : Disposable(record[t])
       ELSE /\ kind # "sweep" /\ p \in Live
            /\ kind \in {"stale", "transfer"} => Free(p)
    /\ pass' = [pass EXCEPT ![p] = [NoPass EXCEPT !.kind = kind, !.at = "asking",
                              !.busy = IF kind \in Ending \union {"sweep"} THEN Pending ELSE {},
                              !.seen = IF kind \in Ending THEN Seen ELSE @]]
    /\ UNCHANGED <<page, record, durable, lease, session, work, line, refused, givenUp, upsets>>

\* tabs.list waits in the profile's queue for an opening whose client has not gone.
Lists(p) ==
    /\ pass[p].at = "asking" /\ Creating \subseteq givenUp
    /\ pass' = [pass EXCEPT ![p].at = "listed", ![p].live = Open]
    /\ UNCHANGED <<page, record, durable, lease, session, work, line, refused, givenUp, upsets>>

\* cleanupTaskTabs: what makes a listed tab one to close.
Cleanable(t, r) ==
    /\ lease[t] = None /\ ~Help(r) /\ ~Resumable(r)
    /\ r.owner \in Live => r.life = "completed"
    /\ r.life = "discovered" => r.task \notin Pending
    /\ LedgerOnly(r) \/ (~Protected(r) /\ Terminal(r))

\* What each pass takes up.  The sweep looks at leases and owners here, and only here.
Takes(p, t, r) ==
    LET kind == pass[p].kind  own == p # Sweep /\ r.task = TaskOf[p] IN
    CASE kind \in Ending -> own /\ ~r.old
      [] kind = "sweep" ->
            /\ Disposable(r) /\ ~Help(r) /\ ~Resumable(r)
            /\ r.task \notin pass[p].busy /\ lease[t] = None /\ r.owner \notin Live
      [] kind = "cleanup"  -> own /\ (t \in pass[p].live => Cleanable(t, r))
      [] kind = "stale"    -> own /\ (r.old \/ (Disposable(r) /\ r.owner \notin Live))
      [] kind = "group"    -> own /\ ~r.old /\ r.keep # "cleanup" /\ ~LedgerOnly(r)
      [] kind = "transfer" -> /\ p # Sweep /\ ~own /\ ~r.old /\ r.keep # "cleanup"
                              /\ ~LedgerOnly(r)

Reads(p) ==
    LET seen == IF pass[p].kind \in Ending THEN pass[p].seen ELSE record
        taken == {t \in Tabs : seen[t] # None /\ Takes(p, t, seen[t])}
        todo == IF pass[p].kind = "transfer" THEN taken \intersect pass[p].live ELSE taken
    IN
    /\ pass[p].at = "listed"
    /\ pass' = [pass EXCEPT ![p].at =
                    IF pass[p].kind = "transfer" /\ \E t \in taken : lease[t] # None
                    THEN "done" ELSE "choosing",
                            ![p].seen = [t \in Tabs |-> IF t \in todo THEN seen[t] ELSE None],
                            ![p].todo = todo, ![p].live = @ \intersect todo]
    /\ UNCHANGED <<page, record, durable, lease, session, work, line, refused, givenUp, upsets>>

Done(p, t) == pass' = [pass EXCEPT ![p].todo = @ \ {t}, ![p].live = @ \ {t},
                                   ![p].seen[t] = None, ![p].at = "choosing", ![p].tab = None]
Turn(p, t) == pass[p].at = "choosing" /\ pass[p].kind # "transfer" /\ t \in pass[p].todo

Vanished(p, t) ==
    /\ Turn(p, t) /\ t \notin pass[p].live
    /\ Forget(t) /\ Done(p, t)
    /\ UNCHANGED <<page, lease, session, work, line, refused, givenUp, upsets>>

\* Mutant: every pass takes the reservation of its own session for its own.
LeasedByOthers(p, t) == lease[t] \notin {None, p}

\* The reservation of a running transaction, or its operation on the tab.
Busy(s, t) == work[s].at # "idle" \/ \E i \in DOMAIN line[t] : line[t][i].by = s
Leased(p, t) ==
    IF pass[p].kind \in Ending THEN lease[t] # None /\ (lease[t] # p \/ Busy(p, t))
    ELSE lease[t] # None

\* finalizeSessionTerminalTabs: explicit is session.close with taskTerminal.
Finishes(p, r) ==
    LET explicit == pass[p].kind \in {"finalize", "abandon"} IN
    IF Help(r) THEN pass[p].kind = "abandon" /\ r.task \notin pass[p].busy
    ELSE IF LedgerOnly(r) THEN r.owner \notin Live \ {p}
    ELSE /\ r.life # "unresolved"
         /\ Resumable(r) => explicit
         /\ r.life \in {"completed", "failed"} \/ SafePreEffect(r, p, pass[p].busy)

ToClose(p, t) ==
    LET r == pass[p].seen[t] IN
    CASE pass[p].kind \in Ending    -> ~Leased(p, t) /\ Finishes(p, r)
      [] pass[p].kind = "sweep"     -> t \notin refused
      [] pass[p].kind = "cleanup"   -> ~Leased(p, t)
      [] pass[p].kind = "stale"     -> /\ p \in Live /\ ~Leased(p, t)
                                       /\ ~Help(r) /\ ~Resumable(r)
                                       /\ LedgerOnly(r) \/ (~Protected(r) /\ Terminal(r))
      [] pass[p].kind = "group"     -> FALSE

\* The look at the lease, the close's entry in the ledger and its place in the tab's queue
\* follow each other without another request of the broker coming between on that tab.
Closes(p, t) ==
    /\ Turn(p, t) /\ t \in pass[p].live /\ ToClose(p, t)
    /\ Enqueue(t, p, "close")
    /\ pass' = [pass EXCEPT ![p].at = "closing", ![p].tab = t]
    /\ lease' = IF pass[p].kind = "stale" THEN [lease EXCEPT ![t] = p] ELSE lease
    /\ UNCHANGED <<page, record, durable, session, work, refused, givenUp, upsets>>

\* A tab in front of the user, pinned or without a web origin is left alone.  A terminal tab
\* that only its own session's work keeps is left to the sweep.
Skips(p, t) ==
    LET r == pass[p].seen[t] IN
    /\ Turn(p, t) /\ t \in pass[p].live /\ pass[p].kind # "group"
    /\ ~ToClose(p, t) \/ t \in Viewing
    /\ Done(p, t)
    /\ IF /\ pass[p].kind \in Ending /\ Leased(p, t) /\ lease[t] = p
          /\ Terminal(r) /\ ~Help(r) /\ ~Resumable(r)
       THEN Put(t, [r EXCEPT !.owner = None, !.keep = "cleanup"])
       ELSE UNCHANGED <<record, durable>>
    /\ UNCHANGED <<page, lease, session, work, line, refused, givenUp, upsets>>

\* groupTaskTabs rewrites the record it read, under a lease of its own.
Regroups(p, t) ==
    /\ Turn(p, t) /\ t \in pass[p].live /\ pass[p].kind = "group"
    /\ IF lease[t] # None \/ p \notin Live
       THEN Done(p, t) /\ UNCHANGED <<record, durable, lease, line>>
       ELSE /\ lease' = [lease EXCEPT ![t] = p]
            /\ Put(t, [pass[p].seen[t] EXCEPT !.owner = p])
            /\ Enqueue(t, p, "group")
            /\ pass' = [pass EXCEPT ![p].at = "closing", ![p].tab = t]
    /\ UNCHANGED <<page, session, work, refused, givenUp, upsets>>

GoesOn(p) == \E t \in Tabs : Vanished(p, t) \/ Closes(p, t) \/ Skips(p, t) \/ Regroups(p, t)

-----------------------------------------------------------------------------
(* The queue of a tab.                                                     *)

\* A close that stale cleanup sends is checked again, against the record as it is now.
StillMay(h, t) ==
    \/ pass[h.by].kind # "stale"
    \/ /\ record[t] # None /\ record[t].task = By(h.by)
       /\ ~Help(record[t]) /\ ~Protected(record[t])
       /\ Terminal(record[t]) \/ LedgerOnly(record[t])
       /\ lease[t] \in {None, h.by}

Release(p, t) == IF pass[p].kind \in {"stale", "group"} /\ lease[t] = p
                 THEN [lease EXCEPT ![t] = None] ELSE lease
Served(t) == line' = [line EXCEPT ![t] = Tail(@)]
\* Mutant: an unknown close counts as done.
LetsGoOfAny(p, r) == TRUE

\* After an unknown close the record goes if the page was disposable anyway.
LetsGo(p, r) == p = Sweep \/ LedgerOnly(r)

StepServed(t) ==
    /\ line[t] # << >> /\ line[t][1].op # "close" /\ Served(t)
    /\ LET h == line[t][1] IN
       IF h.op = "group"
       THEN Done(h.by, t) /\ lease' = Release(h.by, t) /\ UNCHANGED work
       ELSE /\ work' = IF /\ work[h.by] = [tab |-> t, at |-> "bound"]
                          /\ page[t] = "open" /\ lease[t] = h.by
                       THEN [work EXCEPT ![h.by].at = "worked"] ELSE work
            /\ UNCHANGED <<pass, lease>>
    /\ UNCHANGED <<page, record, durable, session, refused, givenUp, upsets>>

TabCloses(t) ==
    /\ line[t] # << >> /\ line[t][1].op = "close" /\ StillMay(line[t][1], t) /\ page[t] = "open"
    /\ Served(t) /\ Done(line[t][1].by, t)
    /\ page' = [page EXCEPT ![t] = "closed"] /\ Forget(t)
    /\ lease' = [lease EXCEPT ![t] = None]
    /\ UNCHANGED <<session, work, refused, givenUp, upsets>>

CloseRefused(t) ==
    /\ line[t] # << >> /\ line[t][1].op = "close"
    /\ IF page[t] = "open" /\ StillMay(line[t][1], t) THEN Upset("refuse") ELSE UNCHANGED upsets
    /\ Served(t) /\ Done(line[t][1].by, t) /\ lease' = Release(line[t][1].by, t)
    /\ refused' = IF line[t][1].by = Sweep THEN refused \union {t} ELSE refused
    /\ UNCHANGED <<page, record, durable, session, work, givenUp>>

CloseUnknown(t) ==
    LET p == line[t][1].by  r == pass[p].seen[t] IN
    /\ line[t] # << >> /\ line[t][1].op = "close" /\ StillMay(line[t][1], t) /\ page[t] = "open"
    /\ Upset("unknown")
    /\ Served(t) /\ Done(p, t) /\ lease' = Release(p, t)
    /\ page' \in {page, [page EXCEPT ![t] = "closed"]}
    /\ IF LetsGo(p, r) THEN Forget(t) ELSE UNCHANGED <<record, durable>>
    /\ givenUp' = IF Disposable(r) THEN givenUp \union {t} ELSE givenUp
    /\ refused' = IF p = Sweep THEN refused \union {t} ELSE refused
    /\ UNCHANGED <<session, work>>

\* Chrome tells the broker that a tab is gone, unless nobody is connected to hear it.
Removed(t) ==
    /\ page[t] = "closed" /\ (record[t] # None \/ lease[t] # None)
    /\ Forget(t) /\ lease' = [lease EXCEPT ![t] = None]
    /\ UNCHANGED <<page, session, work, pass, line, refused, givenUp, upsets>>

UserCloses(t) ==
    /\ page[t] = "open" /\ Upset("user")
    /\ page' = [page EXCEPT ![t] = "closed"]
    /\ UNCHANGED <<record, durable, lease, session, work, pass, line, refused, givenUp>>

-----------------------------------------------------------------------------
(* The ends of passes and sessions.                                        *)

Departed(S) == [t \in Tabs |-> IF lease[t] \in S THEN None ELSE lease[t]]
Owned(S) == [t \in Tabs |-> record[t] # None /\ record[t].owner \in S]

PassEnds(p) ==
    /\ \/ pass[p].at = "choosing" /\ pass[p].todo = {} /\ pass[p].kind # "transfer"
       \/ pass[p].at = "done"
    /\ pass' = [pass EXCEPT ![p] = NoPass]
    /\ IF pass[p].kind \in Ending /\ p \in Live
       THEN /\ session' = [session EXCEPT ![p] = "gone"] /\ lease' = Departed({p})
            /\ record' = IF pass[p].kind = "expire" THEN Detached(Owned({p})) ELSE record
            /\ refused' = StillRefused
       ELSE UNCHANGED <<record, lease, session, refused>>
    /\ UNCHANGED <<page, durable, work, line, givenUp, upsets>>

\* The ledger moves the tabs if none has changed hands since they were chosen.
Transfers(p) ==
    LET ok == \A t \in pass[p].todo : /\ record[t] # None /\ t \in durable
                                      /\ record[t].task = pass[p].seen[t].task
                                      /\ record[t].keep # "cleanup" /\ ~record[t].old
    IN
    /\ pass[p].kind = "transfer" /\ pass[p].at = "choosing"
    /\ pass' = [pass EXCEPT ![p] = NoPass]
    /\ record' = [t \in Tabs |-> IF ok /\ t \in pass[p].todo
                                 THEN [record[t] EXCEPT !.task = TaskOf[p], !.owner = p]
                                 ELSE record[t]]
    /\ UNCHANGED <<page, durable, lease, session, work, line, refused, givenUp, upsets>>

ClientLost(s) ==
    /\ s \in Live /\ Upset("client")
    /\ session' = [session EXCEPT ![s] = "gone"] /\ lease' = Departed({s})
    /\ record' = Detached(Owned({s})) /\ refused' = StillRefused
    /\ givenUp' = IF work[s].at = "creating" THEN givenUp \union {work[s].tab} ELSE givenUp
    /\ UNCHANGED <<page, durable, work, pass, line>>

\* Closes that Chrome has; they may still happen, and so may the openings.
Flying == {t \in Tabs : line[t] # << >> /\ line[t][1].op = "close" /\ page[t] = "open"}
Cut(dropped) ==
    /\ session' = [s \in Sessions |-> IF session[s] = "live" THEN "gone" ELSE session[s]]
    /\ lease' = [t \in Tabs |-> None] /\ line' = [t \in Tabs |-> << >>]
    /\ pass' = [p \in Passers |-> NoPass]
    /\ \E shut \in SUBSET Flying, opened \in SUBSET Creating :
          page' = [t \in Tabs |-> IF t \in shut THEN "closed" ELSE
                                  IF t \in opened THEN "open" ELSE page[t]]
    /\ givenUp' = givenUp \union Creating \union dropped

Dropped == {t \in Flying : LetsGo(line[t][1].by, pass[line[t][1].by].seen[t])}
Interrupted == [s \in Sessions |-> IF work[s].at = "creating" THEN NoWork ELSE work[s]]
Everything == [t \in Tabs |-> TRUE]

ExtensionLost ==
    /\ Upset("extension") /\ Cut(Dropped)
    /\ record' = [t \in Tabs |-> IF t \in Dropped THEN None ELSE Detached(Everything)[t]]
    /\ durable' = durable \ Dropped /\ refused' = StillRefused
    /\ work' = Interrupted

\* A new Extension: what the old one had is kept, and marked.
NewGeneration ==
    /\ Upset("generation") /\ Cut(Dropped)
    /\ record' = [t \in Tabs |-> IF t \in Dropped \/ record[t] = None THEN None
                                 ELSE [record[t] EXCEPT !.old = TRUE]]
    /\ durable' = durable \ Dropped /\ refused' = refused
    /\ work' = Interrupted

Restart ==
    /\ Upset("restart") /\ Cut({})
    /\ record' = [t \in Tabs |-> IF t \in durable THEN Detached(Everything)[t] ELSE None]
    /\ refused' = StillRefused
    /\ work' = [s \in Sessions |-> NoWork]
    /\ UNCHANGED durable

\* The operator's purge of records of a former generation whose tabs are gone.
Purges(s, t) ==
    /\ s \in Live /\ record[t] # None /\ page[t] # "open" /\ lease[t] = None
    /\ record[t].old /\ record[t].life = "unresolved" /\ record[t].owner \notin Live
    /\ Forget(t)
    /\ UNCHANGED <<page, lease, session, work, pass, line, refused, givenUp, upsets>>

\* Ten minutes after its owner went, an unresolved page is disposable too.
Terminalizes(t) ==
    /\ t \in durable /\ record[t].life = "unresolved" /\ record[t].owner \notin Live
    /\ record[t].keep \notin {"explicit", "ledger_only"} /\ lease[t] = None
    /\ record' = [record EXCEPT ![t].keep = "ledger_only"] /\ refused' = refused \ {t}
    /\ UNCHANGED <<page, durable, lease, session, work, pass, line, givenUp, upsets>>

\* gcTerminal drops old records from the ledger (not from memory), and old keys of refused closes.
Collects(t) ==
    /\ t \in durable /\ record[t].life \in {"completed", "failed"} /\ Upset("age")
    /\ ~Resumable(record[t]) /\ ~record[t].old
    /\ durable' = durable \ {t} /\ givenUp' = givenUp \union {t}
    /\ UNCHANGED <<page, record, lease, session, work, pass, line, refused>>

KeyAges(t) ==
    /\ t \in refused /\ refused' = refused \ {t}
    /\ UNCHANGED <<page, record, durable, lease, session, work, pass, line, givenUp, upsets>>

-----------------------------------------------------------------------------
Working(s) ==
    \/ SessionOpens(s) \/ Created(s) \/ Acts(s) \/ ClientLost(s)
    \/ \E t \in Tabs : \/ Begins(s, t) \/ Asks(s, t) \/ Reserves(s, t) \/ GivesBack(s, t)
                       \/ Claims(s, t) \/ Purges(s, t)
                       \/ \E u \in Tabs : PopupOpens(s, t, u)
    \/ \E out \in Endings : Ends(s, out)

Passing(p) ==
    \/ \E kind \in Kinds : PassStarts(p, kind)
    \/ Lists(p) \/ Reads(p) \/ GoesOn(p) \/ PassEnds(p) \/ Transfers(p)

Serving(t) ==
    StepServed(t) \/ TabCloses(t) \/ CloseRefused(t) \/ CloseUnknown(t) \/ Removed(t)

Next ==
    \/ \E s \in Sessions : Working(s)
    \/ \E p \in Passers : Passing(p)
    \/ \E t \in Tabs : Serving(t) \/ UserCloses(t) \/ Terminalizes(t) \/ Collects(t) \/ KeyAges(t)
    \/ ExtensionLost \/ NewGeneration \/ Restart

Spec == Init /\ [][Next]_vars

\* Timers and queues go on, Chrome answers, and no task is busy at every tick of the sweep.
Fairness ==
    /\ \A s \in Sessions : WF_vars(Created(s)) /\ WF_vars(\E out \in Endings : Ends(s, out))
    /\ \A p \in Passers : WF_vars(Lists(p) \/ Reads(p) \/ GoesOn(p) \/ PassEnds(p) \/ Transfers(p))
    /\ SF_vars(Pending = {} /\ PassStarts(Sweep, "sweep"))
    /\ \A t \in Tabs : /\ WF_vars(StepServed(t)) /\ WF_vars(TabCloses(t) \/ CloseRefused(t))
                      /\ WF_vars(KeyAges(t))

FairSpec == Spec /\ Fairness

-----------------------------------------------------------------------------
(* Properties.                                                             *)

TypeOK ==
    /\ page \in [Tabs -> {"absent", "open", "closed"}]
    /\ record \in [Tabs -> Record \union {None}]
    /\ durable \subseteq Tracked
    /\ lease \in [Tabs -> Sessions \union {None}]
    /\ session \in [Sessions -> {"new", "live", "gone"}]
    /\ \A s \in Sessions : work[s].tab \in Tabs \union {None}
    /\ \A p \in Passers : pass[p].todo \subseteq Tabs
    /\ \A t \in Tabs : line[t] \in Seq([by : Passers, op : {"act", "close", "group"}])

\* A page that the companion opened is on record as long as it is open, whatever pass, session
\* end, Extension loss or restart came over it; the exceptions are an opening or a disposable
\* closing whose end nobody saw, and a record that the ledger collected by age.
NothingUnrecorded ==
    \A t \in Open \ (Users \union Popups \union givenUp) : record[t] # None

\* No pass that a session asked for closes a page on which a transaction has done a step and
\* still works: the look at the lease and the place in the tab's queue are one.
NoCloseUnderTransaction ==
    [][\A t \in Tabs :
          (page[t] = "open" /\ page'[t] = "closed" /\ line[t] # << >> /\ line[t][1].by # Sweep
             /\ line' = [line EXCEPT ![t] = Tail(@)])
          => \A s \in Live : work[s] # [tab |-> t, at |-> "worked"] \/ lease[t] # s]_vars

\* A disposable page whose owner has gone is closed in the end, unless somebody takes it up: the
\* sweep comes back for what it skipped, and for what was refused once the key has aged.
Orphan(t) == t \in Open \ Viewing /\ record[t] # None /\ LedgerOnly(record[t])
             /\ record[t].owner \notin Live /\ lease[t] = None
OrphansGo == \A t \in Tabs : Orphan(t) ~> ~Orphan(t)
=============================================================================
