--------------------------- MODULE TaskTabs_proofs ---------------------------
(***************************************************************************)
(* Theorems about TaskTabs, for any number of tabs, tasks, sessions, ways  *)
(* to end, passes and upsets: pages on record, and pages that no pass of a *)
(* session closes under a transaction.                                     *)
(*                                                                         *)
(* IndInv says of a tab what a queue entry on it may count on (EntryOK,    *)
(* OneTurn, ActsBehind), of a transaction which pages it has (WorkOK), and *)
(* of a pass that what it takes for gone is gone (PassOK).                 *)
(***************************************************************************)
EXTENDS TaskTabs, SequenceTheorems, TLAPS

-----------------------------------------------------------------------------
(* Types                                                                   *)

EntryT == [by : Passers, op : {"act", "close", "group"}]
WorkT == [tab : Tabs \union {None}, at : {"idle", "creating", "bound", "worked"}]
Stages == {"idle", "asking", "listed", "choosing", "closing", "done"}
SeenT == [Tabs -> Record \union {None}]
PassT == [kind : Kinds \union {None}, at : Stages, tab : Tabs \union {None},
          todo : SUBSET Tabs, live : SUBSET Tabs, busy : SUBSET Tasks, seen : SeenT]

Types ==
    /\ page \in [Tabs -> {"absent", "open", "closed"}]
    /\ record \in SeenT /\ durable \subseteq Tabs
    /\ lease \in [Tabs -> Sessions \union {None}]
    /\ session \in [Sessions -> {"new", "live", "gone"}]
    /\ work \in [Sessions -> WorkT] /\ pass \in [Passers -> PassT]
    /\ line \in [Tabs -> Seq(EntryT)] /\ givenUp \subseteq Tabs

\* The changes of one record that the actions make.
LeftAs(r, life, keep) == [r EXCEPT !.life = life, !.keep = keep]
KeptAs(r, keep) == [r EXCEPT !.keep = keep]
OwnedBy(r, p) == [r EXCEPT !.owner = p]
Handed(r, k, p) == [r EXCEPT !.task = k, !.owner = p]
Orphaned(r) == [r EXCEPT !.owner = None, !.keep = "cleanup"]
Aged(r) == [r EXCEPT !.old = TRUE]

LEMMA Records ==
    ASSUME NEW r \in Record, NEW life \in Lifecycles, NEW keep \in Policies,
           NEW k \in Tasks, NEW p \in Sessions
    PROVE  /\ LeftAs(r, life, keep) \in Record /\ KeptAs(r, keep) \in Record
           /\ OwnedBy(r, p) \in Record /\ Handed(r, k, p) \in Record
           /\ Orphaned(r) \in Record /\ Aged(r) \in Record
<1>1. LeftAs(r, life, keep) \in Record /\ KeptAs(r, keep) \in Record
      BY DEF Record, LeftAs, KeptAs
<1>2. OwnedBy(r, p) \in Record /\ Handed(r, k, p) \in Record
      BY DEF Record, OwnedBy, Handed
<1>3. Orphaned(r) \in Record
      BY DEF Record, Orphaned, Policies
<1>4. Aged(r) \in Record
      BY DEF Record, Aged
<1> QED  BY <1>1, <1>2, <1>3, <1>4

LEMMA Labels ==
    /\ {"discovered", "executing", "completed", "failed", "awaiting_user", "unresolved"} = Lifecycles
    /\ {"cleanup", "retain", "explicit", "retain_until_resume", "ledger_only"} = Policies
BY DEF Lifecycles, Policies

LEMMA NewRecords ==
    ASSUME NEW s \in Sessions, NEW life \in Lifecycles, NEW keep \in Policies
    PROVE  NewRecord(s, life, keep) \in Record
BY TaskTabsAssumption DEF NewRecord, Record

LEMMA NoneIsNoRecord == None \notin Record /\ None \notin Tabs /\ None \notin Sessions /\ Sweep \notin Sessions
      /\ None # Sweep
BY TaskTabsAssumption DEF Passers

\* The changes of a pass.
Began(k, b, s) == [NoPass EXCEPT !.kind = k, !.at = "asking", !.busy = b, !.seen = s]
ListedIn(x, l) == [x EXCEPT !.at = "listed", !.live = l]
Chosen(x, a, s, d) == [x EXCEPT !.at = a, !.seen = s, !.todo = d, !.live = @ \intersect d]
Handles(x, t) == [x EXCEPT !.at = "closing", !.tab = t]
Over(x, t) == [x EXCEPT !.todo = @ \ {t}, !.live = @ \ {t}, !.seen[t] = None, !.at = "choosing",
                        !.tab = None]

LEMMA NoPassFields ==
    /\ NoPass \in PassT /\ NoPass.at = "idle" /\ NoPass.live = {} /\ NoPass.todo = {}
    /\ NoPass.kind = None /\ \A t \in Tabs : NoPass.seen[t] = None
BY DEF NoPass, PassT, Stages, SeenT

LEMMA BeganFields ==
    ASSUME NEW k \in Kinds, NEW b \in SUBSET Tasks, NEW s \in SeenT
    PROVE  /\ Began(k, b, s) \in PassT /\ Began(k, b, s).at = "asking" /\ Began(k, b, s).kind = k
           /\ Began(k, b, s).live = {} /\ Began(k, b, s).todo = {} /\ Began(k, b, s).seen = s
BY DEF Began, NoPass, PassT, Stages, SeenT

LEMMA ListedFields ==
    ASSUME NEW x \in PassT, NEW l \in SUBSET Tabs
    PROVE  LET y == ListedIn(x, l) IN
           /\ y \in PassT /\ y.at = "listed" /\ y.kind = x.kind /\ y.live = l /\ y.todo = x.todo
           /\ y.seen = x.seen
BY DEF ListedIn, PassT, Stages

LEMMA ChosenFields ==
    ASSUME NEW x \in PassT, NEW a \in Stages, NEW s \in SeenT, NEW d \in SUBSET Tabs
    PROVE  LET y == Chosen(x, a, s, d) IN
           /\ y \in PassT /\ y.at = a /\ y.kind = x.kind /\ y.todo = d /\ y.live = x.live \intersect d
           /\ y.seen = s
BY DEF Chosen, PassT

LEMMA HandlesFields ==
    ASSUME NEW x \in PassT, NEW t \in Tabs
    PROVE  LET y == Handles(x, t) IN
           /\ y \in PassT /\ y.at = "closing" /\ y.tab = t /\ y.kind = x.kind /\ y.todo = x.todo
           /\ y.live = x.live /\ y.seen = x.seen
BY DEF Handles, PassT, Stages

LEMMA OverIs ==
    ASSUME NEW D, pass \in [Passers -> D], NEW p \in Passers, NEW t, Done(p, t)
    PROVE  pass' = [pass EXCEPT ![p] = Over(pass[p], t)]
BY ZenonT(30) DEF Done, Over

LEMMA OverFields ==
    ASSUME NEW x \in PassT, NEW t \in Tabs
    PROVE  LET y == Over(x, t) IN
           /\ y \in PassT /\ y.at = "choosing" /\ y.kind = x.kind /\ y.todo = x.todo \ {t}
           /\ y.live = x.live \ {t} /\ y.seen[t] = None
           /\ \A u \in Tabs : u # t => y.seen[u] = x.seen[u]
BY DEF Over, PassT, Stages, SeenT

LEMMA Appended ==
    ASSUME NEW q \in Seq(EntryT), NEW e \in EntryT
    PROVE  /\ Append(q, e) \in Seq(EntryT)
           /\ DOMAIN q = 1..Len(q) /\ Len(q) \in Nat
           /\ DOMAIN Append(q, e) = 1..(Len(q) + 1)
           /\ Append(q, e)[Len(q) + 1] = e
           /\ \A i \in DOMAIN q : Append(q, e)[i] = q[i]
OBVIOUS

LEMMA Tailed ==
    ASSUME NEW q \in Seq(EntryT), q # << >>
    PROVE  /\ Tail(q) \in Seq(EntryT) /\ 1 \in DOMAIN q /\ q[1] \in EntryT
           /\ DOMAIN q = 1..Len(q) /\ Len(q) \in Nat
           /\ DOMAIN Tail(q) = 1..(Len(q) - 1)
           /\ \A i \in DOMAIN Tail(q) : i + 1 \in DOMAIN q /\ Tail(q)[i] = q[i + 1]
OBVIOUS

LEMMA Elements ==
    ASSUME NEW q \in Seq(EntryT)
    PROVE  \A i \in DOMAIN q : q[i] \in EntryT /\ q[i].by \in Passers
                               /\ q[i].op \in {"act", "close", "group"} /\ i \in Nat
<1>1. \A i \in DOMAIN q : q[i] \in EntryT /\ i \in Nat
      OBVIOUS
<1> QED  BY <1>1 DEF EntryT

LEMMA Pendings == Types => Pending \in SUBSET Tasks
<1> SUFFICES ASSUME Types, NEW k \in Pending PROVE k \in Tasks
    OBVIOUS
<1>1. PICK t \in Tabs : line[t] # << >> /\ k = By(line[t][1].by) /\ k # None
      BY DEF Pending
<1>2. line[t][1].by \in Passers
      BY <1>1, Tailed, Elements DEF Types
<1> QED  BY <1>1, <1>2, TaskTabsAssumption DEF By, Passers

-----------------------------------------------------------------------------
(* The invariant                                                           *)

Excused == Users \union Popups \union givenUp
IsWorked(s, t) == work[s].tab = t /\ work[s].at = "worked"
IsCreating(s, t) == work[s].tab = t /\ work[s].at = "creating"

\* A tab that was never open has nothing, and a tab that is open is on record.
TabOK(t) ==
    /\ t \in durable => record[t] # None
    /\ page[t] = "absent" => lease[t] = None /\ line[t] = << >> /\ record[t] = None
    /\ page[t] = "open" /\ t \notin Excused => record[t] # None /\ t \in durable

\* The pass that waits for its turn on a tab.
Handling(p, t) == pass[p].at = "closing" /\ pass[p].tab = t /\ pass[p].seen[t] # None

\* A transaction that waits for its turn on a tab has the tab; while a pass of a session waits
\* for it, no transaction has done a step on it.
EntryOK(t, e) ==
    /\ e.op # "close" => e.by \in Sessions
    /\ e.by \in Sessions => session[e.by] # "new"
    /\ e.op # "act" => Handling(e.by, t)
    /\ e.op = "act" /\ e.by \in Live /\ page[t] = "open" => lease[t] = e.by
    /\ e.op # "act" /\ e.by # Sweep /\ page[t] = "open" => \A s \in Live : ~IsWorked(s, t)
Entries(t) == \A i \in DOMAIN line[t] : EntryOK(t, line[t][i])

\* A pass waits once, and before the steps of every transaction.
OneTurn(t) ==
    \A i, j \in DOMAIN line[t] :
        line[t][i].op # "act" /\ line[t][j].op # "act" /\ line[t][i].by = line[t][j].by => i = j
ActsBehind(t) ==
    \A i, j \in DOMAIN line[t] :
        /\ line[t][i].op # "act" /\ line[t][i].by # Sweep /\ page[t] = "open"
        /\ line[t][j].op = "act" /\ line[t][j].by \in Live
        => i < j /\ line[t][i].by # line[t][j].by

WorkOK(s) ==
    /\ session[s] = "new" => work[s].at = "idle"
    /\ work[s].at # "idle" => work[s].tab \in Tabs
    /\ \A t \in Tabs :
          /\ work[s].tab = t => work[s].at # "idle"
          /\ work[s].tab = t /\ work[s].at # "creating" => page[t] # "absent"
          /\ IsCreating(s, t) => /\ page[t] = "absent" /\ t \notin Popups
                                 /\ \A o \in Sessions \ {s} : ~IsCreating(o, t)
          /\ IsWorked(s, t) /\ s \in Live /\ page[t] = "open" => lease[t] = s

\* What a pass took for gone is gone.
PassOK(p) ==
    /\ p \in Sessions /\ session[p] = "new" => pass[p].at = "idle"
    /\ pass[p].at # "idle" => pass[p].kind \in Kinds /\ (p = Sweep <=> pass[p].kind = "sweep")
    /\ p = Sweep /\ pass[p].at \in {"choosing", "closing"}
          => \A t \in Tabs : pass[p].seen[t] # None => Disposable(pass[p].seen[t])
    /\ pass[p].at \in {"idle", "asking", "listed"} => pass[p].todo = {}
    /\ pass[p].at = "listed" => /\ Creating \subseteq givenUp
                                /\ Open \ Excused \subseteq pass[p].live
    /\ \A t \in Tabs :
          /\ t \in pass[p].live \/ pass[p].seen[t] # None => page[t] # "absent"
          /\ t \in pass[p].todo => pass[p].seen[t] # None
          /\ t \in pass[p].todo /\ t \notin pass[p].live => page[t] # "open" \/ t \in Excused

QueueOK(t) == Entries(t) /\ OneTurn(t) /\ ActsBehind(t)

IndInv ==
    /\ Types
    /\ \A t \in Tabs : TabOK(t) /\ QueueOK(t)
    /\ \A s \in Sessions : WorkOK(s)
    /\ \A p \in Passers : PassOK(p)

LEMMA InitInv == Init => IndInv
<1> SUFFICES ASSUME Init PROVE IndInv
    OBVIOUS
<1>1. NoWork \in WorkT /\ NoWork.at = "idle" /\ NoWork.tab = None
      BY DEF NoWork, WorkT
<1>2. << >> \in Seq(EntryT) /\ DOMAIN << >> = {}
      OBVIOUS
<1>3. Types
      BY <1>1, <1>2, NoPassFields DEF Init, Types, SeenT
<1>4. \A t \in Tabs : TabOK(t) /\ QueueOK(t)
      BY <1>2 DEF Init, TabOK, QueueOK, Entries, OneTurn, ActsBehind, Excused
<1>5. \A s \in Sessions : WorkOK(s)
      BY <1>1, NoneIsNoRecord DEF Init, WorkOK, IsCreating, IsWorked
<1>6. \A p \in Passers : PassOK(p)
      BY NoPassFields DEF Init, PassOK
<1> QED  BY <1>3, <1>4, <1>5, <1>6 DEF IndInv

-----------------------------------------------------------------------------
(* What a step has to leave alone                                          *)

\* Sessions only go on, and a tab that was open or had a place in a queue stays so or is closed.
Onward ==
    /\ \A s \in Sessions : /\ session[s] # "new" => session'[s] # "new"
                           /\ session'[s] = "live" => session[s] \in {"live", "new"}
    /\ \A t \in Tabs : /\ page[t] # "absent" => page'[t] # "absent"
                       /\ page[t] = "closed" => page'[t] = "closed"
    /\ givenUp \subseteq givenUp'

\* A queue that stays as it is.
LEMMA QueueFrame ==
    ASSUME IndInv, Onward, NEW t \in Tabs, line'[t] = line[t],
           \A p \in Passers : Handling(p, t) => Handling(p, t)',
           \A s \in Sessions : s \in Live' /\ IsWorked(s, t)' => IsWorked(s, t),
           \A s \in Sessions : lease[t] = s /\ lease'[t] # s
               => page'[t] # "open" \/ s \notin Live'
                  \/ \A i \in DOMAIN line[t] : ~(line[t][i].op = "act" /\ line[t][i].by = s)
    PROVE  QueueOK(t)'
<1> DEFINE q == line[t]
<1>1. CASE q = << >>
      BY <1>1 DEF QueueOK, Entries, OneTurn, ActsBehind
<1>2. CASE q # << >>
  <2>1. page[t] # "absent" /\ page'[t] # "absent" /\ (page'[t] = "open" => page[t] = "open")
        BY <1>2 DEF IndInv, TabOK, Onward, Types
  <2>2. q \in Seq(EntryT)
        BY DEF IndInv, Types
  <2>3. ASSUME NEW i \in DOMAIN q PROVE EntryOK(t, q[i])'
    <3>1. EntryOK(t, q[i]) /\ q[i].by \in Passers
          BY <2>2, <2>3, Elements DEF IndInv, QueueOK, Entries
    <3>2. \A s \in Sessions : s \in Live' /\ session[s] # "new" => s \in Live
          BY DEF Live, Onward
    <3>3. \A s \in Sessions : session[s] = "new" => ~IsWorked(s, t)
          BY DEF IndInv, WorkOK, IsWorked
    <3>4. q[i].op # "close" => q[i].by \in Sessions
          BY <3>1 DEF EntryOK
    <3>5. q[i].by \in Sessions => session'[q[i].by] # "new"
          BY <3>1 DEF EntryOK, Onward
    <3>6. q[i].op # "act" => Handling(q[i].by, t)'
          BY <3>1 DEF EntryOK
    <3>7. q[i].op = "act" /\ q[i].by \in Live' /\ page'[t] = "open" => lease'[t] = q[i].by
          BY <2>1, <2>3, <3>1, <3>2 DEF EntryOK
    <3>8. q[i].op # "act" /\ q[i].by # Sweep /\ page'[t] = "open" => \A s \in Live' : ~IsWorked(s, t)'
          BY <2>1, <3>1, <3>2, <3>3 DEF EntryOK, Live
    <3> QED  BY <3>4, <3>5, <3>6, <3>7, <3>8 DEF EntryOK
  <2>4. OneTurn(t)'
        BY DEF IndInv, QueueOK, OneTurn
  <2>5. \A i \in DOMAIN q : q[i].op = "act" /\ q[i].by \in Live' => q[i].by \in Live
    <3> SUFFICES ASSUME NEW i \in DOMAIN q, q[i].op = "act", q[i].by \in Live' PROVE q[i].by \in Live
        OBVIOUS
    <3>1. EntryOK(t, q[i])
          BY DEF IndInv, QueueOK, Entries
    <3> QED  BY <3>1 DEF EntryOK, Live, Onward
  <2>6. ActsBehind(t)'
        BY <2>1, <2>5 DEF IndInv, QueueOK, ActsBehind
  <2> QED  BY <2>3, <2>4, <2>6 DEF QueueOK, Entries
<1> QED  BY <1>1, <1>2

\* A transaction that stays as it is.
LEMMA WorkFrame ==
    ASSUME IndInv, Onward, NEW s \in Sessions, work'[s] = work[s],
           \A o \in Sessions, t \in Tabs : IsCreating(o, t)' => IsCreating(o, t) \/ ~IsCreating(s, t),
           \A t \in Tabs : IsCreating(s, t) => page'[t] = "absent",
           \A t \in Tabs : lease[t] = s /\ lease'[t] # s
               => page'[t] # "open" \/ s \notin Live' \/ ~IsWorked(s, t)
    PROVE  WorkOK(s)'
<1>1. WorkOK(s) /\ (s \in Live' => s \in Live \/ session[s] = "new")
      BY DEF IndInv, Live, Onward
<1>2. session'[s] = "new" => session[s] = "new"
      BY DEF Onward
<1>3. ASSUME NEW t \in Tabs
      PROVE  /\ work'[s].tab = t => work'[s].at # "idle"
             /\ work'[s].tab = t /\ work'[s].at # "creating" => page'[t] # "absent"
             /\ IsCreating(s, t)' => /\ page'[t] = "absent" /\ t \notin Popups
                                     /\ \A o \in Sessions \ {s} : ~IsCreating(o, t)'
             /\ IsWorked(s, t)' /\ s \in Live' /\ page'[t] = "open" => lease'[t] = s
  <2>1. page[t] \in {"absent", "open", "closed"}
        BY DEF IndInv, Types
  <2>2. IsWorked(s, t)' => IsWorked(s, t) /\ work[s].at # "idle" /\ page[t] # "absent"
        BY <1>1 DEF IsWorked, WorkOK
  <2>3. IsWorked(s, t)' /\ s \in Live' /\ page'[t] = "open" => lease'[t] = s
        BY <1>1, <2>1, <2>2 DEF WorkOK, Onward
  <2>4. IsCreating(s, t)' <=> IsCreating(s, t)
        BY DEF IsCreating
  <2>5. IsCreating(s, t)' => /\ page'[t] = "absent" /\ t \notin Popups
                             /\ \A o \in Sessions \ {s} : ~IsCreating(o, t)'
        BY <1>1, <2>4 DEF WorkOK
  <2> QED  BY <1>1, <2>3, <2>5 DEF WorkOK, Onward
<1> QED  BY <1>1, <1>2, <1>3 DEF WorkOK

\* A pass that stays as it is.
LEMMA PassFrame ==
    ASSUME IndInv, Onward, NEW p \in Passers, pass'[p] = pass[p],
           (\E o \in Passers : pass[o].at = "listed") => Creating' \subseteq Creating,
           \A t \in Tabs : page'[t] = "open" => page[t] = "open" \/ t \in Creating \union Excused'
    PROVE  PassOK(p)'
<1>1. PassOK(p)
      BY DEF IndInv
<1>2. Excused \subseteq Excused'
      BY DEF Excused, Onward
<1>3. pass[p].at = "listed" => /\ Creating' \subseteq givenUp'
                               /\ Open' \ Excused' \subseteq pass[p].live
  <2>1. SUFFICES ASSUME pass[p].at = "listed"
                 PROVE  Creating' \subseteq givenUp' /\ Open' \ Excused' \subseteq pass[p].live
        OBVIOUS
  <2>2. Creating \subseteq givenUp /\ Open \ Excused \subseteq pass[p].live /\ Creating' \subseteq Creating
        BY <1>1, <2>1 DEF PassOK
  <2>3. Creating \subseteq Excused'
        BY <1>2, <2>2 DEF Excused
  <2> QED  BY <1>2, <2>2, <2>3 DEF Onward, Open
<1>4. ASSUME NEW t \in Tabs
      PROVE  /\ t \in pass[p].live \/ pass[p].seen[t] # None => page'[t] # "absent"
             /\ t \in pass[p].todo => pass[p].seen[t] # None
             /\ t \in pass[p].todo /\ t \notin pass[p].live => page'[t] # "open" \/ t \in Excused'
  <2>1. page[t] \in {"absent", "open", "closed"}
        BY DEF IndInv, Types
  <2> QED  BY <1>1, <1>2, <2>1 DEF PassOK, Onward
<1>5. p \in Sessions /\ session'[p] = "new" => pass[p].at = "idle"
      BY <1>1 DEF PassOK, Onward
<1> QED  BY <1>1, <1>3, <1>4, <1>5 DEF PassOK

-----------------------------------------------------------------------------
(* Sessions and their transactions                                         *)

LEMMA SessionOpensStep ==
    ASSUME IndInv, NEW s \in Sessions, SessionOpens(s) PROVE IndInv'
<1>1. Types' /\ session'[s] = "live" /\ session[s] = "new"
      /\ \A o \in Sessions : o # s => session'[o] = session[o]
      BY DEF IndInv, Types, SessionOpens
<1>2. Onward
      BY <1>1 DEF Onward, SessionOpens
<1>3. \A t \in Tabs : TabOK(t)'
      BY DEF IndInv, TabOK, Excused, SessionOpens
<1>4. ASSUME NEW t \in Tabs PROVE QueueOK(t)'
      BY <1>2, QueueFrame DEF SessionOpens, Handling, IsWorked
<1>5. ASSUME NEW o \in Sessions PROVE WorkOK(o)'
      BY <1>2, WorkFrame DEF SessionOpens, IsCreating, IndInv, WorkOK
<1>6. ASSUME NEW p \in Passers PROVE PassOK(p)'
      BY <1>2, PassFrame DEF SessionOpens, Creating
<1> QED  BY <1>1, <1>3, <1>4, <1>5, <1>6 DEF IndInv

LEMMA BeginsStep ==
    ASSUME IndInv, NEW s \in Sessions, NEW t \in Tabs, Begins(s, t) PROVE IndInv'
<1> DEFINE w == [tab |-> t, at |-> "bound"]
<1>1. w \in WorkT /\ w.tab = t /\ w.at = "bound"
      BY DEF WorkT
<1>2. work' = [work EXCEPT ![s] = w]
      BY DEF Begins
<1> HIDE DEF w
<1>3. /\ work'[s] = w /\ work[s].at = "idle" /\ s \in Live
      /\ \A o \in Sessions : o # s => work'[o] = work[o]
      BY <1>2 DEF IndInv, Types, Begins, Free
<1>4. PICK keep \in {"cleanup", "retain"} : Put(t, NewRecord(s, "executing", keep))
      BY DEF Begins
<1>5. /\ NewRecord(s, "executing", keep) \in Record
      /\ record' \in SeenT /\ durable' = durable \union {t}
      /\ record'[t] # None /\ \A u \in Tabs : u # t => record'[u] = record[u]
      BY <1>4, NewRecords, Labels, NoneIsNoRecord DEF Put, IndInv, Types, SeenT
<1>6. /\ lease'[t] = s /\ lease[t] \in {None, s} /\ page[t] = "open"
      /\ \A u \in Tabs : u # t => lease'[u] = lease[u]
      BY DEF Begins, IndInv, Types
<1>7. Types'
      BY <1>1, <1>2, <1>5 DEF IndInv, Types, Begins
<1>8. Onward
      BY DEF Onward, Begins
<1>9. \A u \in Tabs : TabOK(u)'
      BY <1>5, <1>6 DEF IndInv, TabOK, Excused, Begins
<1>10. ASSUME NEW u \in Tabs PROVE QueueOK(u)'
  <2>1. \A o \in Sessions : IsWorked(o, u)' => IsWorked(o, u)
        BY <1>1, <1>3 DEF IsWorked
  <2>2. \A o \in Sessions : lease[u] = o => lease'[u] = o
        BY <1>6, NoneIsNoRecord
  <2> QED  BY <1>8, <2>1, <2>2, QueueFrame DEF Begins, Handling
<1>11. ASSUME NEW o \in Sessions PROVE WorkOK(o)'
  <2>1. \A x \in Sessions, u \in Tabs : IsCreating(x, u)' => IsCreating(x, u)
        BY <1>1, <1>3 DEF IsCreating
  <2>2. \A u \in Tabs : lease[u] = o => lease'[u] = o
        BY <1>6, NoneIsNoRecord
  <2>3. CASE o # s
        BY <1>3, <1>8, <2>1, <2>2, <2>3, WorkFrame DEF Begins, IndInv, WorkOK
  <2>4. CASE o = s
        BY <1>1, <1>3, <1>6, <2>4, NoneIsNoRecord DEF WorkOK, IsCreating, IsWorked, Begins, Live
  <2> QED  BY <2>3, <2>4
<1>12. ASSUME NEW p \in Passers PROVE PassOK(p)'
  <2>1. Creating' \subseteq Creating
        BY <1>1, <1>3 DEF Creating
  <2> QED  BY <1>8, <2>1, PassFrame DEF Begins
<1> QED  BY <1>7, <1>9, <1>10, <1>11, <1>12 DEF IndInv

LEMMA AsksStep ==
    ASSUME IndInv, NEW s \in Sessions, NEW t \in Tabs, Asks(s, t) PROVE IndInv'
<1> DEFINE w == [tab |-> t, at |-> "creating"]
<1>1. w \in WorkT /\ w.tab = t /\ w.at = "creating"
      BY DEF WorkT
<1>2. work' = [work EXCEPT ![s] = w]
      BY DEF Asks
<1> HIDE DEF w
<1>3. /\ work'[s] = w /\ s \in Live
      /\ \A o \in Sessions : o # s => work'[o] = work[o]
      BY <1>2 DEF IndInv, Types, Asks, Free
<1>4. Types'
      BY <1>1, <1>2 DEF IndInv, Types, Asks
<1>5. Onward
      BY DEF Onward, Asks
<1>6. \A u \in Tabs : TabOK(u)'
      BY DEF IndInv, TabOK, Excused, Asks
<1>7. ASSUME NEW u \in Tabs PROVE QueueOK(u)'
  <2>1. \A o \in Sessions : IsWorked(o, u)' => IsWorked(o, u)
        BY <1>1, <1>3 DEF IsWorked
  <2> QED  BY <1>5, <2>1, QueueFrame DEF Asks, Handling
<1>8. ASSUME NEW o \in Sessions PROVE WorkOK(o)'
  <2>1. \A x \in Sessions, u \in Tabs : IsCreating(x, u)' => IsCreating(x, u) \/ (x = s /\ u = t)
        BY <1>1, <1>3 DEF IsCreating
  <2>2. \A x \in Sessions : ~IsCreating(x, t) /\ page[t] = "absent"
        BY DEF Asks, IsCreating
  <2>3. CASE o # s
        BY <1>3, <1>5, <2>1, <2>2, <2>3, WorkFrame DEF Asks, IndInv, WorkOK
  <2>4. CASE o = s
        BY <1>1, <1>3, <2>1, <2>2, <2>4, NoneIsNoRecord DEF WorkOK, IsCreating, IsWorked, Asks, Live
  <2> QED  BY <2>3, <2>4
<1>9. ASSUME NEW p \in Passers PROVE PassOK(p)'
      BY <1>5, PassFrame DEF Asks
<1> QED  BY <1>4, <1>6, <1>7, <1>8, <1>9 DEF IndInv

\* The transaction that Chrome has opened a tab for.
BoundOf(x) == [x EXCEPT !.at = "bound"]
WorkedOf(x) == [x EXCEPT !.at = "worked"]

LEMMA WorkFields ==
    ASSUME NEW x \in WorkT
    PROVE  /\ BoundOf(x) \in WorkT /\ BoundOf(x).tab = x.tab /\ BoundOf(x).at = "bound"
           /\ WorkedOf(x) \in WorkT /\ WorkedOf(x).tab = x.tab /\ WorkedOf(x).at = "worked"
BY DEF WorkT, BoundOf, WorkedOf

LEMMA NoWorkFields == NoWork \in WorkT /\ NoWork.tab = None /\ NoWork.at = "idle"
BY DEF NoWork, WorkT

LEMMA CreatedStep ==
    ASSUME IndInv, NEW s \in Sessions, Created(s) PROVE IndInv'
<1> DEFINE t == work[s].tab
<1>1. work[s].at = "creating" /\ t \in Tabs /\ IsCreating(s, t) /\ page[t] = "absent"
      /\ \A o \in Sessions \ {s} : ~IsCreating(o, t)
      BY DEF Created, IndInv, WorkOK, IsCreating
<1>2. \A o \in Sessions : work[o].tab = t => o = s
      BY <1>1 DEF IndInv, WorkOK, IsCreating
<1>3. PICK keep \in {"cleanup", "retain"} : Put(t, NewRecord(s, "executing", keep))
      BY DEF Created
<1> HIDE DEF t
<1>4. /\ record' \in SeenT /\ durable' = durable \union {t}
      /\ record'[t] # None /\ \A u \in Tabs : u # t => record'[u] = record[u]
  <2>1. NewRecord(s, "executing", keep) \in Record
        BY NewRecords, Labels
  <2> QED  BY <1>1, <1>3, <2>1, NoneIsNoRecord DEF Put, IndInv, Types, SeenT
<1>5. page' = [page EXCEPT ![t] = "open"]
      BY DEF Created, t
<1>6. page'[t] = "open" /\ \A u \in Tabs : u # t => page'[u] = page[u]
      BY <1>1, <1>5 DEF IndInv, Types
<1>7. /\ line[t] = << >> /\ lease[t] = None
      /\ \A o \in Sessions, u \in Tabs : lease[u] = o => lease'[u] = o /\ u # t
      /\ \A u \in Tabs : u # t => lease'[u] = lease[u]
      /\ lease' \in [Tabs -> Sessions \union {None}]
  <2>1. line[t] = << >> /\ lease[t] = None
        BY <1>1 DEF IndInv, TabOK
  <2>2. lease' = lease \/ lease' = [lease EXCEPT ![t] = s]
        BY DEF Created, t
  <2>3. /\ \A u \in Tabs : u # t => lease'[u] = lease[u]
        /\ lease' \in [Tabs -> Sessions \union {None}]
        BY <1>1, <2>2 DEF IndInv, Types
  <2> QED  BY <2>1, <2>3, NoneIsNoRecord
<1>8. /\ work' \in [Sessions -> WorkT] /\ \A o \in Sessions : o # s => work'[o] = work[o]
      /\ \/ work'[s] = BoundOf(work[s]) /\ s \in Live
         \/ work'[s] = NoWork
  <2>1. CASE s \in Live
    <3>1. work' = [work EXCEPT ![s] = BoundOf(work[s])]
          BY <2>1 DEF Created, BoundOf
    <3> QED  BY <2>1, <3>1, WorkFields DEF IndInv, Types
  <2>2. CASE s \notin Live
    <3>1. work' = [work EXCEPT ![s] = NoWork]
          BY <2>2 DEF Created
    <3> QED  BY <3>1, NoWorkFields DEF IndInv, Types
  <2> QED  BY <2>1, <2>2
<1>9. /\ work'[s].at \in {"bound", "idle"} /\ work'[s].tab \in {t, None}
      /\ work'[s].at = "idle" => work'[s].tab = None
      /\ work'[s].at = "bound" => work'[s].tab = t /\ s \in Live
  <2>1. work[s] \in WorkT
        BY DEF IndInv, Types
  <2> QED  BY <1>8, <2>1, WorkFields, NoWorkFields DEF t
<1>10. Types'
      BY <1>1, <1>4, <1>5, <1>7, <1>8 DEF IndInv, Types, Created
<1>11. Onward
      BY <1>1, <1>6 DEF Onward, Created
<1>12. \A u \in Tabs : TabOK(u)'
      BY <1>4, <1>6, <1>7 DEF IndInv, TabOK, Excused, Created
<1>13. ASSUME NEW u \in Tabs PROVE QueueOK(u)'
  <2>1. \A o \in Sessions : IsWorked(o, u)' => IsWorked(o, u)
        BY <1>8, <1>9 DEF IsWorked
  <2> QED  BY <1>7, <1>11, <2>1, QueueFrame DEF Created, Handling
<1>14. ASSUME NEW o \in Sessions PROVE WorkOK(o)'
  <2>1. \A x \in Sessions, u \in Tabs : IsCreating(x, u)' => IsCreating(x, u)
        BY <1>8, <1>9 DEF IsCreating
  <2>2. CASE o # s
    <3>1. \A u \in Tabs : IsCreating(o, u) => u # t
          BY <1>1, <2>2
    <3>2. \A u \in Tabs : IsCreating(o, u) => page'[u] = "absent"
          BY <1>6, <3>1 DEF IndInv, WorkOK
    <3> QED  BY <1>7, <1>8, <1>11, <2>1, <2>2, <3>2, WorkFrame
  <2>3. CASE o = s
    <3>1. session[s] # "new"
          BY <1>1 DEF IndInv, WorkOK
    <3> QED  BY <1>1, <1>6, <1>9, <2>3, <3>1, NoneIsNoRecord DEF WorkOK, IsCreating, IsWorked, Created, Live
  <2> QED  BY <2>2, <2>3
<1>15. ASSUME NEW p \in Passers PROVE PassOK(p)'
  <2>1. Creating' \subseteq Creating
        BY <1>8, <1>9 DEF Creating
  <2>2. t \in Creating
        BY <1>1 DEF Creating, IsCreating
  <2> QED  BY <1>6, <1>11, <2>1, <2>2, PassFrame DEF Created
<1> QED  BY <1>10, <1>12, <1>13, <1>14, <1>15 DEF IndInv

\* A queue that gets one more entry.
LEMMA QueueGrows ==
    ASSUME IndInv, NEW t \in Tabs, NEW e \in EntryT, line'[t] = Append(line[t], e),
           UNCHANGED <<page, session, work>>,
           \A p \in Passers : Handling(p, t) => Handling(p, t)',
           \A s \in Sessions : lease[t] = s => lease'[t] = s,
           EntryOK(t, e)',
           \A i \in DOMAIN line[t] :
              /\ line[t][i].by = e.by => e.op # "act" /\ line[t][i].op = "act"
              /\ e.op # "act" /\ e.by # Sweep /\ page[t] = "open"
                    => ~(line[t][i].op = "act" /\ line[t][i].by \in Live)
    PROVE  QueueOK(t)'
<1> DEFINE n == Len(line[t]) + 1
<1>1. /\ DOMAIN line[t] = 1..Len(line[t]) /\ Len(line[t]) \in Nat /\ DOMAIN line'[t] = 1..n
      /\ line'[t][n] = e /\ \A i \in DOMAIN line[t] : line'[t][i] = line[t][i]
      BY Appended DEF IndInv, Types
<1>2. \A i \in DOMAIN line'[t] : i \in DOMAIN line[t] \/ i = n
      BY <1>1
<1>3. \A i \in DOMAIN line[t] : i < n
      BY <1>1
<1>4. Live' = Live /\ page' = page
      BY DEF Live
<1> HIDE DEF n
<1>5. ASSUME NEW i \in DOMAIN line[t] PROVE EntryOK(t, line[t][i])'
  <2>1. PICK x \in EntryT : x = line[t][i]
        BY Elements DEF IndInv, Types
  <2>2. EntryOK(t, x)
        BY <2>1 DEF IndInv, QueueOK, Entries
  <2>3. EntryOK(t, x)'
        BY <1>4, <2>2 DEF EntryOK, IsWorked, EntryT
  <2> QED  BY <1>1, <2>1, <2>3
<1>6. Entries(t)'
      BY <1>1, <1>2, <1>5 DEF Entries
<1>7. OneTurn(t)'
      BY <1>1, <1>2 DEF IndInv, QueueOK, OneTurn
<1>8. \A i, j \in DOMAIN line[t] :
         /\ line[t][i].op # "act" /\ line[t][i].by # Sweep /\ page[t] = "open"
         /\ line[t][j].op = "act" /\ line[t][j].by \in Live
         => i < j /\ line[t][i].by # line[t][j].by
      BY DEF IndInv, QueueOK, ActsBehind
<1>9. ActsBehind(t)'
      BY <1>1, <1>2, <1>3, <1>4, <1>8 DEF ActsBehind
<1> QED  BY <1>6, <1>7, <1>9 DEF QueueOK

LEMMA ActsStep ==
    ASSUME IndInv, NEW s \in Sessions, Acts(s) PROVE IndInv'
<1>1. PICK t \in Tabs : t = work[s].tab
      BY DEF Acts, IndInv, WorkOK
<1> DEFINE e == [by |-> s, op |-> "act"]
<1>2. /\ s \in Live /\ lease[t] = s /\ page[t] # "absent" /\ session[s] # "new"
      /\ \A i \in DOMAIN line[t] : line[t][i].by # s
      BY <1>1, NoneIsNoRecord DEF Acts, IndInv, TabOK, Live
<1>3. e \in EntryT /\ e.by = s /\ e.op = "act"
      BY DEF EntryT, Passers
<1>4. line' = [line EXCEPT ![t] = Append(line[t], e)]
      BY <1>1 DEF Acts, Enqueue
<1> HIDE DEF e
<1>5. /\ line[t] \in Seq(EntryT) /\ line'[t] = Append(line[t], e)
      /\ \A u \in Tabs : u # t => line'[u] = line[u]
      BY <1>4 DEF IndInv, Types
<1>6. Types'
      BY <1>3, <1>4, <1>5, Appended DEF IndInv, Types, Acts
<1>7. Onward /\ UNCHANGED <<page, lease, session, work, pass>> /\ Live' = Live
      BY DEF Onward, Acts, Live
<1>8. \A u \in Tabs : TabOK(u)'
      BY <1>2, <1>5 DEF IndInv, TabOK, Excused, Acts
<1>9. ASSUME NEW u \in Tabs PROVE QueueOK(u)'
  <2>1. CASE u # t
        BY <1>5, <1>7, <2>1, QueueFrame DEF Handling, IsWorked
  <2>2. CASE u = t
    <3>1. EntryOK(t, e)'
          BY <1>2, <1>3, <1>7 DEF EntryOK
    <3>2. \A p \in Passers : Handling(p, t) => Handling(p, t)'
          BY <1>7 DEF Handling
    <3> QED  BY <1>2, <1>3, <1>5, <1>7, <2>2, <3>1, <3>2, QueueGrows
  <2> QED  BY <2>1, <2>2
<1>10. ASSUME NEW o \in Sessions PROVE WorkOK(o)'
      BY <1>7, WorkFrame DEF Acts, IsCreating, IndInv, WorkOK
<1>11. ASSUME NEW p \in Passers PROVE PassOK(p)'
      BY <1>7, PassFrame DEF Acts, Creating
<1> QED  BY <1>6, <1>8, <1>9, <1>10, <1>11 DEF IndInv

\* How transactions end.
LEMMA LeftIsRecord ==
    ASSUME NEW r \in Record, NEW out \in Outcomes, out # "closed" PROVE Left(r, out) \in Record
<1>1. out \in {"completed", "failed", "awaits", "in_doubt", "close_fails"}
      BY DEF Outcomes
<1>2. CASE out = "completed"
      BY <1>2 DEF Left, Record, Lifecycles, Policies
<1>3. CASE out = "failed"
      BY <1>3 DEF Left, Record, Lifecycles, Policies
<1>4. CASE out = "awaits"
      BY <1>4 DEF Left, Record, Lifecycles, Policies
<1>5. CASE out = "in_doubt"
      BY <1>5 DEF Left, Record, Lifecycles, Policies
<1>6. CASE out = "close_fails"
      BY <1>6 DEF Left
<1> QED  BY <1>1, <1>2, <1>3, <1>4, <1>5, <1>6

LEMMA EndsStep ==
    ASSUME IndInv, NEW s \in Sessions, NEW out \in Endings, Ends(s, out) PROVE IndInv'
<1> DEFINE t == work[s].tab
<1>1. /\ work[s].at \in {"bound", "worked"} /\ t \in Tabs /\ page[t] # "absent"
      /\ \A i \in DOMAIN line[t] : line[t][i].by # s
      BY DEF Ends, IndInv, WorkOK
<1>2. /\ work' = [work EXCEPT ![s] = NoWork]
      /\ lease' = [lease EXCEPT ![t] = IF lease[t] = s THEN None ELSE lease[t]]
      /\ UNCHANGED <<session, pass, line, givenUp>>
      BY DEF Ends
<1>3. \/ page[t] = "open" /\ page' = [page EXCEPT ![t] = "closed"] /\ Forget(t)
      \/ page' = page /\ record[t] = None /\ UNCHANGED <<record, durable>>
      \/ page' = page /\ record[t] # None /\ out # "closed" /\ Put(t, Left(record[t], out))
      BY DEF Ends
<1> HIDE DEF t
<1>4. /\ page' \in [Tabs -> {"absent", "open", "closed"}]
      /\ \A u \in Tabs : u # t => page'[u] = page[u] /\ record'[u] = record[u] /\ (u \in durable' <=> u \in durable)
      /\ record' \in SeenT /\ durable' \subseteq Tabs
      /\ \/ page'[t] = "closed"
         \/ page'[t] = page[t] /\ (record[t] # None /\ t \in durable => record'[t] # None /\ t \in durable')
      /\ t \in durable' => record'[t] # None
  <2>1. CASE page[t] = "open" /\ page' = [page EXCEPT ![t] = "closed"] /\ Forget(t)
        BY <1>1, <2>1 DEF Forget, IndInv, Types, SeenT
  <2>2. CASE page' = page /\ record[t] = None /\ UNCHANGED <<record, durable>>
        BY <2>2 DEF IndInv, Types, TabOK
  <2>3. CASE page' = page /\ record[t] # None /\ out # "closed" /\ Put(t, Left(record[t], out))
    <3>1. record[t] \in Record /\ out \in Outcomes
          BY <1>1, <2>3, TaskTabsAssumption DEF IndInv, Types, SeenT
    <3>2. Left(record[t], out) \in Record
          BY <2>3, <3>1, LeftIsRecord
    <3> QED  BY <1>1, <2>3, <3>2, NoneIsNoRecord DEF Put, IndInv, Types, SeenT
  <2> QED  BY <1>3, <2>1, <2>2, <2>3
<1>5. /\ work'[s] = NoWork /\ \A o \in Sessions : o # s => work'[o] = work[o]
      /\ \A u \in Tabs : u # t => lease'[u] = lease[u]
      /\ lease'[t] = IF lease[t] = s THEN None ELSE lease[t]
      /\ lease' \in [Tabs -> Sessions \union {None}]
      BY <1>1, <1>2 DEF IndInv, Types
<1>6. Types'
      BY <1>2, <1>4, <1>5, NoWorkFields DEF IndInv, Types
<1>7. Onward
      BY <1>1, <1>2, <1>4 DEF Onward
<1>8. \A u \in Tabs : TabOK(u)'
      BY <1>1, <1>2, <1>4, <1>5 DEF IndInv, TabOK, Excused
<1>9. ASSUME NEW u \in Tabs PROVE QueueOK(u)'
  <2>1. \A o \in Sessions : IsWorked(o, u)' => IsWorked(o, u)
        BY <1>5, NoWorkFields DEF IsWorked
  <2>2. \A o \in Sessions : lease[u] = o /\ lease'[u] # o => u = t /\ o = s
        BY <1>5
  <2> QED  BY <1>1, <1>2, <1>7, <2>1, <2>2, QueueFrame DEF Handling
<1>10. ASSUME NEW o \in Sessions PROVE WorkOK(o)'
  <2>1. \A x \in Sessions, u \in Tabs : IsCreating(x, u)' => IsCreating(x, u)
        BY <1>5, NoWorkFields DEF IsCreating
  <2>2. CASE o # s
    <3>1. \A u \in Tabs : IsCreating(o, u) => page'[u] = "absent"
      <4>1. \A u \in Tabs : IsCreating(o, u) => page[u] = "absent"
            BY DEF IndInv, WorkOK
      <4> QED  BY <1>1, <1>4, <4>1
    <3> QED  BY <1>5, <1>7, <2>1, <2>2, <3>1, WorkFrame
  <2>3. CASE o = s
        BY <1>5, <2>3, NoWorkFields, NoneIsNoRecord DEF WorkOK, IsCreating, IsWorked
  <2> QED  BY <2>2, <2>3
<1>11. ASSUME NEW p \in Passers PROVE PassOK(p)'
  <2>1. Creating' \subseteq Creating
        BY <1>5, NoWorkFields DEF Creating
  <2> QED  BY <1>2, <1>4, <1>7, <2>1, PassFrame
<1> QED  BY <1>6, <1>8, <1>9, <1>10, <1>11 DEF IndInv

\* Steps that change no page, no queue and no transaction: leases, records, one pass, sessions.
LEMMA QuietStep ==
    ASSUME IndInv, Types', Onward, UNCHANGED <<page, work, line>>,
           NEW p \in Passers, \A o \in Passers : o # p => pass'[o] = pass[o],
           PassOK(p)', \A t \in Tabs : Handling(p, t) => Handling(p, t)',
           \A t \in Tabs : /\ page[t] = "absent" => lease'[t] = None /\ record'[t] = None
                           /\ t \in durable' => record'[t] # None,
           \A t \in Tabs : page[t] = "open" /\ t \notin Excused' /\ record[t] # None /\ t \in durable
               => record'[t] # None /\ t \in durable',
           \A t \in Tabs, s \in Sessions : lease[t] = s /\ lease'[t] # s
               => \/ page[t] # "open" \/ s \notin Live'
                  \/ /\ ~IsWorked(s, t)
                     /\ \A i \in DOMAIN line[t] : ~(line[t][i].op = "act" /\ line[t][i].by = s)
    PROVE  IndInv'
<1>1. \A t \in Tabs : t \in Excused => t \in Excused'
      BY DEF Excused, Onward
<1>2. \A t \in Tabs : TabOK(t)'
      BY <1>1 DEF IndInv, TabOK
<1>3. ASSUME NEW t \in Tabs PROVE QueueOK(t)'
  <2>1. \A o \in Passers : Handling(o, t) => Handling(o, t)'
        BY DEF Handling
  <2> QED  BY <2>1, QueueFrame DEF IsWorked
<1>4. ASSUME NEW o \in Sessions PROVE WorkOK(o)'
      BY WorkFrame DEF IsCreating, IsWorked, IndInv, WorkOK
<1>5. ASSUME NEW o \in Passers PROVE PassOK(o)'
  <2>1. CASE o # p
        BY <2>1, PassFrame DEF Creating
  <2> QED  BY <2>1
<1> QED  BY <1>2, <1>3, <1>4, <1>5 DEF IndInv

\* Steps that change leases and records only.
LEMMA LeaseStep ==
    ASSUME IndInv, UNCHANGED <<page, session, work, pass, line>>,
           givenUp \subseteq givenUp', givenUp' \subseteq Tabs,
           lease' \in [Tabs -> Sessions \union {None}], record' \in SeenT, durable' \subseteq Tabs,
           \A t \in Tabs : /\ page[t] = "absent" => lease'[t] = None /\ record'[t] = None
                           /\ t \in durable' => record'[t] # None,
           \A t \in Tabs : page[t] = "open" /\ t \notin Excused' /\ record[t] # None /\ t \in durable
               => record'[t] # None /\ t \in durable',
           \A t \in Tabs, s \in Sessions : lease[t] = s /\ lease'[t] # s
               => \/ page[t] # "open"
                  \/ /\ ~IsWorked(s, t)
                     /\ \A i \in DOMAIN line[t] : ~(line[t][i].op = "act" /\ line[t][i].by = s)
    PROVE  IndInv'
<1>1. Types' /\ Onward
      BY DEF IndInv, Types, Onward
<1>2. Sweep \in Passers /\ PassOK(Sweep)'
      BY <1>1, PassFrame DEF Creating, Passers
<1>3. \A t \in Tabs : Handling(Sweep, t) => Handling(Sweep, t)'
      BY DEF Handling
<1> QED  BY <1>1, <1>2, <1>3, QuietStep

LEMMA ReservesStep ==
    ASSUME IndInv, NEW s \in Sessions, NEW t \in Tabs, Reserves(s, t) PROVE IndInv'
<1>1. /\ page[t] = "open" /\ lease[t] = None /\ lease' = [lease EXCEPT ![t] = s]
      /\ UNCHANGED <<page, record, durable, session, work, pass, line, givenUp>>
      BY DEF Reserves
<1>2. lease' \in [Tabs -> Sessions \union {None}] /\ \A u \in Tabs : u # t => lease'[u] = lease[u]
      BY <1>1 DEF IndInv, Types
<1> QED  BY <1>1, <1>2, LeaseStep, NoneIsNoRecord DEF IndInv, Types, TabOK

LEMMA GivesBackStep ==
    ASSUME IndInv, NEW s \in Sessions, NEW t \in Tabs, GivesBack(s, t) PROVE IndInv'
<1>1. /\ lease[t] = s /\ lease' = [lease EXCEPT ![t] = None] /\ ~IsWorked(s, t)
      /\ \A i \in DOMAIN line[t] : line[t][i].by # s
      /\ UNCHANGED <<page, record, durable, session, work, pass, line, givenUp>>
      BY DEF GivesBack, IsWorked
<1>2. /\ lease' \in [Tabs -> Sessions \union {None}] /\ \A u \in Tabs : u # t => lease'[u] = lease[u]
      /\ lease'[t] = None
      BY <1>1 DEF IndInv, Types
<1> QED  BY <1>1, <1>2, LeaseStep DEF IndInv, Types, TabOK

\* One record that is put, and one that is forgotten.
LEMMA PutRecord ==
    ASSUME IndInv, NEW t \in Tabs, NEW r \in Record, Put(t, r)
    PROVE  /\ record' \in SeenT /\ durable' \subseteq Tabs /\ record'[t] = r /\ r # None /\ t \in durable'
           /\ \A u \in Tabs : u # t => record'[u] = record[u] /\ (u \in durable' <=> u \in durable)
BY NoneIsNoRecord DEF Put, IndInv, Types, SeenT

LEMMA ForgetRecord ==
    ASSUME IndInv, NEW t \in Tabs, Forget(t)
    PROVE  /\ record' \in SeenT /\ durable' \subseteq Tabs /\ record'[t] = None /\ t \notin durable'
           /\ \A u \in Tabs : u # t => record'[u] = record[u] /\ (u \in durable' <=> u \in durable)
BY DEF Forget, IndInv, Types, SeenT

LEMMA ClaimsStep ==
    ASSUME IndInv, NEW s \in Sessions, NEW t \in Tabs, Claims(s, t) PROVE IndInv'
<1>1. /\ page[t] = "open" /\ lease[t] \in {None, s} /\ lease' = [lease EXCEPT ![t] = s]
      /\ Put(t, NewRecord(s, "executing", "explicit"))
      /\ UNCHANGED <<page, session, work, pass, line, givenUp>>
      BY DEF Claims
<1>2. lease' \in [Tabs -> Sessions \union {None}] /\ lease'[t] = s
      /\ \A u \in Tabs : u # t => lease'[u] = lease[u]
      BY <1>1 DEF IndInv, Types
<1>3. NewRecord(s, "executing", "explicit") \in Record
      BY NewRecords, Labels
<1>4. /\ record' \in SeenT /\ durable' \subseteq Tabs /\ record'[t] # None /\ t \in durable'
      /\ \A u \in Tabs : u # t => record'[u] = record[u] /\ (u \in durable' <=> u \in durable)
      BY <1>1, <1>3, PutRecord
<1>5. \A u \in Tabs : /\ page[u] = "absent" => lease'[u] = None /\ record'[u] = None
                      /\ u \in durable' => record'[u] # None
      BY <1>1, <1>2, <1>4 DEF IndInv, TabOK
<1>6. \A u \in Tabs, o \in Sessions : lease[u] = o /\ lease'[u] # o => FALSE
      BY <1>1, <1>2, NoneIsNoRecord
<1> QED  BY <1>1, <1>2, <1>4, <1>5, <1>6, LeaseStep DEF IndInv, Types

LEMMA RemovedStep ==
    ASSUME IndInv, NEW t \in Tabs, Removed(t) PROVE IndInv'
<1>1. /\ page[t] = "closed" /\ Forget(t) /\ lease' = [lease EXCEPT ![t] = None]
      /\ UNCHANGED <<page, session, work, pass, line, givenUp>>
      BY DEF Removed
<1>2. lease' \in [Tabs -> Sessions \union {None}] /\ \A u \in Tabs : u # t => lease'[u] = lease[u]
      BY <1>1 DEF IndInv, Types
<1> QED  BY <1>1, <1>2, ForgetRecord, LeaseStep DEF IndInv, Types, TabOK

LEMMA PurgesStep ==
    ASSUME IndInv, NEW s \in Sessions, NEW t \in Tabs, Purges(s, t) PROVE IndInv'
<1>1. /\ page[t] # "open" /\ Forget(t) /\ UNCHANGED <<page, lease, session, work, pass, line, givenUp>>
      BY DEF Purges
<1> QED  BY <1>1, ForgetRecord, LeaseStep DEF IndInv, Types, TabOK

LEMMA TerminalizesStep ==
    ASSUME IndInv, NEW t \in Tabs, Terminalizes(t) PROVE IndInv'
<1>1. /\ record' = [record EXCEPT ![t] = KeptAs(record[t], "ledger_only")] /\ record[t] # None
      /\ record[t] \in Record
      /\ UNCHANGED <<page, durable, lease, session, work, pass, line, givenUp>>
      BY DEF Terminalizes, KeptAs, IndInv, Types, SeenT, TabOK
<1>2. /\ record' \in SeenT /\ record'[t] # None
      /\ \A u \in Tabs : u # t => record'[u] = record[u]
  <2>1. KeptAs(record[t], "ledger_only") \in Record
        BY <1>1, Labels DEF KeptAs, Record
  <2> QED  BY <1>1, <2>1, NoneIsNoRecord DEF IndInv, Types, SeenT
<1> QED  BY <1>1, <1>2, LeaseStep DEF IndInv, Types, TabOK

LEMMA CollectsStep ==
    ASSUME IndInv, NEW t \in Tabs, Collects(t) PROVE IndInv'
<1>1. /\ durable' = durable \ {t} /\ givenUp' = givenUp \union {t}
      /\ UNCHANGED <<page, record, lease, session, work, pass, line>>
      BY DEF Collects
<1>2. t \in Excused'
      BY <1>1 DEF Excused
<1> QED  BY <1>1, <1>2, LeaseStep DEF IndInv, Types, TabOK

LEMMA KeyAgesStep ==
    ASSUME IndInv, NEW t \in Tabs, KeyAges(t) PROVE IndInv'
BY LeaseStep DEF KeyAges, IndInv, Types, TabOK

LEMMA PopupOpensStep ==
    ASSUME IndInv, NEW s \in Sessions, NEW t \in Tabs, NEW u \in Tabs, PopupOpens(s, t, u)
    PROVE  IndInv'
<1> DEFINE r == LeftAs(record[t], "discovered", "retain")
<1>1. /\ page[u] = "absent" /\ u \in Popups /\ record[t] # None
      /\ page' = [page EXCEPT ![u] = "open"] /\ Put(u, r)
      /\ UNCHANGED <<lease, session, work, pass, line, givenUp>>
      BY DEF PopupOpens, LeftAs
<1>2. r \in Record
  <2>1. record[t] \in Record
        BY <1>1 DEF IndInv, Types, SeenT
  <2>2. "discovered" \in Lifecycles /\ "retain" \in Policies
        BY Labels
  <2> QED  BY <2>1, <2>2 DEF LeftAs, Record
<1> HIDE DEF r
<1>3. /\ record' \in SeenT /\ durable' \subseteq Tabs /\ record'[u] # None /\ u \in durable'
      /\ \A x \in Tabs : x # u => record'[x] = record[x] /\ (x \in durable' <=> x \in durable)
      BY <1>1, <1>2, PutRecord
<1>4. page'[u] = "open" /\ \A x \in Tabs : x # u => page'[x] = page[x]
      BY <1>1 DEF IndInv, Types
<1>5. Types' /\ Onward
      BY <1>1, <1>3, <1>4 DEF IndInv, Types, Onward
<1>6. \A x \in Tabs : TabOK(x)'
      BY <1>1, <1>3, <1>4 DEF IndInv, TabOK, Excused
<1>7. ASSUME NEW x \in Tabs PROVE QueueOK(x)'
      BY <1>1, <1>5, QueueFrame DEF Handling, IsWorked
<1>8. ASSUME NEW o \in Sessions PROVE WorkOK(o)'
  <2>1. \A x \in Tabs : IsCreating(o, x) => page'[x] = "absent"
        BY <1>1, <1>4 DEF IndInv, WorkOK
  <2> QED  BY <1>1, <1>5, <2>1, WorkFrame DEF IsCreating
<1>9. ASSUME NEW p \in Passers PROVE PassOK(p)'
  <2>1. \A x \in Tabs : page'[x] = "open" => page[x] = "open" \/ x \in Excused'
        BY <1>1, <1>4 DEF Excused
  <2> QED  BY <1>1, <1>5, <2>1, PassFrame DEF Creating
<1> QED  BY <1>5, <1>6, <1>7, <1>8, <1>9 DEF IndInv

LEMMA UserClosesStep ==
    ASSUME IndInv, NEW t \in Tabs, UserCloses(t) PROVE IndInv'
<1>1. /\ page[t] = "open" /\ page' = [page EXCEPT ![t] = "closed"]
      /\ UNCHANGED <<record, durable, lease, session, work, pass, line, givenUp>>
      BY DEF UserCloses
<1>2. page'[t] = "closed" /\ \A x \in Tabs : x # t => page'[x] = page[x]
      BY <1>1 DEF IndInv, Types
<1>3. Types' /\ Onward
      BY <1>1, <1>2 DEF IndInv, Types, Onward
<1>4. \A x \in Tabs : TabOK(x)'
      BY <1>1, <1>2 DEF IndInv, TabOK, Excused
<1>5. ASSUME NEW x \in Tabs PROVE QueueOK(x)'
      BY <1>1, <1>3, QueueFrame DEF Handling, IsWorked
<1>6. ASSUME NEW o \in Sessions PROVE WorkOK(o)'
  <2>1. \A x \in Tabs : IsCreating(o, x) => page'[x] = "absent"
        BY <1>1, <1>2 DEF IndInv, WorkOK
  <2> QED  BY <1>1, <1>3, <2>1, WorkFrame DEF IsCreating
<1>7. ASSUME NEW p \in Passers PROVE PassOK(p)'
      BY <1>1, <1>2, <1>3, PassFrame DEF Creating
<1> QED  BY <1>3, <1>4, <1>5, <1>6, <1>7 DEF IndInv

-----------------------------------------------------------------------------
(* Passes                                                                  *)

\* Steps of one pass that leave everything else as it is.
LEMMA PassStep ==
    ASSUME IndInv, NEW p \in Passers, NEW y \in PassT, pass' = [pass EXCEPT ![p] = y],
           UNCHANGED <<page, record, durable, lease, session, work, line, givenUp>>,
           PassOK(p)', \A t \in Tabs : ~Handling(p, t)
    PROVE  IndInv'
<1>1. pass'[p] = y /\ \A o \in Passers : o # p => pass'[o] = pass[o]
      BY DEF IndInv, Types
<1>2. Types' /\ Onward
      BY DEF IndInv, Types, Onward
<1> QED  BY <1>1, <1>2, QuietStep DEF IndInv, TabOK

LEMMA PassStartsStep ==
    ASSUME IndInv, NEW p \in Passers, NEW kind \in Kinds, PassStarts(p, kind) PROVE IndInv'
<1> DEFINE b == IF kind \in Ending \union {"sweep"} THEN Pending ELSE {}
           z == IF kind \in Ending THEN Seen ELSE NoPass.seen
           y == Began(kind, b, z)
<1>1. /\ pass[p].at = "idle" /\ pass' = [pass EXCEPT ![p] = y]
      /\ UNCHANGED <<page, record, durable, lease, session, work, line, givenUp>>
      /\ p = Sweep <=> kind = "sweep"
      /\ p # Sweep => p \in Live
      BY DEF PassStarts, Began
<1>2. b \in SUBSET Tasks
      BY Pendings DEF IndInv
<1>3. z \in SeenT /\ \A t \in Tabs : z[t] # None => record[t] # None
  <2>1. CASE kind \in Ending
    <3>1. z = [t \in Tabs |-> record[t]]
          BY <2>1 DEF Seen
    <3> QED  BY <3>1 DEF IndInv, Types, SeenT
  <2>2. CASE kind \notin Ending
    <3>1. z = NoPass.seen
          BY <2>2
    <3>2. NoPass.seen \in SeenT
          BY DEF NoPass, SeenT
    <3> QED  BY <3>1, <3>2, NoPassFields
  <2> QED  BY <2>1, <2>2
<1> HIDE DEF b, z
<1>4. /\ y \in PassT /\ y.at = "asking" /\ y.kind = kind /\ y.live = {} /\ y.todo = {}
      /\ y.seen = z
  <2>1. y \in PassT
        BY Zenon, <1>2, <1>3, BeganFields
  <2>4. y.at = "asking" /\ y.kind = kind
        BY <1>2, <1>3, BeganFields
  <2>2. y.live = {} /\ y.todo = {}
        BY <1>2, <1>3, BeganFields
  <2>3. y.seen = z
        BY <1>2, <1>3, BeganFields
  <2> QED  BY <2>1, <2>2, <2>3, <2>4
<1> HIDE DEF y
<1>5. pass'[p] = y
      BY <1>1 DEF IndInv, Types
<1>6. \A t \in Tabs : z[t] # None => page[t] # "absent"
      BY <1>3 DEF IndInv, TabOK
<1>7. p \in Sessions => session[p] # "new"
      BY <1>1, NoneIsNoRecord DEF Live
<1>8. PassOK(p)'
      BY <1>1, <1>4, <1>5, <1>6, <1>7 DEF PassOK
<1> QED  BY <1>1, <1>4, <1>8, PassStep DEF Handling

LEMMA ListsStep ==
    ASSUME IndInv, NEW p \in Passers, Lists(p) PROVE IndInv'
<1> DEFINE y == ListedIn(pass[p], Open)
<1>1. pass[p] \in PassT /\ Open \in SUBSET Tabs
      BY DEF IndInv, Types, Open
<1>2. /\ pass[p].at = "asking" /\ pass' = [pass EXCEPT ![p] = y] /\ Creating \subseteq givenUp
      /\ UNCHANGED <<page, record, durable, lease, session, work, line, givenUp>>
      BY <1>1 DEF Lists, ListedIn, IndInv, Types
<1>3. /\ y \in PassT /\ y.at = "listed" /\ y.kind = pass[p].kind /\ y.live = Open
      /\ y.todo = pass[p].todo /\ y.seen = pass[p].seen
      BY <1>1, ListedFields
<1> HIDE DEF y
<1>4. pass'[p] = y
      BY <1>2 DEF IndInv, Types
<1>5. PassOK(p) /\ Creating' = Creating /\ Open' = Open /\ Excused' = Excused
      BY <1>2 DEF IndInv, Creating, Open, Excused
<1>6. \A t \in Tabs : t \in y.live \/ y.seen[t] # None => page[t] # "absent"
      BY <1>3, <1>5 DEF PassOK, Open
<1>7. PassOK(p)'
      BY <1>2, <1>3, <1>4, <1>5, <1>6 DEF PassOK
<1> QED  BY <1>2, <1>3, <1>7, PassStep DEF Handling

\* What a pass takes up was seen, and what it takes for gone is gone.
LEMMA ReadsStep ==
    ASSUME IndInv, NEW p \in Passers, Reads(p) PROVE IndInv'
<1> DEFINE seen == IF pass[p].kind \in Ending THEN pass[p].seen ELSE record
           taken == {t \in Tabs : seen[t] # None /\ Takes(p, t, seen[t])}
           todo == IF pass[p].kind = "transfer" THEN taken \intersect pass[p].live ELSE taken
           at == IF pass[p].kind = "transfer" /\ \E t \in taken : lease[t] # None
                 THEN "done" ELSE "choosing"
           z == [t \in Tabs |-> IF t \in todo THEN seen[t] ELSE None]
           y == Chosen(pass[p], at, z, todo)
<1>1. pass[p] \in PassT /\ PassOK(p) /\ pass[p].at = "listed"
      BY DEF Reads, IndInv, Types
<1>2. /\ pass' = [pass EXCEPT ![p] = y]
      /\ UNCHANGED <<page, record, durable, lease, session, work, line, givenUp>>
      BY <1>1 DEF Reads, Chosen, IndInv, Types
<1>3. seen \in SeenT
      BY <1>1 DEF IndInv, Types, PassT
<1>4. \A t \in Tabs : t \in todo => seen[t] # None /\ Takes(p, t, seen[t])
      OBVIOUS
<1>5. \A t \in Tabs : seen[t] # None => page[t] # "absent"
      BY <1>1 DEF PassOK, IndInv, TabOK
<1>6. todo \in SUBSET Tabs
      BY <1>1
<1> HIDE DEF seen, todo
<1>7. z \in SeenT /\ \A t \in Tabs : z[t] # None <=> t \in todo
      BY <1>3, <1>4, NoneIsNoRecord DEF SeenT
<1>8. \A t \in Tabs : t \in todo => z[t] = seen[t]
      OBVIOUS
<1>9. at \in {"done", "choosing"} /\ at \in Stages
      BY DEF Stages
<1> HIDE DEF at, z
<1>10. /\ y \in PassT /\ y.at = at /\ y.kind = pass[p].kind /\ y.todo = todo
       /\ y.live = pass[p].live \intersect todo /\ y.seen = z
      BY <1>1, <1>6, <1>7, <1>9, ChosenFields
<1> HIDE DEF y
<1>11. pass'[p] = y
      BY <1>2 DEF IndInv, Types
<1>12. p = Sweep => \A t \in Tabs : z[t] # None => Disposable(z[t])
  <2>1. SUFFICES ASSUME p = Sweep, NEW t \in Tabs, z[t] # None PROVE Disposable(z[t])
        OBVIOUS
  <2>2. Takes(p, t, seen[t]) /\ z[t] = seen[t] /\ pass[p].kind = "sweep"
        BY <1>1, <1>4, <1>7, <1>8, <2>1 DEF PassOK
  <2> QED  BY <2>2 DEF Takes, Ending
<1>13. \A t \in Tabs : t \in todo /\ t \notin y.live => page[t] # "open" \/ t \in Excused
      BY <1>1, <1>10 DEF PassOK, Open
<1>14. Excused' = Excused
      BY <1>2 DEF Excused
<1>15. PassOK(p)'
      BY <1>1, <1>2, <1>5, <1>7, <1>8, <1>9, <1>10, <1>11, <1>12, <1>13, <1>14, <1>4 DEF PassOK
<1> QED  BY <1>1, <1>2, <1>10, <1>15, PassStep DEF Handling

\* What every pass that goes on to the next candidate keeps.
LEMMA OverOK ==
    ASSUME IndInv, NEW p \in Passers, NEW t \in Tabs, Done(p, t), Onward,
           pass[p].at \in {"choosing", "closing"}
    PROVE  /\ \A o \in Passers : o # p => pass'[o] = pass[o]
           /\ pass' \in [Passers -> PassT] /\ PassOK(p)'
           /\ pass'[p].at = "choosing"
<1> DEFINE y == Over(pass[p], t)
<1>1. pass[p] \in PassT /\ PassOK(p)
      BY DEF IndInv, Types
<1>2. pass' = [pass EXCEPT ![p] = y]
      BY OverIs DEF IndInv, Types
<1>3. /\ y \in PassT /\ y.at = "choosing" /\ y.kind = pass[p].kind /\ y.todo = pass[p].todo \ {t}
      /\ y.live = pass[p].live \ {t} /\ y.seen[t] = None
      /\ \A u \in Tabs : u # t => y.seen[u] = pass[p].seen[u]
      BY <1>1, OverFields
<1> HIDE DEF y
<1>4. pass'[p] = y
      BY <1>2 DEF IndInv, Types
<1>5. \A u \in Tabs : u \in Excused => u \in Excused'
      BY DEF Excused, Onward
<1>6. p \in Sessions => session'[p] # "new"
      BY <1>1 DEF PassOK, Onward
<1>7. p = Sweep => \A u \in Tabs : y.seen[u] # None => Disposable(y.seen[u])
      BY <1>1, <1>3 DEF PassOK
<1>10. y.kind \in Kinds /\ (p = Sweep <=> y.kind = "sweep")
      BY <1>1, <1>3 DEF PassOK
<1>8. ASSUME NEW u \in Tabs
      PROVE  /\ u \in y.live \/ y.seen[u] # None => page'[u] # "absent"
             /\ u \in y.todo => y.seen[u] # None
             /\ u \in y.todo /\ u \notin y.live => page'[u] # "open" \/ u \in Excused'
  <2>1. /\ u \in pass[p].live \/ pass[p].seen[u] # None => page[u] # "absent"
        /\ u \in pass[p].todo => pass[p].seen[u] # None
        /\ u \in pass[p].todo /\ u \notin pass[p].live => page[u] # "open" \/ u \in Excused
        BY <1>1 DEF PassOK
  <2>2. u \in y.todo \/ u \in y.live \/ y.seen[u] # None => u # t
        BY <1>3
  <2>3. page[u] \in {"absent", "open", "closed"} /\ (page[u] # "absent" => page'[u] # "absent")
        /\ (page[u] = "closed" => page'[u] = "closed")
        BY DEF IndInv, Types, Onward
  <2> QED  BY <1>3, <1>5, <2>1, <2>2, <2>3
<1>9. PassOK(p)'
      BY <1>3, <1>4, <1>6, <1>7, <1>8, <1>10 DEF PassOK
<1> QED  BY <1>2, <1>3, <1>4, <1>9 DEF IndInv, Types

LEMMA VanishedStep ==
    ASSUME IndInv, NEW p \in Passers, NEW t \in Tabs, Vanished(p, t) PROVE IndInv'
<1>1. /\ pass[p].at = "choosing" /\ t \in pass[p].todo /\ t \notin pass[p].live
      /\ Forget(t) /\ Done(p, t) /\ UNCHANGED <<page, lease, session, work, line, givenUp>>
      BY DEF Vanished, Turn
<1>2. page[t] # "open" \/ t \in Excused
      BY <1>1 DEF IndInv, PassOK
<1>3. Onward /\ Excused' = Excused
      BY <1>1 DEF Onward, Excused
<1>4. /\ \A o \in Passers : o # p => pass'[o] = pass[o]
      /\ pass' \in [Passers -> PassT] /\ PassOK(p)'
      BY <1>1, <1>3, OverOK
<1>5. /\ record' \in SeenT /\ durable' \subseteq Tabs /\ record'[t] = None /\ t \notin durable'
      /\ \A u \in Tabs : u # t => record'[u] = record[u] /\ (u \in durable' <=> u \in durable)
      BY <1>1, ForgetRecord
<1>6. Types'
      BY <1>1, <1>4, <1>5 DEF IndInv, Types
<1>7. \A u \in Tabs : ~Handling(p, u)
      BY <1>1 DEF Handling
<1>8. \A u \in Tabs : /\ page[u] = "absent" => lease'[u] = None /\ record'[u] = None
                      /\ u \in durable' => record'[u] # None
      BY <1>1, <1>5 DEF IndInv, TabOK
<1> QED  BY <1>1, <1>2, <1>3, <1>4, <1>5, <1>6, <1>7, <1>8, QuietStep

LEMMA SkipsStep ==
    ASSUME IndInv, NEW p \in Passers, NEW t \in Tabs, Skips(p, t) PROVE IndInv'
<1> DEFINE r == Orphaned(pass[p].seen[t])
<1>1. /\ pass[p].at = "choosing" /\ t \in pass[p].todo
      /\ Done(p, t) /\ UNCHANGED <<page, lease, session, work, line, givenUp>>
      /\ Put(t, r) \/ UNCHANGED <<record, durable>>
      BY DEF Skips, Turn, Orphaned
<1>2. pass[p].seen[t] \in Record /\ page[t] # "absent"
      BY <1>1 DEF IndInv, Types, PassT, SeenT, PassOK
<1>3. r \in Record
      BY <1>2 DEF Orphaned, Record, Policies
<1> HIDE DEF r
<1>4. Onward /\ Excused' = Excused
      BY <1>1 DEF Onward, Excused
<1>5. /\ \A o \in Passers : o # p => pass'[o] = pass[o]
      /\ pass' \in [Passers -> PassT] /\ PassOK(p)'
      BY <1>1, <1>4, OverOK
<1>6. /\ record' \in SeenT /\ durable' \subseteq Tabs
      /\ \A u \in Tabs : /\ record[u] # None => record'[u] # None
                         /\ u \in durable => u \in durable'
                         /\ u \in durable' => record'[u] # None
                         /\ page[u] = "absent" => record'[u] = None
  <2>1. CASE Put(t, r)
        BY <1>2, <1>3, <2>1, PutRecord DEF IndInv, TabOK
  <2>2. CASE UNCHANGED <<record, durable>>
        BY <2>2 DEF IndInv, Types, TabOK
  <2> QED  BY <1>1, <2>1, <2>2
<1>7. Types'
      BY <1>1, <1>5, <1>6 DEF IndInv, Types
<1>8. \A u \in Tabs : ~Handling(p, u)
      BY <1>1 DEF Handling
<1>9. \A u \in Tabs : page[u] = "absent" => lease'[u] = None
      BY <1>1 DEF IndInv, TabOK
<1> QED  BY <1>1, <1>4, <1>5, <1>6, <1>7, <1>8, <1>9, QuietStep

\* A pass gets its place in the queue of a tab on which no transaction of a live session works.
LEMMA JoinsStep ==
    ASSUME IndInv, NEW p \in Passers, NEW t \in Tabs, NEW e \in EntryT,
           e.by = p, e.op # "act", e.op # "close" => p \in Sessions,
           Turn(p, t), line' = [line EXCEPT ![t] = Append(line[t], e)],
           pass' = [pass EXCEPT ![p] = Handles(pass[p], t)],
           UNCHANGED <<page, session, work, givenUp>>,
           record' \in SeenT, durable' \subseteq Tabs,
           \A u \in Tabs : /\ record[u] # None => record'[u] # None
                           /\ u \in durable => u \in durable'
                           /\ u \in durable' => record'[u] # None
                           /\ page[u] = "absent" => record'[u] = None,
           lease' \in [Tabs -> Sessions \union {None}],
           \A u \in Tabs : /\ page[u] = "absent" => lease'[u] = None
                           /\ \A s \in Sessions : lease[u] = s => lease'[u] = s,
           p # Sweep => \A s \in Live :
               lease[t] = s => ~IsWorked(s, t) /\ \A i \in DOMAIN line[t] : line[t][i].by # s
    PROVE  IndInv'
<1> DEFINE y == Handles(pass[p], t)
<1>1. /\ pass[p] \in PassT /\ PassOK(p) /\ pass[p].at = "choosing" /\ t \in pass[p].todo
      /\ pass[p].seen[t] # None /\ page[t] # "absent"
      BY DEF IndInv, Types, Turn, PassOK
<1>2. /\ y \in PassT /\ y.at = "closing" /\ y.tab = t /\ y.kind = pass[p].kind
      /\ y.todo = pass[p].todo /\ y.live = pass[p].live /\ y.seen = pass[p].seen
      BY <1>1, HandlesFields
<1> HIDE DEF y
<1>3. pass'[p] = y /\ \A o \in Passers : o # p => pass'[o] = pass[o]
      BY DEF IndInv, Types, y
<1>4. line'[t] = Append(line[t], e) /\ \A u \in Tabs : u # t => line'[u] = line[u]
      BY DEF IndInv, Types
<1>5. Types'
  <2>1. line[t] \in Seq(EntryT)
        BY DEF IndInv, Types
  <2>2. line' \in [Tabs -> Seq(EntryT)]
        BY <2>1, Appended DEF IndInv, Types
  <2>3. pass' \in [Passers -> PassT]
        BY <1>2 DEF IndInv, Types, y
  <2> QED  BY <2>2, <2>3 DEF IndInv, Types
<1>6. Onward /\ Excused' = Excused /\ Live' = Live
      BY DEF Onward, Excused, Live
<1>7. \A u \in Tabs : TabOK(u)'
      BY <1>1, <1>4, <1>6 DEF IndInv, TabOK
<1>8. ASSUME NEW u \in Tabs PROVE QueueOK(u)'
  <2>1. \A o \in Passers : Handling(o, u) => Handling(o, u)'
        BY <1>1, <1>3 DEF Handling
  <2>2. CASE u # t
    <3>1. \A s \in Sessions : ~(lease[u] = s /\ lease'[u] # s)
          OBVIOUS
    <3>2. \A s \in Sessions : IsWorked(s, u)' => IsWorked(s, u)
          BY DEF IsWorked
    <3> QED  BY <1>4, <1>6, <2>1, <2>2, <3>1, <3>2, QueueFrame
  <2>3. CASE u = t
    <3>1. p # Sweep /\ page[t] = "open" => \A s \in Live : ~IsWorked(s, t)
          BY DEF IndInv, WorkOK, Live
    <3>2. Handling(p, t)'
          BY <1>1, <1>2, <1>3 DEF Handling
    <3>3. p \in Sessions => session[p] # "new"
          BY <1>1 DEF PassOK
    <3>4. EntryOK(t, e)'
          BY <1>6, <3>1, <3>2, <3>3 DEF EntryOK, IsWorked
    <3>5. ASSUME NEW i \in DOMAIN line[t]
          PROVE  /\ line[t][i].by = e.by => e.op # "act" /\ line[t][i].op = "act"
                 /\ e.op # "act" /\ e.by # Sweep /\ page[t] = "open"
                    => ~(line[t][i].op = "act" /\ line[t][i].by \in Live)
      <4>1. EntryOK(t, line[t][i])
            BY DEF IndInv, QueueOK, Entries
      <4>2. line[t][i].by = p => line[t][i].op = "act"
            BY <1>1, <4>1 DEF EntryOK, Handling
      <4>3. p # Sweep /\ page[t] = "open" => ~(line[t][i].op = "act" /\ line[t][i].by \in Live)
            BY <4>1 DEF EntryOK
      <4> QED  BY <4>2, <4>3
    <3> QED  BY <1>4, <2>1, <2>3, <3>4, <3>5, QueueGrows
  <2> QED  BY <2>2, <2>3
<1>9. ASSUME NEW o \in Sessions PROVE WorkOK(o)'
  <2>1. \A u \in Tabs : IsCreating(o, u) => page'[u] = "absent"
        BY DEF IndInv, WorkOK
  <2> QED  BY <1>6, <2>1, WorkFrame DEF IsCreating
<1>10. ASSUME NEW o \in Passers PROVE PassOK(o)'
  <2>1. CASE o # p
        BY <1>3, <1>6, <2>1, PassFrame DEF Creating
  <2>2. CASE o = p
        BY <1>1, <1>2, <1>3, <1>6, <2>2 DEF PassOK
  <2> QED  BY <2>1, <2>2
<1> QED  BY <1>5, <1>7, <1>8, <1>9, <1>10 DEF IndInv

LEMMA ClosesStep ==
    ASSUME IndInv, NEW p \in Passers, NEW t \in Tabs, Closes(p, t) PROVE IndInv'
<1> DEFINE e == [by |-> p, op |-> "close"]
<1>1. e \in EntryT /\ e.by = p /\ e.op = "close"
      BY DEF EntryT
<1>2. /\ pass[p] \in PassT /\ PassOK(p) /\ Turn(p, t) /\ pass[p].at = "choosing"
      /\ t \in pass[p].live /\ ToClose(p, t) /\ page[t] # "absent"
      BY DEF Closes, Turn, IndInv, Types, PassOK
<1>3. pass' = [pass EXCEPT ![p] = Handles(pass[p], t)]
      BY <1>2 DEF Closes, Handles, IndInv, Types
<1>4. /\ line' = [line EXCEPT ![t] = Append(line[t], e)]
      /\ UNCHANGED <<page, record, durable, session, work, givenUp>>
      /\ lease' = lease \/ (pass[p].kind = "stale" /\ lease' = [lease EXCEPT ![t] = p])
      BY DEF Closes, Enqueue
<1> HIDE DEF e
<1>5. pass[p].kind \in {"finalize", "expire", "abandon", "sweep", "cleanup", "stale", "group", "transfer"}
      /\ (p = Sweep <=> pass[p].kind = "sweep")
  <2>1. pass[p].kind \in Kinds /\ (p = Sweep <=> pass[p].kind = "sweep")
        BY <1>2 DEF PassOK
  <2> QED  BY <2>1, TaskTabsAssumption
<1>6. CASE pass[p].kind \in Ending
  <2>1. ~Leased(p, t)
        BY <1>2, <1>6 DEF ToClose, Ending
  <2>2. lease[t] = None \/ (lease[t] = p /\ ~Busy(p, t))
        BY <1>6, <2>1 DEF Leased, Busy
  <2>3. lease' = lease
    <3>1. pass[p].kind # "stale"
          BY <1>6 DEF Ending
    <3> QED  BY <1>4, <3>1
  <2>4. ~Busy(p, t) => ~IsWorked(p, t) /\ \A i \in DOMAIN line[t] : line[t][i].by # p
        BY DEF Busy, IsWorked
  <2>5. \A s \in Live : lease[t] = s => ~IsWorked(s, t) /\ \A i \in DOMAIN line[t] : line[t][i].by # s
        BY <2>2, <2>4, NoneIsNoRecord DEF Live
  <2> QED  BY <1>1, <1>2, <1>3, <1>4, <2>3, <2>5, JoinsStep DEF IndInv, Types, TabOK
<1>7. CASE pass[p].kind = "sweep"
      BY <1>1, <1>2, <1>3, <1>4, <1>5, <1>7, JoinsStep DEF IndInv, Types, TabOK
<1>8. CASE pass[p].kind \in {"cleanup", "stale"}
  <2>1. ~Leased(p, t) /\ (pass[p].kind = "stale" => p \in Live)
        BY <1>2, <1>8 DEF ToClose, Ending
  <2>2. lease[t] = None
        BY <1>8, <2>1 DEF Leased, Ending
  <2>3. /\ lease' \in [Tabs -> Sessions \union {None}]
        /\ \A u \in Tabs : u # t => lease'[u] = lease[u]
        BY <1>4, <2>1 DEF IndInv, Types, Live
  <2>4. \A u \in Tabs : /\ page[u] = "absent" => lease'[u] = None
                        /\ \A s \in Sessions : lease[u] = s => lease'[u] = s
        BY <1>2, <2>2, <2>3, NoneIsNoRecord DEF IndInv, TabOK
  <2>5. \A s \in Live : lease[t] # s
        BY <2>2, NoneIsNoRecord DEF Live
  <2> QED  BY <1>1, <1>2, <1>3, <1>4, <2>3, <2>4, <2>5, JoinsStep DEF IndInv, Types, TabOK
<1>9. CASE pass[p].kind \in {"group", "transfer"}
      BY <1>2, <1>9 DEF ToClose, Turn, Ending
<1> QED  BY <1>5, <1>6, <1>7, <1>8, <1>9 DEF Ending

LEMMA RegroupsStep ==
    ASSUME IndInv, NEW p \in Passers, NEW t \in Tabs, Regroups(p, t) PROVE IndInv'
<1>1. /\ Turn(p, t) /\ pass[p] \in PassT /\ PassOK(p) /\ pass[p].at = "choosing"
      /\ t \in pass[p].todo /\ UNCHANGED <<page, session, work, givenUp>>
      BY DEF Regroups, Turn, IndInv, Types
<1>2. CASE lease[t] # None \/ p \notin Live
  <2>1. Done(p, t) /\ UNCHANGED <<record, durable, lease, line>>
        BY <1>2 DEF Regroups
  <2>2. Onward
        BY <1>1 DEF Onward
  <2>3. /\ \A o \in Passers : o # p => pass'[o] = pass[o]
        /\ pass' \in [Passers -> PassT] /\ PassOK(p)'
        BY <1>1, <2>1, <2>2, OverOK
  <2>4. Types' /\ \A u \in Tabs : ~Handling(p, u)
        BY <1>1, <2>1, <2>3 DEF IndInv, Types, Handling
  <2> QED  BY <1>1, <2>1, <2>2, <2>3, <2>4, QuietStep DEF IndInv, TabOK
<1>3. CASE lease[t] = None /\ p \in Live
  <2> DEFINE e == [by |-> p, op |-> "group"]  r == OwnedBy(pass[p].seen[t], p)
  <2>1. /\ lease' = [lease EXCEPT ![t] = p] /\ Put(t, r)
        /\ line' = [line EXCEPT ![t] = Append(line[t], e)]
        BY <1>3 DEF Regroups, Enqueue, OwnedBy
  <2>2. pass' = [pass EXCEPT ![p] = Handles(pass[p], t)]
        BY <1>1, <1>3 DEF Regroups, Handles, IndInv, Types
  <2>3. e \in EntryT /\ e.by = p /\ e.op = "group" /\ p \in Sessions
        BY <1>3 DEF EntryT, Live
  <2>4. pass[p].seen[t] \in Record /\ page[t] # "absent"
        BY <1>1 DEF IndInv, Types, PassT, SeenT, PassOK
  <2>5. r \in Record
        BY <2>3, <2>4 DEF OwnedBy, Record
  <2> HIDE DEF e, r
  <2>6. /\ record' \in SeenT /\ durable' \subseteq Tabs
        /\ \A u \in Tabs : /\ record[u] # None => record'[u] # None
                           /\ u \in durable => u \in durable'
                           /\ u \in durable' => record'[u] # None
                           /\ page[u] = "absent" => record'[u] = None
        BY <2>1, <2>4, <2>5, PutRecord DEF IndInv, TabOK
  <2>7. /\ lease' \in [Tabs -> Sessions \union {None}]
        /\ \A u \in Tabs : u # t => lease'[u] = lease[u]
        BY <2>1, <2>3 DEF IndInv, Types
  <2>8. \A u \in Tabs : /\ page[u] = "absent" => lease'[u] = None
                        /\ \A s \in Sessions : lease[u] = s => lease'[u] = s
        BY <1>3, <2>4, <2>7, NoneIsNoRecord DEF IndInv, TabOK
  <2>9. \A s \in Live : lease[t] # s
        BY <1>3, NoneIsNoRecord DEF Live
  <2> QED  BY <1>1, <2>1, <2>2, <2>3, <2>6, <2>7, <2>8, <2>9, JoinsStep
<1> QED  BY <1>2, <1>3

-----------------------------------------------------------------------------
(* The queue of a tab                                                      *)

\* A queue that loses its first entry.
LEMMA QueueShrinks ==
    ASSUME IndInv, Onward, NEW t \in Tabs, line[t] # << >>, line'[t] = Tail(line[t]),
           NEW h \in EntryT, h = line[t][1],
           \A p \in Passers : Handling(p, t) /\ ~(p = h.by /\ h.op # "act") => Handling(p, t)',
           \A s \in Sessions : s \in Live' /\ IsWorked(s, t)'
               => \/ IsWorked(s, t)
                  \/ h.op = "act" /\ h.by = s /\ s \in Live /\ page[t] = "open",
           \A s \in Sessions : lease[t] = s /\ lease'[t] # s
               => \/ page'[t] # "open" \/ s \notin Live'
                  \/ \A i \in DOMAIN line[t] : ~(line[t][i].op = "act" /\ line[t][i].by = s)
    PROVE  QueueOK(t)'
<1> DEFINE q == line[t]
<1>1. /\ q \in Seq(EntryT) /\ 1 \in DOMAIN q /\ DOMAIN q = 1..Len(q) /\ Len(q) \in Nat
      /\ DOMAIN line'[t] = 1..(Len(q) - 1)
      /\ \A i \in DOMAIN line'[t] : i + 1 \in DOMAIN q /\ line'[t][i] = q[i + 1]
      BY Tailed DEF IndInv, Types
<1>2. /\ page[t] # "absent" /\ page'[t] # "absent" /\ (page'[t] = "open" => page[t] = "open")
      BY DEF IndInv, TabOK, Onward, Types
<1>3. \A s \in Sessions : s \in Live' /\ session[s] # "new" => s \in Live
      BY DEF Live, Onward
<1>4. \A s \in Sessions : session[s] = "new" => ~IsWorked(s, t)
      BY DEF IndInv, WorkOK, IsWorked
<1>5. ASSUME NEW i \in DOMAIN q, i # 1, NEW x \in EntryT, x = q[i] PROVE EntryOK(t, x)'
  <2>1. x = q[i]
        BY <1>5
  <2>2. EntryOK(t, x) /\ x.by \in Passers
        BY <2>1 DEF IndInv, QueueOK, Entries, EntryT
  <2>3. x.op # "act" => ~(x.by = h.by /\ h.op # "act")
        BY <1>1, <1>5, <2>1 DEF IndInv, QueueOK, OneTurn
  <2>4. x.op # "act" => Handling(x.by, t)'
        BY <2>2, <2>3 DEF EntryOK
  <2>5. x.op = "act" /\ x.by \in Live' /\ page'[t] = "open" => lease'[t] = x.by
    <3> SUFFICES ASSUME x.op = "act", x.by \in Live', page'[t] = "open" PROVE lease'[t] = x.by
        OBVIOUS
    <3>1. x.by \in Sessions /\ x.by \in Live
          BY <1>3, <2>2 DEF EntryOK
    <3>2. lease[t] = x.by
          BY <1>2, <2>2, <3>1 DEF EntryOK
    <3> QED  BY <2>1, <3>1, <3>2
  <2>6. x.op # "act" /\ x.by # Sweep /\ page'[t] = "open" => \A s \in Live' : ~IsWorked(s, t)'
    <3> SUFFICES ASSUME x.op # "act", x.by # Sweep, page'[t] = "open", NEW s \in Live', IsWorked(s, t)'
                 PROVE  FALSE
        OBVIOUS
    <3>1. s \in Sessions /\ page[t] = "open"
          BY <1>2 DEF Live
    <3>2. ~IsWorked(s, t)
          BY <1>3, <1>4, <2>2, <3>1 DEF EntryOK
    <3>3. h.op = "act" /\ h.by = s /\ s \in Live
          BY <3>1, <3>2
    <3>4. i < 1
          BY <1>1, <2>1, <3>1, <3>3 DEF IndInv, QueueOK, ActsBehind
    <3> QED  BY <1>1, <3>4
  <2>7. x.by \in Sessions => session'[x.by] # "new"
        BY <2>2 DEF EntryOK, Onward
  <2> QED  BY <2>2, <2>4, <2>5, <2>6, <2>7 DEF EntryOK
<1>6. ASSUME NEW i \in DOMAIN line'[t] PROVE EntryOK(t, line[t][i])'
  <2>1. PICK x \in EntryT : x = q[i + 1]
        BY <1>1, Elements
  <2>2. i + 1 \in DOMAIN q /\ i + 1 # 1 /\ x = line'[t][i]
        BY <1>1, <2>1
  <2>3. EntryOK(t, x)'
        BY <1>5, <2>1, <2>2
  <2> QED  BY <2>2, <2>3
<1>7. Entries(t)'
      BY <1>6 DEF Entries
<1>8. OneTurn(t)'
  <2>1. ASSUME NEW i \in DOMAIN line'[t], NEW j \in DOMAIN line'[t],
               line'[t][i].op # "act", line'[t][j].op # "act", line'[t][i].by = line'[t][j].by
        PROVE  i = j
    <3>1. i + 1 = j + 1
          BY <1>1, <2>1 DEF IndInv, QueueOK, OneTurn
    <3> QED  BY <1>1, <3>1
  <2> QED  BY <2>1 DEF OneTurn
<1>9. ASSUME NEW i \in DOMAIN line'[t], NEW j \in DOMAIN line'[t],
             line'[t][i].op # "act", line'[t][i].by # Sweep, page'[t] = "open",
             line'[t][j].op = "act", line'[t][j].by \in Live'
      PROVE  i < j /\ line'[t][i].by # line'[t][j].by
  <2>1. q[j + 1].by \in Live
    <3>1. EntryOK(t, q[j + 1])
          BY <1>1 DEF IndInv, QueueOK, Entries
    <3> QED  BY <1>1, <1>3, <1>9, <3>1 DEF EntryOK
  <2>2. i + 1 < j + 1 /\ q[i + 1].by # q[j + 1].by
        BY <1>1, <1>2, <1>9, <2>1, SMTT(30) DEF IndInv, QueueOK, ActsBehind
  <2> QED  BY <1>1, <2>2
<1>10. ActsBehind(t)'
      BY <1>9 DEF ActsBehind
<1> QED  BY <1>7, <1>8, <1>10 DEF QueueOK

\* A pass whose turn has come goes on to its next candidate.
LEMMA TurnStep ==
    ASSUME IndInv, NEW t \in Tabs, line[t] # << >>, NEW h \in EntryT, h = line[t][1], h.op # "act",
           Served(t), Done(h.by, t), UNCHANGED <<session, work>>,
           page' \in [Tabs -> {"absent", "open", "closed"}], page'[t] \in {page[t], "closed"},
           lease' \in [Tabs -> Sessions \union {None}], lease'[t] \in {lease[t], None},
           lease'[t] # lease[t] => page'[t] # "open" \/ (h.by # Sweep /\ lease[t] = h.by),
           record' \in SeenT, durable' \subseteq Tabs, record'[t] \in {record[t], None},
           t \in durable' => t \in durable /\ record'[t] # None,
           page'[t] = "open" /\ t \notin Excused' /\ record[t] # None /\ t \in durable
               => record'[t] # None /\ t \in durable',
           \A u \in Tabs : u # t => /\ page'[u] = page[u] /\ lease'[u] = lease[u]
                                    /\ record'[u] = record[u] /\ (u \in durable' <=> u \in durable),
           givenUp \subseteq givenUp', givenUp' \subseteq Tabs
    PROVE  IndInv'
<1> DEFINE p == h.by
<1>1. /\ p \in Passers /\ Handling(p, t) /\ EntryOK(t, h) /\ page[t] # "absent"
      BY Tailed DEF IndInv, TabOK, QueueOK, Entries, EntryOK, EntryT, Types
<1>2. Onward
      BY <1>1 DEF Onward, IndInv, Types
<1>3. \A u \in Tabs : u \in Excused => u \in Excused'
      BY DEF Excused
<1>4. /\ \A o \in Passers : o # p => pass'[o] = pass[o]
      /\ pass' \in [Passers -> PassT] /\ PassOK(p)'
      BY <1>1, <1>2, OverOK DEF Handling
<1>5. line'[t] = Tail(line[t]) /\ \A u \in Tabs : u # t => line'[u] = line[u]
      BY DEF Served, IndInv, Types
<1>6. Types'
  <2>1. Tail(line[t]) \in Seq(EntryT)
        BY Tailed DEF IndInv, Types
  <2>2. line' \in [Tabs -> Seq(EntryT)]
        BY <2>1 DEF Served, IndInv, Types
  <2> QED  BY <1>4, <2>2 DEF IndInv, Types
<1>7. \A u \in Tabs : TabOK(u)'
      BY <1>1, <1>3, <1>5 DEF IndInv, TabOK
<1>8. \A s \in Sessions : lease[t] = s /\ lease'[t] # s
         => \/ page'[t] # "open" \/ s \notin Live'
            \/ /\ ~IsWorked(s, t)
               /\ \A i \in DOMAIN line[t] : ~(line[t][i].op = "act" /\ line[t][i].by = s)
  <2> SUFFICES ASSUME NEW s \in Sessions, lease[t] = s, lease'[t] # s, page'[t] = "open", s \in Live'
               PROVE  /\ ~IsWorked(s, t)
                      /\ \A i \in DOMAIN line[t] : ~(line[t][i].op = "act" /\ line[t][i].by = s)
      OBVIOUS
  <2>1. p # Sweep /\ p = s /\ page[t] = "open" /\ s \in Live
        BY DEF IndInv, Types, Live
  <2>2. ~IsWorked(s, t)
        BY <1>1, <2>1 DEF EntryOK
  <2>3. 1 \in DOMAIN line[t]
        BY Tailed DEF IndInv, Types
  <2>4. \A i \in DOMAIN line[t] : ~(line[t][i].op = "act" /\ line[t][i].by = s)
        BY <2>1, <2>3 DEF IndInv, QueueOK, ActsBehind
  <2> QED  BY <2>2, <2>4
<1>9. ASSUME NEW u \in Tabs PROVE QueueOK(u)'
  <2>1. CASE u # t
    <3>1. \A o \in Passers : Handling(o, u) => Handling(o, u)'
          BY <1>1, <1>4, <2>1 DEF Handling
    <3>2. \A s \in Sessions : IsWorked(s, u)' => IsWorked(s, u)
          BY DEF IsWorked
    <3> QED  BY <1>2, <1>5, <2>1, <3>1, <3>2, QueueFrame
  <2>2. CASE u = t
    <3>1. \A o \in Passers : Handling(o, t) /\ ~(o = h.by /\ h.op # "act") => Handling(o, t)'
          BY <1>4 DEF Handling
    <3>2. \A s \in Sessions : IsWorked(s, t)' => IsWorked(s, t)
          BY DEF IsWorked
    <3> QED  BY <1>2, <1>5, <1>8, <2>2, <3>1, <3>2, QueueShrinks
  <2> QED  BY <2>1, <2>2
<1>10. ASSUME NEW o \in Sessions PROVE WorkOK(o)'
  <2>1. \A u \in Tabs : IsCreating(o, u) => page'[u] = "absent"
    <3>1. \A u \in Tabs : IsCreating(o, u) => page[u] = "absent"
          BY DEF IndInv, WorkOK
    <3> QED  BY <1>1, <3>1
  <2>2. \A u \in Tabs : lease[u] = o /\ lease'[u] # o
             => page'[u] # "open" \/ o \notin Live' \/ ~IsWorked(o, u)
        BY <1>8
  <2> QED  BY <1>2, <2>1, <2>2, WorkFrame DEF IsCreating
<1>11. ASSUME NEW o \in Passers PROVE PassOK(o)'
  <2>1. CASE o # p
    <3>1. Creating' = Creating /\ \A u \in Tabs : page'[u] = "open" => page[u] = "open"
          BY DEF Creating
    <3> QED  BY <1>2, <1>4, <2>1, <3>1, PassFrame
  <2> QED  BY <1>4, <2>1
<1> QED  BY <1>6, <1>7, <1>9, <1>10, <1>11 DEF IndInv

LEMMA StepServedStep ==
    ASSUME IndInv, NEW t \in Tabs, StepServed(t) PROVE IndInv'
<1>1. /\ line[t] # << >> /\ line[t][1].op # "close" /\ Served(t)
      /\ UNCHANGED <<page, record, durable, session, givenUp>>
      BY DEF StepServed
<1>2. PICK h \in EntryT : h = line[t][1]
      BY <1>1, Tailed DEF IndInv, Types
<1>3. EntryOK(t, h) /\ h.op \in {"act", "group"} /\ h.by \in Sessions /\ page[t] # "absent"
      BY <1>1, <1>2, Tailed DEF IndInv, Types, TabOK, QueueOK, Entries, EntryOK, EntryT
<1>4. CASE h.op = "group"
  <2>1. Done(h.by, t) /\ lease' = Release(h.by, t) /\ UNCHANGED work
        BY <1>2, <1>4 DEF StepServed
  <2>2. \/ lease' = lease
        \/ lease[t] = h.by /\ lease' = [lease EXCEPT ![t] = None]
        BY <2>1 DEF Release
  <2>3. /\ lease' \in [Tabs -> Sessions \union {None}] /\ lease'[t] \in {lease[t], None}
        /\ \A u \in Tabs : u # t => lease'[u] = lease[u]
        /\ lease'[t] # lease[t] => lease[t] = h.by
        BY <2>2 DEF IndInv, Types
  <2> QED  BY <1>1, <1>2, <1>3, <1>4, <2>1, <2>3, TurnStep, NoneIsNoRecord DEF IndInv, Types, TabOK
<1>5. CASE h.op = "act"
  <2> DEFINE s == h.by
  <2>1. UNCHANGED <<pass, lease>>
        BY <1>2, <1>5 DEF StepServed
  <2>2. \/ work' = work
        \/ /\ work[s] = [tab |-> t, at |-> "bound"] /\ page[t] = "open" /\ lease[t] = s
           /\ work' = [work EXCEPT ![s].at = "worked"]
        BY <1>2, <1>5 DEF StepServed
  <2>3. /\ work' \in [Sessions -> WorkT] /\ \A o \in Sessions : o # s => work'[o] = work[o]
        /\ \/ work'[s] = work[s]
           \/ /\ work[s].tab = t /\ work[s].at = "bound" /\ page[t] = "open" /\ lease[t] = s
              /\ work'[s].tab = t /\ work'[s].at = "worked"
    <3>1. CASE work' = work
          BY <3>1 DEF IndInv, Types
    <3>2. CASE /\ work[s] = [tab |-> t, at |-> "bound"] /\ page[t] = "open" /\ lease[t] = s
               /\ work' = [work EXCEPT ![s].at = "worked"]
      <4> DEFINE y == [tab |-> t, at |-> "worked"]
      <4>1. y \in WorkT /\ y.tab = t /\ y.at = "worked"
            BY DEF WorkT
      <4>2. work' = [work EXCEPT ![s] = y]
        <5>1. [work[s] EXCEPT !.at = "worked"] = y
              BY <3>2
        <5>2. work' = [work EXCEPT ![s] = [work[s] EXCEPT !.at = "worked"]]
              BY <3>2
        <5> QED  BY <5>1, <5>2
      <4> HIDE DEF y
      <4> QED  BY <1>3, <3>2, <4>1, <4>2 DEF IndInv, Types
    <3> QED  BY <2>2, <3>1, <3>2
  <2>4. line'[t] = Tail(line[t]) /\ \A u \in Tabs : u # t => line'[u] = line[u]
        BY <1>1 DEF Served, IndInv, Types
  <2>5. Onward /\ Live' = Live
        BY <1>1 DEF Onward, Live
  <2>6. Types'
    <3>1. Tail(line[t]) \in Seq(EntryT)
          BY <1>1, Tailed DEF IndInv, Types
    <3>2. line' \in [Tabs -> Seq(EntryT)]
          BY <1>1, <3>1 DEF Served, IndInv, Types
    <3> QED  BY <1>1, <2>1, <2>3, <3>2 DEF IndInv, Types
  <2>7. \A u \in Tabs : TabOK(u)'
        BY <1>1, <1>3, <2>1, <2>4 DEF IndInv, TabOK, Excused
  <2>8. ASSUME NEW u \in Tabs PROVE QueueOK(u)'
    <3>1. \A o \in Passers : Handling(o, u) => Handling(o, u)'
          BY <2>1 DEF Handling
    <3>2. CASE u # t
      <4>1. \A o \in Sessions : IsWorked(o, u)' => IsWorked(o, u)
            BY <2>3, <3>2 DEF IsWorked
      <4> QED  BY <2>1, <2>4, <2>5, <3>1, <3>2, <4>1, QueueFrame
    <3>3. CASE u = t
      <4>1. \A o \in Sessions : o \in Live' /\ IsWorked(o, t)'
               => \/ IsWorked(o, t)
                  \/ h.op = "act" /\ h.by = o /\ o \in Live /\ page[t] = "open"
            BY <1>5, <2>3, <2>5 DEF IsWorked
      <4> QED  BY <1>1, <1>2, <2>1, <2>4, <2>5, <3>1, <3>3, <4>1, QueueShrinks
    <3> QED  BY <3>2, <3>3
  <2>9. ASSUME NEW o \in Sessions PROVE WorkOK(o)'
    <3>1. \A x \in Sessions, u \in Tabs : IsCreating(x, u)' => IsCreating(x, u)
          BY <2>3 DEF IsCreating
    <3>2. CASE work'[o] = work[o]
      <4>1. \A u \in Tabs : IsCreating(o, u) => page'[u] = "absent"
            BY <1>1 DEF IndInv, WorkOK
      <4> QED  BY <2>1, <2>5, <3>1, <3>2, <4>1, WorkFrame
    <3>3. CASE work'[o] # work[o]
      <4>1. /\ o = s /\ work[o].tab = t /\ work[o].at = "bound" /\ lease[t] = s
            /\ work'[o].tab = t /\ work'[o].at = "worked" /\ page[t] = "open"
            BY <2>3, <3>3
      <4>2. session[o] # "new"
            BY <4>1 DEF IndInv, WorkOK
      <4> QED  BY <1>1, <2>1, <4>1, <4>2 DEF WorkOK, IsCreating, IsWorked
    <3> QED  BY <3>2, <3>3
  <2>10. ASSUME NEW o \in Passers PROVE PassOK(o)'
    <3>1. Creating' \subseteq Creating
          BY <2>3 DEF Creating
    <3> QED  BY <1>1, <2>1, <2>5, <3>1, PassFrame
  <2> QED  BY <2>6, <2>7, <2>8, <2>9, <2>10 DEF IndInv
<1> QED  BY <1>3, <1>4, <1>5

\* What gives way when the turn of a pass is over, and what does not.
LEMMA Releases ==
    ASSUME IndInv, NEW p \in Passers, NEW t \in Tabs, Handling(p, t), lease' = Release(p, t)
    PROVE  /\ lease' \in [Tabs -> Sessions \union {None}] /\ lease'[t] \in {lease[t], None}
           /\ \A u \in Tabs : u # t => lease'[u] = lease[u]
           /\ lease'[t] # lease[t] => p # Sweep /\ lease[t] = p
<1>1. \/ lease' = lease
      \/ pass[p].kind \in {"stale", "group"} /\ lease[t] = p /\ lease' = [lease EXCEPT ![t] = None]
      BY DEF Release
<1>2. pass[p].kind \in {"stale", "group"} => p # Sweep
      BY DEF IndInv, PassOK, Handling
<1> QED  BY <1>1, <1>2 DEF IndInv, Types

LEMMA TabClosesStep ==
    ASSUME IndInv, NEW t \in Tabs, TabCloses(t) PROVE IndInv'
<1>1. /\ line[t] # << >> /\ line[t][1].op = "close" /\ Served(t) /\ Done(line[t][1].by, t)
      /\ page' = [page EXCEPT ![t] = "closed"] /\ Forget(t)
      /\ lease' = [lease EXCEPT ![t] = None] /\ UNCHANGED <<session, work, givenUp>>
      BY DEF TabCloses
<1>2. PICK h \in EntryT : h = line[t][1]
      BY <1>1, Tailed DEF IndInv, Types
<1>3. /\ page' \in [Tabs -> {"absent", "open", "closed"}] /\ page'[t] = "closed"
      /\ lease' \in [Tabs -> Sessions \union {None}] /\ lease'[t] = None
      /\ \A u \in Tabs : u # t => page'[u] = page[u] /\ lease'[u] = lease[u]
      BY <1>1 DEF IndInv, Types
<1>4. /\ record' \in SeenT /\ durable' \subseteq Tabs /\ record'[t] = None /\ t \notin durable'
      /\ \A u \in Tabs : u # t => record'[u] = record[u] /\ (u \in durable' <=> u \in durable)
      BY <1>1, ForgetRecord
<1>5. /\ h.op # "act" /\ Served(t) /\ Done(h.by, t) /\ UNCHANGED <<session, work>>
      /\ givenUp \subseteq givenUp' /\ givenUp' \subseteq Tabs
      BY <1>1, <1>2 DEF IndInv, Types
<1>6. line[t] # << >>
      BY <1>1
<1> QED  BY <1>2, <1>3, <1>4, <1>5, <1>6, TurnStep

LEMMA CloseRefusedStep ==
    ASSUME IndInv, NEW t \in Tabs, CloseRefused(t) PROVE IndInv'
<1>1. /\ line[t] # << >> /\ line[t][1].op = "close" /\ Served(t) /\ Done(line[t][1].by, t)
      /\ lease' = Release(line[t][1].by, t)
      /\ UNCHANGED <<page, record, durable, session, work, givenUp>>
      BY DEF CloseRefused
<1>2. PICK h \in EntryT : h = line[t][1]
      BY <1>1, Tailed DEF IndInv, Types
<1>3. h.by \in Passers /\ Handling(h.by, t)
      BY <1>1, <1>2, Tailed DEF IndInv, Types, QueueOK, Entries, EntryOK, EntryT
<1>4. /\ lease' \in [Tabs -> Sessions \union {None}] /\ lease'[t] \in {lease[t], None}
      /\ \A u \in Tabs : u # t => lease'[u] = lease[u]
      /\ lease'[t] # lease[t] => h.by # Sweep /\ lease[t] = h.by
      BY <1>1, <1>2, <1>3, Releases
<1> QED  BY <1>1, <1>2, <1>4, TurnStep DEF IndInv, Types, TabOK

LEMMA CloseUnknownStep ==
    ASSUME IndInv, NEW t \in Tabs, CloseUnknown(t) PROVE IndInv'
<1>0. line[t] # << >>
      BY DEF CloseUnknown
<1>1. PICK h \in EntryT : h = line[t][1]
      BY <1>0, Tailed DEF IndInv, Types
<1> DEFINE p == h.by  r == pass[p].seen[t]
<1>2. /\ h.op = "close" /\ Served(t) /\ Done(p, t) /\ lease' = Release(p, t) /\ page[t] = "open"
      /\ page' \in {page, [page EXCEPT ![t] = "closed"]}
      /\ IF LetsGo(p, r) THEN Forget(t) ELSE UNCHANGED <<record, durable>>
      /\ givenUp' = IF Disposable(r) THEN givenUp \union {t} ELSE givenUp
      /\ UNCHANGED <<session, work>>
      BY <1>1 DEF CloseUnknown
<1>3. p \in Passers /\ Handling(p, t)
      BY <1>0, <1>1, <1>2, Tailed DEF IndInv, Types, QueueOK, Entries, EntryOK, EntryT
<1>4. LetsGo(p, r) => Disposable(r)
  <2>1. p = Sweep => Disposable(r)
        BY <1>3 DEF IndInv, PassOK, Handling
  <2> QED  BY <2>1 DEF LetsGo, Disposable
<1>5. /\ lease' \in [Tabs -> Sessions \union {None}] /\ lease'[t] \in {lease[t], None}
      /\ \A u \in Tabs : u # t => lease'[u] = lease[u]
      /\ lease'[t] # lease[t] => p # Sweep /\ lease[t] = p
      BY <1>2, <1>3, Releases
<1>6. /\ page' \in [Tabs -> {"absent", "open", "closed"}] /\ page'[t] \in {page[t], "closed"}
      /\ \A u \in Tabs : u # t => page'[u] = page[u]
      BY <1>2 DEF IndInv, Types
<1>7. /\ record' \in SeenT /\ durable' \subseteq Tabs /\ record'[t] \in {record[t], None}
      /\ t \in durable' => t \in durable /\ record'[t] # None
      /\ ~LetsGo(p, r) => record' = record /\ durable' = durable
      /\ \A u \in Tabs : u # t => record'[u] = record[u] /\ (u \in durable' <=> u \in durable)
  <2>1. CASE LetsGo(p, r)
        BY <1>2, <2>1, ForgetRecord
  <2>2. CASE ~LetsGo(p, r)
        BY <1>2, <2>2 DEF IndInv, Types, TabOK
  <2> QED  BY <2>1, <2>2
<1>8. givenUp \subseteq givenUp' /\ givenUp' \subseteq Tabs /\ (LetsGo(p, r) => t \in Excused')
      BY <1>2, <1>4 DEF IndInv, Types, Excused
<1> HIDE DEF r
<1> QED  BY <1>0, <1>1, <1>2, <1>5, <1>6, <1>7, <1>8, TurnStep

-----------------------------------------------------------------------------
(* The ends of passes and sessions                                         *)

LEMMA Departing ==
    ASSUME Types, NEW S, S \subseteq Sessions
    PROVE  /\ Departed(S) \in [Tabs -> Sessions \union {None}]
           /\ \A t \in Tabs : Departed(S)[t] = IF lease[t] \in S THEN None ELSE lease[t]
BY DEF Departed, Types

LEMMA Detaching ==
    ASSUME Types, NEW scope
    PROVE  /\ Detached(scope) \in SeenT
           /\ \A t \in Tabs : Detached(scope)[t] = None <=> record[t] = None
<1>1. ASSUME NEW t \in Tabs, record[t] # None
      PROVE  [record[t] EXCEPT !.keep = "ledger_only"] \in Record
  <2>1. record[t] \in Record
        BY <1>1 DEF Types, SeenT
  <2> QED  BY <2>1 DEF Record, Policies
<1>2. \A t \in Tabs : /\ Detached(scope)[t] \in Record \union {None}
                      /\ Detached(scope)[t] = None <=> record[t] = None
  <2> SUFFICES ASSUME NEW t \in Tabs
               PROVE  /\ Detached(scope)[t] \in Record \union {None}
                      /\ Detached(scope)[t] = None <=> record[t] = None
      OBVIOUS
  <2>1. \/ Detached(scope)[t] = record[t]
        \/ record[t] # None /\ Detached(scope)[t] = [record[t] EXCEPT !.keep = "ledger_only"]
        BY DEF Detached
  <2> QED  BY <1>1, <2>1, NoneIsNoRecord DEF Types, SeenT
<1>3. Detached(scope) \in [Tabs -> Record \union {None}]
      BY <1>2 DEF Detached
<1> QED  BY <1>2, <1>3 DEF SeenT

\* The session of p goes, or nothing but the pass of p ends.
LEMMA PassEndsStep ==
    ASSUME IndInv, NEW p \in Passers, PassEnds(p) PROVE IndInv'
<1>1. /\ pass[p].at \in {"choosing", "done"} /\ pass' = [pass EXCEPT ![p] = NoPass]
      /\ UNCHANGED <<page, durable, work, line, givenUp>>
      BY DEF PassEnds
<1>2. /\ pass'[p] = NoPass /\ \A o \in Passers : o # p => pass'[o] = pass[o]
      /\ pass' \in [Passers -> PassT] /\ PassOK(p)'
  <2>1. pass'[p] = NoPass
        BY <1>1 DEF IndInv, Types
  <2> QED  BY <1>1, <2>1, NoPassFields DEF IndInv, Types, PassOK
<1>3. \A t \in Tabs : ~Handling(p, t)
      BY <1>1 DEF Handling
<1>4. CASE pass[p].kind \in Ending /\ p \in Live
  <2>1. /\ session' = [session EXCEPT ![p] = "gone"] /\ lease' = Departed({p})
        /\ \/ record' = record
           \/ record' = Detached(Owned({p}))
        BY <1>4 DEF PassEnds
  <2>2. p \in Sessions /\ {p} \subseteq Sessions
        BY <1>4 DEF Live
  <2>3. Types' /\ \A t \in Tabs : record'[t] = None <=> record[t] = None
        BY <1>1, <1>2, <2>1, <2>2, Departing, Detaching DEF IndInv, Types
  <2>4. \A t \in Tabs : lease'[t] = IF lease[t] = p THEN None ELSE lease[t]
        BY <2>1, <2>2, Departing DEF IndInv
  <2>5. Onward /\ p \notin Live' /\ Excused' = Excused
        BY <1>1, <2>1, <2>2 DEF Onward, IndInv, Types, Live, Excused
  <2> QED  BY <1>1, <1>2, <1>3, <2>3, <2>4, <2>5, QuietStep DEF IndInv, TabOK
<1>5. CASE ~(pass[p].kind \in Ending /\ p \in Live)
  <2>1. UNCHANGED <<record, lease, session>>
        BY <1>5 DEF PassEnds
  <2>2. NoPass \in PassT
        BY NoPassFields
  <2> QED  BY <1>1, <1>2, <1>3, <2>1, <2>2, PassStep
<1> QED  BY <1>4, <1>5

LEMMA TransfersStep ==
    ASSUME IndInv, NEW p \in Passers, Transfers(p) PROVE IndInv'
<1> DEFINE ok == \A t \in pass[p].todo : /\ record[t] # None /\ t \in durable
                                         /\ record[t].task = pass[p].seen[t].task
                                         /\ record[t].keep # "cleanup" /\ ~record[t].old
<1>1. /\ pass[p].at = "choosing" /\ pass[p].kind = "transfer" /\ pass' = [pass EXCEPT ![p] = NoPass]
      /\ record' = [t \in Tabs |-> IF ok /\ t \in pass[p].todo
                                   THEN Handed(record[t], TaskOf[p], p) ELSE record[t]]
      /\ UNCHANGED <<page, durable, lease, session, work, line, givenUp>>
      BY DEF Transfers, Handed
<1>2. ok => \A t \in pass[p].todo : record[t] # None
      OBVIOUS
<1> HIDE DEF ok
<1>3. p \in Sessions /\ TaskOf[p] \in Tasks
  <2>1. p # Sweep
        BY <1>1 DEF IndInv, PassOK
  <2> QED  BY <2>1, TaskTabsAssumption DEF Passers
<1>4. \A t \in Tabs : record[t] # None => Handed(record[t], TaskOf[p], p) \in Record
      BY <1>3 DEF IndInv, Types, SeenT, Handed, Record
<1>5. record' \in SeenT /\ \A t \in Tabs : record'[t] = None <=> record[t] = None
  <2>1. \A t \in Tabs : /\ record'[t] \in Record \union {None}
                        /\ record'[t] = None <=> record[t] = None
        BY <1>1, <1>2, <1>4, NoneIsNoRecord DEF IndInv, Types, SeenT
  <2>2. record' \in [Tabs -> Record \union {None}]
        BY <1>1, <2>1
  <2> QED  BY <2>1, <2>2 DEF SeenT
<1>6. /\ pass'[p] = NoPass /\ \A o \in Passers : o # p => pass'[o] = pass[o]
      /\ pass' \in [Passers -> PassT] /\ PassOK(p)'
  <2>1. pass'[p] = NoPass
        BY <1>1 DEF IndInv, Types
  <2> QED  BY <1>1, <2>1, NoPassFields DEF IndInv, Types, PassOK
<1>7. Types' /\ Onward /\ Excused' = Excused
      BY <1>1, <1>5, <1>6 DEF IndInv, Types, Onward, Excused
<1>8. \A t \in Tabs : ~Handling(p, t)
      BY <1>1 DEF Handling
<1> QED  BY <1>1, <1>5, <1>6, <1>7, <1>8, QuietStep DEF IndInv, TabOK

LEMMA ClientLostStep ==
    ASSUME IndInv, NEW s \in Sessions, ClientLost(s) PROVE IndInv'
<1>1. /\ s \in Live /\ session' = [session EXCEPT ![s] = "gone"] /\ lease' = Departed({s})
      /\ record' = Detached(Owned({s})) /\ UNCHANGED <<page, durable, work, pass, line>>
      /\ givenUp' = IF work[s].at = "creating" THEN givenUp \union {work[s].tab} ELSE givenUp
      BY DEF ClientLost
<1>2. givenUp \subseteq givenUp' /\ givenUp' \subseteq Tabs
      BY <1>1 DEF IndInv, Types, WorkOK
<1>3. Types' /\ \A t \in Tabs : record'[t] = None <=> record[t] = None
      BY <1>1, <1>2, Departing, Detaching DEF IndInv, Types
<1>4. \A t \in Tabs : lease'[t] = IF lease[t] = s THEN None ELSE lease[t]
      BY <1>1, Departing DEF IndInv
<1>5. Onward /\ s \notin Live'
      BY <1>1, <1>2 DEF Onward, IndInv, Types, Live
<1>6. s \in Passers /\ PassOK(s)'
      BY <1>1, <1>5, PassFrame DEF Passers, Creating
<1>7. \A t \in Tabs : Handling(s, t) => Handling(s, t)'
      BY <1>1 DEF Handling
<1> QED  BY <1>1, <1>3, <1>4, <1>5, <1>6, <1>7, QuietStep DEF IndInv, TabOK

\* All sessions, queues and passes end at once; Chrome may still do what it had been told.
LEMMA CutStep ==
    ASSUME IndInv, NEW D, D \subseteq Tabs, Cut(D),
           record' \in SeenT, durable' \subseteq Tabs,
           \A t \in Tabs : /\ record[t] = None => record'[t] = None
                           /\ t \in durable' => record'[t] # None
                           /\ t \in durable /\ t \notin D => t \in durable',
           work' \in [Sessions -> WorkT],
           \A s \in Sessions : work'[s] = NoWork \/ (work'[s] = work[s] /\ work[s].at # "creating")
    PROVE  IndInv'
<1>1. /\ session' = [s \in Sessions |-> IF session[s] = "live" THEN "gone" ELSE session[s]]
      /\ lease' = [t \in Tabs |-> None] /\ line' = [t \in Tabs |-> << >>]
      /\ pass' = [p \in Passers |-> NoPass]
      /\ givenUp' = (givenUp \union Creating) \union D
      BY DEF Cut
<1>2. PICK shut \in SUBSET Flying, opened \in SUBSET Creating :
          page' = [t \in Tabs |-> IF t \in shut THEN "closed" ELSE
                                  IF t \in opened THEN "open" ELSE page[t]]
      BY DEF Cut
<1>3. \A t \in shut : page[t] = "open"
      BY DEF Flying
<1>4. Creating \subseteq Tabs /\ \A t \in Creating : page[t] = "absent"
  <2> SUFFICES ASSUME NEW t \in Creating PROVE t \in Tabs /\ page[t] = "absent"
      OBVIOUS
  <2>1. PICK s \in Sessions : IsCreating(s, t)
        BY DEF Creating, IsCreating
  <2> QED  BY <2>1 DEF IndInv, WorkOK, IsCreating
<1>5. << >> \in Seq(EntryT) /\ DOMAIN << >> = {}
      OBVIOUS
<1>6. page' \in [Tabs -> {"absent", "open", "closed"}]
      BY <1>2 DEF IndInv, Types
<1>7. Types'
      BY <1>1, <1>4, <1>5, <1>6, NoPassFields DEF IndInv, Types
<1>8. \A t \in Tabs : /\ page[t] # "absent" => page'[t] # "absent"
                      /\ page'[t] = "open" => page[t] = "open" \/ t \in Creating
                      /\ t \in Excused \union Creating \union D => t \in Excused'
      BY <1>1, <1>2, <1>3, <1>4 DEF IndInv, Types, Excused
<1>9. ASSUME NEW t \in Tabs PROVE TabOK(t)' /\ QueueOK(t)'
  <2>1. TabOK(t)'
        BY <1>1, <1>8 DEF IndInv, TabOK
  <2>2. line'[t] = << >>
        BY <1>1
  <2>3. QueueOK(t)'
        BY <1>5, <2>2 DEF QueueOK, Entries, OneTurn, ActsBehind
  <2> QED  BY <2>1, <2>3
<1>10. ASSUME NEW s \in Sessions PROVE WorkOK(s)'
  <2>1. Live' = {}
        BY <1>1 DEF Live, IndInv, Types
  <2>2. work'[s] = NoWork \/ (work'[s] = work[s] /\ work[s].at # "creating")
        OBVIOUS
  <2>3. session'[s] = "new" => session[s] = "new"
        BY <1>1
  <2>4. CASE work'[s] = NoWork
        BY <2>1, <2>4, NoWorkFields, NoneIsNoRecord DEF WorkOK, IsCreating, IsWorked
  <2>5. CASE work'[s] = work[s] /\ work[s].at # "creating"
        BY <1>8, <2>1, <2>3, <2>5 DEF WorkOK, IsCreating, IsWorked, IndInv
  <2> QED  BY <2>2, <2>4, <2>5
<1>11. ASSUME NEW p \in Passers PROVE PassOK(p)'
      BY <1>1, NoPassFields DEF PassOK
<1> QED  BY <1>7, <1>9, <1>10, <1>11 DEF IndInv

LEMMA Interruptions ==
    ASSUME IndInv
    PROVE  /\ Interrupted \in [Sessions -> WorkT]
           /\ \A s \in Sessions : \/ Interrupted[s] = NoWork
                                  \/ Interrupted[s] = work[s] /\ work[s].at # "creating"
BY NoWorkFields DEF Interrupted, IndInv, Types

LEMMA ExtensionLostStep == ASSUME IndInv, ExtensionLost PROVE IndInv'
<1>1. /\ Cut(Dropped) /\ durable' = durable \ Dropped /\ work' = Interrupted
      /\ record' = [t \in Tabs |-> IF t \in Dropped THEN None ELSE Detached(Everything)[t]]
      BY DEF ExtensionLost
<1>2. Dropped \subseteq Tabs
      BY DEF Dropped, Flying
<1>3. /\ Detached(Everything) \in SeenT
      /\ \A t \in Tabs : Detached(Everything)[t] = None <=> record[t] = None
      BY Detaching DEF IndInv
<1>4. \A t \in Tabs : record'[t] = IF t \in Dropped THEN None ELSE Detached(Everything)[t]
      BY <1>1
<1>5. record' \in SeenT
      BY <1>1, <1>3 DEF SeenT
<1> QED  BY <1>1, <1>2, <1>3, <1>4, <1>5, Interruptions, CutStep DEF IndInv, Types, TabOK

LEMMA NewGenerationStep == ASSUME IndInv, NewGeneration PROVE IndInv'
<1>1. /\ Cut(Dropped) /\ durable' = durable \ Dropped /\ work' = Interrupted
      /\ record' = [t \in Tabs |-> IF t \in Dropped \/ record[t] = None THEN None
                                   ELSE Aged(record[t])]
      BY DEF NewGeneration, Aged
<1>2. Dropped \subseteq Tabs
      BY DEF Dropped, Flying
<1>3. \A t \in Tabs : record[t] # None => Aged(record[t]) \in Record
      BY DEF IndInv, Types, SeenT, Aged, Record
<1>4. \A t \in Tabs : record'[t] = IF t \in Dropped \/ record[t] = None THEN None
                                   ELSE Aged(record[t])
      BY <1>1
<1>5. record' \in SeenT
      BY <1>1, <1>3 DEF SeenT
<1>6. \A t \in Tabs : record'[t] = None <=> t \in Dropped \/ record[t] = None
      BY <1>3, <1>4, NoneIsNoRecord
<1>7. \A t \in Tabs : /\ record[t] = None => record'[t] = None
                      /\ t \in durable' => record'[t] # None
                      /\ t \in durable /\ t \notin Dropped => t \in durable'
      BY <1>1, <1>6 DEF IndInv, TabOK
<1>8. durable' \subseteq Tabs
      BY <1>1 DEF IndInv, Types
<1> QED  BY <1>1, <1>2, <1>5, <1>7, <1>8, Interruptions, CutStep

LEMMA RestartStep == ASSUME IndInv, Restart PROVE IndInv'
<1>1. /\ Cut({}) /\ durable' = durable /\ work' = [s \in Sessions |-> NoWork]
      /\ record' = [t \in Tabs |-> IF t \in durable THEN Detached(Everything)[t] ELSE None]
      BY DEF Restart
<1>2. /\ Detached(Everything) \in SeenT
      /\ \A t \in Tabs : Detached(Everything)[t] = None <=> record[t] = None
      BY Detaching DEF IndInv
<1>3. record' \in SeenT
      BY <1>1, <1>2 DEF SeenT
<1>4. work' \in [Sessions -> WorkT]
      BY <1>1, NoWorkFields
<1> QED  BY <1>1, <1>2, <1>3, <1>4, CutStep DEF IndInv, Types, TabOK

-----------------------------------------------------------------------------
(* The theorems                                                            *)

LEMMA NextInv == IndInv /\ [Next]_vars => IndInv'
<1> SUFFICES ASSUME IndInv, [Next]_vars PROVE IndInv'
    OBVIOUS
<1>1. ASSUME NEW s \in Sessions, Working(s) PROVE IndInv'
  <2>1. ASSUME NEW t \in Tabs, \/ Begins(s, t) \/ Asks(s, t) \/ Reserves(s, t) \/ GivesBack(s, t)
                               \/ Claims(s, t) \/ Purges(s, t)
        PROVE  IndInv'
        BY <2>1, BeginsStep, AsksStep, ReservesStep, GivesBackStep, ClaimsStep, PurgesStep
  <2>2. ASSUME NEW t \in Tabs, NEW u \in Tabs, PopupOpens(s, t, u) PROVE IndInv'
        BY <2>2, PopupOpensStep
  <2>3. ASSUME NEW out \in Endings, Ends(s, out) PROVE IndInv'
        BY <2>3, EndsStep
  <2>4. CASE SessionOpens(s) \/ Created(s) \/ Acts(s) \/ ClientLost(s)
        BY <2>4, SessionOpensStep, CreatedStep, ActsStep, ClientLostStep
  <2> QED  BY <1>1, <2>1, <2>2, <2>3, <2>4 DEF Working
<1>2. ASSUME NEW p \in Passers, Passing(p) PROVE IndInv'
  <2>1. ASSUME NEW kind \in Kinds, PassStarts(p, kind) PROVE IndInv'
        BY <2>1, PassStartsStep
  <2>2. ASSUME NEW t \in Tabs, Vanished(p, t) \/ Closes(p, t) \/ Skips(p, t) \/ Regroups(p, t)
        PROVE  IndInv'
        BY <2>2, VanishedStep, ClosesStep, SkipsStep, RegroupsStep
  <2>3. CASE Lists(p) \/ Reads(p) \/ PassEnds(p) \/ Transfers(p)
        BY <2>3, ListsStep, ReadsStep, PassEndsStep, TransfersStep
  <2> QED  BY <1>2, <2>1, <2>2, <2>3 DEF Passing, GoesOn
<1>3. ASSUME NEW t \in Tabs, Serving(t) \/ UserCloses(t) \/ Terminalizes(t) \/ Collects(t) \/ KeyAges(t)
      PROVE  IndInv'
  <2>1. CASE Serving(t)
        BY <2>1, StepServedStep, TabClosesStep, CloseRefusedStep, CloseUnknownStep, RemovedStep DEF Serving
  <2> QED  BY <1>3, <2>1, UserClosesStep, TerminalizesStep, CollectsStep, KeyAgesStep
<1>4. CASE ExtensionLost \/ NewGeneration \/ Restart
      BY <1>4, ExtensionLostStep, NewGenerationStep, RestartStep
<1>5. CASE UNCHANGED vars
  <2>1. Types' /\ Onward
        BY <1>5 DEF vars, IndInv, Types, Onward
  <2> QED  BY <1>5, LeaseStep DEF vars, IndInv, Types, TabOK
<1> QED  BY <1>1, <1>2, <1>3, <1>4, <1>5 DEF Next

LEMMA Invariant == Spec => []IndInv
BY InitInv, NextInv, PTL DEF Spec

\* A page that the companion opened is on record as long as it is open.
THEOREM OpenPagesAreRecorded == Spec => []NothingUnrecorded
<1>1. IndInv => NothingUnrecorded
      BY DEF IndInv, TabOK, Excused, NothingUnrecorded, Open
<1> QED  BY <1>1, Invariant, PTL

\* Only a close that Chrome has been given shuts a page while a queue goes on.
LEMMA OnlyClosesClose ==
    ASSUME IndInv, Next, NEW t \in Tabs, page[t] = "open", page'[t] = "closed", line[t] # << >>,
           line' = [line EXCEPT ![t] = Tail(@)]
    PROVE  line[t][1].op = "close"
<1>1. page' # page /\ line' # line
  <2>1. line'[t] = Tail(line[t]) /\ line[t] \in Seq(EntryT)
        BY DEF IndInv, Types
  <2>2. DOMAIN line'[t] # DOMAIN line[t]
    <3>1. /\ DOMAIN line'[t] = 1..(Len(line[t]) - 1) /\ DOMAIN line[t] = 1..Len(line[t])
          /\ Len(line[t]) \in Nat /\ 1 \in DOMAIN line[t]
          BY <2>1, Tailed
    <3>2. Len(line[t]) \in DOMAIN line[t] /\ Len(line[t]) \notin DOMAIN line'[t]
          BY <3>1
    <3> QED  BY <3>2
  <2> QED  BY <2>2
<1>2. ~\E s \in Sessions : Working(s)
  <2>1. SUFFICES ASSUME NEW s \in Sessions, Working(s) PROVE page' = page \/ line' = line
        BY <1>1
  <2>2. ASSUME NEW u \in Tabs, \/ Begins(s, u) \/ Asks(s, u) \/ Reserves(s, u) \/ GivesBack(s, u)
                               \/ Claims(s, u) \/ Purges(s, u)
        PROVE  line' = line
        BY <2>2 DEF Begins, Asks, Reserves, GivesBack, Claims, Purges
  <2>3. ASSUME NEW u \in Tabs, NEW v \in Tabs, PopupOpens(s, u, v) PROVE line' = line
        BY <2>3 DEF PopupOpens
  <2>4. ASSUME NEW out \in Endings, Ends(s, out) PROVE line' = line
        BY <2>4 DEF Ends
  <2>5. CASE SessionOpens(s) \/ Created(s) \/ Acts(s) \/ ClientLost(s)
        BY <2>5 DEF SessionOpens, Created, Acts, ClientLost
  <2> QED  BY <2>1, <2>2, <2>3, <2>4, <2>5 DEF Working
<1>3. ~\E p \in Passers : Passing(p)
  <2>1. SUFFICES ASSUME NEW p \in Passers, Passing(p) PROVE page' = page
        BY <1>1
  <2>2. ASSUME NEW kind \in Kinds, PassStarts(p, kind) PROVE page' = page
        BY <2>2 DEF PassStarts
  <2>3. ASSUME NEW u \in Tabs, Vanished(p, u) \/ Closes(p, u) \/ Skips(p, u) \/ Regroups(p, u)
        PROVE  page' = page
        BY <2>3 DEF Vanished, Closes, Skips, Regroups
  <2>4. CASE Lists(p) \/ Reads(p) \/ PassEnds(p) \/ Transfers(p)
        BY <2>4 DEF Lists, Reads, PassEnds, Transfers
  <2> QED  BY <2>1, <2>2, <2>3, <2>4 DEF Passing, GoesOn
<1>4. CASE \E u \in Tabs : Serving(u) \/ UserCloses(u) \/ Terminalizes(u) \/ Collects(u) \/ KeyAges(u)
  <2>1. PICK u \in Tabs : Serving(u) \/ UserCloses(u) \/ Terminalizes(u) \/ Collects(u) \/ KeyAges(u)
        BY <1>4
  <2>2. ~(UserCloses(u) \/ Terminalizes(u) \/ Collects(u) \/ KeyAges(u))
        BY <1>1 DEF UserCloses, Terminalizes, Collects, KeyAges
  <2>3. ~(StepServed(u) \/ CloseRefused(u) \/ Removed(u))
        BY <1>1 DEF StepServed, CloseRefused, Removed
  <2>4. TabCloses(u) \/ CloseUnknown(u)
        BY <2>1, <2>2, <2>3 DEF Serving
  <2>5. page' = [page EXCEPT ![u] = "closed"] /\ line[u][1].op = "close"
        BY <1>1, <2>4 DEF TabCloses, CloseUnknown
  <2>6. u = t
        BY <2>5 DEF IndInv, Types
  <2> QED  BY <2>5, <2>6
<1>5. CASE ExtensionLost \/ NewGeneration \/ Restart
  <2>1. PICK D : Cut(D)
        BY <1>5 DEF ExtensionLost, NewGeneration, Restart
  <2>2. PICK shut \in SUBSET Flying, opened \in SUBSET Creating :
          page' = [u \in Tabs |-> IF u \in shut THEN "closed" ELSE
                                  IF u \in opened THEN "open" ELSE page[u]]
        BY <2>1 DEF Cut
  <2>3. t \in shut
        BY <2>2
  <2> QED  BY <2>3 DEF Flying
<1> QED  BY <1>2, <1>3, <1>4, <1>5 DEF Next

\* No pass that a session asked for closes a page under a transaction that has done a step on it.
THEOREM PagesOfTransactionsStay == Spec => NoCloseUnderTransaction
<1> DEFINE A == \A t \in Tabs :
          (page[t] = "open" /\ page'[t] = "closed" /\ line[t] # << >> /\ line[t][1].by # Sweep
             /\ line' = [line EXCEPT ![t] = Tail(@)])
          => \A s \in Live : work[s] # [tab |-> t, at |-> "worked"] \/ lease[t] # s
<1>1. ASSUME IndInv, [Next]_vars PROVE [A]_vars
  <2>1. SUFFICES ASSUME Next PROVE A
        BY <1>1
  <2>2. SUFFICES ASSUME NEW t \in Tabs, page[t] = "open", page'[t] = "closed", line[t] # << >>,
                        line[t][1].by # Sweep, line' = [line EXCEPT ![t] = Tail(@)],
                        NEW s \in Live
                 PROVE  work[s] # [tab |-> t, at |-> "worked"]
        OBVIOUS
  <2>3. line[t][1].op = "close"
        BY <1>1, <2>1, <2>2, OnlyClosesClose
  <2>4. EntryOK(t, line[t][1])
        BY <1>1, <2>2, Tailed DEF IndInv, QueueOK, Entries, Types
  <2>5. ~IsWorked(s, t)
        BY <2>2, <2>3, <2>4 DEF EntryOK
  <2> QED  BY <2>5 DEF IsWorked
<1> QED  BY <1>1, Invariant, PTL DEF Spec, NoCloseUnderTransaction
=============================================================================
