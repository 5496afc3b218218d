------------------------------ MODULE McpServer -----------------------------
(***************************************************************************)
(* The tools of one MCP process and its registry of which task owns which  *)
(* session and lease (src/src/mcp/server.mjs, src/src/mcp/task-context.mjs)*)
(* over the broker's client. All tasks of the process share one connection,*)
(* so the broker cannot tell them apart: the registry does.                *)
(***************************************************************************)
EXTENDS BrokerClient

CONSTANTS
    Tasks, NoTask,         \* task identities the host names; none
    Sessions, NoSession,   \* session ids the broker can mint; none
    Leases, NoLease,       \* lease ids the broker can mint; none
    MaxTools               \* bound: tool calls made in a behaviour

ASSUME ServerAssumption ==
    /\ NoTask \notin Tasks /\ NoSession \notin Sessions /\ NoLease \notin Leases
    /\ {"none", "ok", "denied"} \intersect Sessions = {}

VARIABLES
    bound,     \* McpTaskBindingRegistry: #sessions
    leaseOf,   \* McpTaskBindingRegistry: #leases
    opened,    \* BrokerClient.openedSessions: the task of each session
    tool,      \* the tool call each client call serves
    reply,     \* what the broker answers to it
    owner,     \* the broker's sessions: task and connection
    held,      \* the broker's leases: the session that holds each
    made       \* tool calls made so far

serverVars == <<bound, leaseOf, opened, tool, made>>
brokerVars == <<reply, owner, held>>
vars == <<clientVars, serverVars, brokerVars>>

ToolNames == {"none", "returned", "status", "open", "close", "reserve", "release", "act", "resume"}

\* The broker request a tool call is at.
Steps == {"status", "open", "close", "reserve", "release", "act", "prepare"}

Tool == [name : ToolNames, step : Steps, task : Tasks \union {NoTask},
         session : Sessions \union {NoSession}, lease : Leases \union {NoLease},
         recovery : {"none", "binding", "connection"}]

NoTool == [name |-> "none", step |-> "status", task |-> NoTask, session |-> NoSession,
           lease |-> NoLease, recovery |-> "none"]

NoOwner == [task |-> NoTask, on |-> 0]
Unbound == [session |-> NoSession, task |-> NoTask]

Reply == {"none", "ok", "denied"} \union Sessions \union Leases

TypeOK ==
    /\ ClientTypeOK
    /\ bound \in [Sessions -> Tasks \union {NoTask}]
    /\ leaseOf \in [Leases -> [session : Sessions, task : Tasks] \union {Unbound}]
    /\ opened \in [Sessions -> Tasks \union {NoTask}]
    /\ tool \in [Calls -> Tool]
    /\ reply \in [Calls -> Reply]
    /\ owner \in [Sessions -> [task : Tasks, on : Conns] \union {NoOwner}]
    /\ held \in [Leases -> Sessions \union {NoSession}]
    /\ made \in 0 .. MaxTools

Init ==
    /\ ClientInit
    /\ bound = [s \in Sessions |-> NoTask]
    /\ leaseOf = [l \in Leases |-> Unbound]
    /\ opened = [s \in Sessions |-> NoTask]
    /\ tool = [c \in Calls |-> NoTool]
    /\ reply = [c \in Calls |-> "none"]
    /\ owner = [s \in Sessions |-> NoOwner]
    /\ held = [l \in Leases |-> NoSession]
    /\ made = 0

-----------------------------------------------------------------------------
(* The registry.                                                           *)

\* Mutant: a session bound to no task serves any of them.
OwnsAny(t, s) == s \in Sessions /\ bound[s] \in {t, NoTask}

\* assertSession
Owns(t, s) == s \in Sessions /\ bound[s] = t

\* assertLease
OwnsLease(t, s, l) == Owns(t, s) /\ l \in Leases /\ leaseOf[l] = [session |-> s, task |-> t]

\* bindSession and forgetSession, which also drops the session's leases.
Bind(reg, s, t) == [reg EXCEPT ![s] = t]
Forget(reg, s) == [reg EXCEPT ![s] = NoTask]
ForgetLeases(reg, s) == [l \in Leases |-> IF reg[l].session = s THEN Unbound ELSE reg[l]]

-----------------------------------------------------------------------------
(* A tool call: its guard, then its first request.                         *)

MethodOf(step) == CASE step = "status" -> "read"
                    [] step = "open" -> "open"
                    [] step \in {"close", "release"} -> "release"
                    [] OTHER -> "other"

Ask(c, t) ==
    /\ Request(c, MethodOf(t.step))
    /\ tool' = [tool EXCEPT ![c] = t]
    /\ reply' = [reply EXCEPT ![c] = "none"]

Begin(c, name, task, s, l, step, recovery) ==
    /\ tool[c].name = "none"
    /\ ~closed
    /\ made < MaxTools
    /\ made' = made + 1
    /\ Ask(c, [name |-> name, step |-> step, task |-> task, session |-> s, lease |-> l,
               recovery |-> recovery])
    /\ UNCHANGED <<bound, leaseOf, opened, owner, held>>

\* companion_status, companion_capabilities
Status(c) == Begin(c, "status", NoTask, NoSession, NoLease, "status", "none")

OpenSession(c, t) == Begin(c, "open", t, NoSession, NoLease, "open", "none")

CloseSession(c, t, s) == Owns(t, s) /\ Begin(c, "close", t, s, NoLease, "close", "none")

ReserveTab(c, t, s) == Owns(t, s) /\ Begin(c, "reserve", t, s, NoLease, "reserve", "none")

\* The session is the one the registry holds for the lease (sessionForLease).
ReleaseTab(c, t, l) ==
    /\ OwnsLease(t, leaseOf[l].session, l)
    /\ Begin(c, "release", t, leaseOf[l].session, l, "release", "none")

\* Every tool that acts for a session, and every tool that acts on its leased tab.
SessionTool(c, t, s) == Owns(t, s) /\ Begin(c, "act", t, s, NoLease, "act", "none")

LeaseTool(c, t, s, l) == OwnsLease(t, s, l) /\ SessionTool(c, t, s)

\* companion_prepare_resume is given any session id. Bound to the task, it is asked
\* about at once; bound to none (a new process), a session is found for the task first.
PrepareResume(c, t, s) ==
    \/ Owns(t, s) /\ Begin(c, "resume", t, s, NoLease, "prepare", "none")
    \/ bound[s] = NoTask /\ Begin(c, "resume", t, s, NoLease, "status", "binding")

-----------------------------------------------------------------------------
(* The broker (external here; SessionLease.tla): a request for a session   *)
(* is served only on the connection that owns it.                          *)

\* Ids are never given twice: one can stand for another session once nothing names it.
Unused == {s \in Sessions : /\ owner[s] = NoOwner /\ bound[s] = NoTask /\ opened[s] = NoTask
                           /\ \A c \in Calls : tool[c].session # s /\ reply[c] # s}

UnusedLeases == {l \in Leases : /\ held[l] = NoSession /\ leaseOf[l] = Unbound
                                /\ \A c \in Calls : tool[c].lease # l /\ reply[c] # l}

\* #openSession: the connection's own session of the task, else one without leases of
\* another connection, else a new one; none while another owner still holds leases.
OpenFor(c, t, n) ==
    LET its == {s \in Sessions : owner[s].task = t}
        own == {s \in its : owner[s].on = n}
        free == {s \in its : \A l \in Leases : held[l] # s}
        pick == IF own # {} THEN own ELSE IF free # {} THEN free
                ELSE IF its # {} THEN {} ELSE Unused
    IN \/ \E s \in pick :
            /\ owner' = [owner EXCEPT ![s] = [task |-> t, on |-> n]]
            /\ reply' = [reply EXCEPT ![c] = s]
       \/ /\ pick = {}
          /\ reply' = [reply EXCEPT ![c] = "denied"]
          /\ UNCHANGED owner

Serve(c, n) ==
    LET t == tool[c]
        step == IF call[c].probing THEN "status" ELSE t.step
    IN /\ Execute(c, n)
       /\ UNCHANGED serverVars
       /\ \/ /\ step = "status"
             /\ reply' = [reply EXCEPT ![c] = "ok"]
             /\ UNCHANGED <<owner, held>>
          \/ /\ step = "open"
             /\ OpenFor(c, t.task, n)
             /\ UNCHANGED held
          \/ /\ step \notin {"status", "open"}
             /\ owner[t.session].on # n
             /\ reply' = [reply EXCEPT ![c] = "denied"]
             /\ UNCHANGED <<owner, held>>
          \/ /\ step \notin {"status", "open"}
             /\ owner[t.session].on = n
             /\ \/ /\ step = "close"
                   /\ owner' = [owner EXCEPT ![t.session] = NoOwner]
                   /\ held' = [l \in Leases |-> IF held[l] = t.session THEN NoSession
                                                ELSE held[l]]
                   /\ reply' = [reply EXCEPT ![c] = "ok"]
                \/ /\ step = "reserve"
                   /\ \E l \in UnusedLeases :
                        /\ held' = [held EXCEPT ![l] = t.session]
                        /\ reply' = [reply EXCEPT ![c] = l]
                   /\ UNCHANGED owner
                \/ /\ step = "release"
                   /\ held' = [held EXCEPT ![t.lease] = NoSession]
                   /\ reply' = [reply EXCEPT ![c] = "ok"]
                   /\ UNCHANGED owner
                \/ /\ step \in {"act", "prepare"}
                   /\ reply' = [reply EXCEPT ![c] = "ok"]
                   /\ UNCHANGED <<owner, held>>

\* The broker sees a connection end: its sessions and their leases go.
BrokerDrops(n) ==
    LET gone == {s \in Sessions : owner[s].on = n}
    IN /\ socket[n] \in {"lost", "ended"}
       /\ gone # {}
       /\ owner' = [s \in Sessions |-> IF s \in gone THEN NoOwner ELSE owner[s]]
       /\ held' = [l \in Leases |-> IF held[l] \in gone THEN NoSession ELSE held[l]]
       /\ UNCHANGED <<clientVars, serverVars, reply>>

-----------------------------------------------------------------------------
(* A tool call goes on when its request has ended, before the next event.  *)

Answered(c) == call[c].pc = "ended" /\ call[c].outcome = "answer" /\ reply[c] # "denied"
Unanswered(c) == call[c].pc = "ended" /\ ~Answered(c)

\* A request that is still on its way outlives the tool call it was made for; one that
\* changes nothing at the broker need not be followed.
Outlived(c) == /\ tool[c].step \in {"open", "close", "reserve", "release"} /\ ~call[c].probing
               /\ \E n \in Conns : fate[<<c, n>>] = "transit"

Return(c) ==
    /\ tool' = [tool EXCEPT ![c] = IF Outlived(c) THEN [@ EXCEPT !.name = "returned"]
                                   ELSE NoTool]
    /\ call' = [call EXCEPT ![c] = NoCall]
    /\ reply' = [reply EXCEPT ![c] = "none"]
    /\ fate' = [m \in Calls \X Conns |->
                   IF m[1] = c /\ ~(fate[m] = "transit" /\ Outlived(c)) THEN "none" ELSE fate[m]]
    /\ UNCHANGED <<peer, connected, closed, dialing, socket, owner, held, made>>

\* The request of a returned call has been served, or is known never to be.
Drained(c) ==
    /\ tool[c].name = "returned"
    /\ \A n \in Conns : fate[<<c, n>>] = "transit" => socket[n] # "ready"
    /\ fate' = [m \in Calls \X Conns |-> IF m[1] = c THEN "none" ELSE fate[m]]
    /\ tool' = [tool EXCEPT ![c] = NoTool]
    /\ reply' = [reply EXCEPT ![c] = "none"]
    /\ UNCHANGED <<peer, connected, closed, dialing, socket, call, bound, leaseOf, opened,
                   owner, held, made>>

\* The tool call ends with no trace in the registry; companion_release_tab means to
\* forget the lease but names no lease id (lease.leaseId of a record without one).
ToolEnds(c) ==
    /\ \/ Answered(c) /\ tool[c].name \in {"status", "release", "act"}
       \/ Answered(c) /\ tool[c].step = "prepare"
       \/ Unanswered(c) /\ tool[c].name \notin {"none", "returned", "resume"}
       \/ Unanswered(c) /\ tool[c].recovery # "none"
    /\ Return(c)
    /\ UNCHANGED <<bound, leaseOf, opened>>

SessionOpened(c) ==
    /\ Answered(c) /\ tool[c].name = "open"
    /\ bound' = Bind(bound, reply[c], tool[c].task)
    /\ opened' = Bind(opened, reply[c], tool[c].task)
    /\ Return(c)
    /\ UNCHANGED leaseOf

SessionClosed(c) ==
    /\ Answered(c) /\ tool[c].name = "close"
    /\ bound' = Forget(bound, tool[c].session)
    /\ leaseOf' = ForgetLeases(leaseOf, tool[c].session)
    /\ opened' = Forget(opened, tool[c].session)
    /\ Return(c)

\* Mutant: the session was asserted before the reservation, and is not again.
OwnedOnce(c) == TRUE

\* bindLease asserts the session once more: it may have been closed meanwhile.
OwnedStill(c) == Owns(tool[c].task, tool[c].session)

\* The reservation is answered; the tool call fails if bindLease refuses.
TabReserved(c) ==
    /\ Answered(c) /\ tool[c].name = "reserve"
    /\ leaseOf' = IF OwnedStill(c)
                  THEN [leaseOf EXCEPT ![reply[c]] = [session |-> tool[c].session,
                                                      task |-> tool[c].task]]
                  ELSE leaseOf
    /\ Return(c)
    /\ UNCHANGED <<bound, opened>>

\* The resume question failed on a bound session. Only a session this client opened
\* for the task is recovered (recoverOwnedSession): fresh status, then session.open.
ResumeFails(c) ==
    /\ Unanswered(c) /\ tool[c].name = "resume" /\ tool[c].recovery = "none"
    /\ call[c].outcome \in {"refused", "lost", "timeout", "answer"}
    /\ opened[tool[c].session] = tool[c].task
    /\ Ask(c, [tool[c] EXCEPT !.step = "status", !.recovery = "connection"])
    /\ UNCHANGED <<bound, leaseOf, opened, owner, held, made>>

ResumeGivesUp(c) ==
    /\ Unanswered(c) /\ tool[c].name = "resume" /\ tool[c].recovery = "none"
    /\ \/ call[c].outcome \notin {"refused", "lost", "timeout", "answer"}
       \/ opened[tool[c].session] # tool[c].task
    /\ Return(c)
    /\ UNCHANGED <<bound, leaseOf, opened>>

\* The status names the profile to open the session on, or the resume stops.
ResumeStatusRead(c) ==
    /\ Answered(c) /\ tool[c].name = "resume" /\ tool[c].step = "status"
    /\ \/ /\ Ask(c, [tool[c] EXCEPT !.step = "open"])
          /\ UNCHANGED <<bound, leaseOf, opened, owner, held, made>>
       \/ Return(c) /\ UNCHANGED <<bound, leaseOf, opened>>

\* The session is bound; after a connection failure the old one is forgotten first,
\* with its leases, also when the broker gave the same id again. Then the question
\* is put once more.
ResumeSessionOpened(c) ==
    LET t == tool[c]
        lost == t.recovery = "connection"
    IN /\ Answered(c) /\ t.name = "resume" /\ t.step = "open"
       /\ bound' = Bind(IF lost THEN Forget(bound, t.session) ELSE bound, reply[c], t.task)
       /\ leaseOf' = IF lost THEN ForgetLeases(leaseOf, t.session) ELSE leaseOf
       /\ opened' = Bind(IF lost THEN Forget(opened, t.session) ELSE opened, reply[c], t.task)
       /\ Ask(c, [t EXCEPT !.step = "prepare", !.session = reply[c]])
       /\ UNCHANGED <<owner, held, made>>

\* The host replaces the MCP process: the registry is empty, the connection is new.
NewProcess ==
    /\ closed
    /\ dialing = 0
    /\ NextConn \in Conns
    /\ peer' = NextConn
    /\ connected' = TRUE
    /\ closed' = FALSE
    /\ socket' = [socket EXCEPT ![NextConn] = "ready"]
    /\ call' = [c \in Calls |-> NoCall]
    /\ fate' = [m \in Calls \X Conns |-> "none"]
    /\ bound' = [s \in Sessions |-> NoTask]
    /\ leaseOf' = [l \in Leases |-> Unbound]
    /\ opened' = [s \in Sessions |-> NoTask]
    /\ tool' = [c \in Calls |-> NoTool]
    /\ reply' = [c \in Calls |-> "none"]
    /\ UNCHANGED <<dialing, owner, held, made>>

\* Promise continuations run before the next event.
Settled == \A c \in Calls : call[c].pc # "ended"

Event ==
    \/ ClientStep /\ UNCHANGED <<serverVars, brokerVars>>
    \/ \E c \in Calls, t \in Tasks :
         \/ Status(c) \/ OpenSession(c, t)
         \/ \E l \in Leases : ReleaseTab(c, t, l)
         \/ \E s \in Sessions :
              \/ CloseSession(c, t, s) \/ ReserveTab(c, t, s) \/ SessionTool(c, t, s)
              \/ PrepareResume(c, t, s)
              \/ \E l \in Leases : LeaseTool(c, t, s, l)
    \/ \E c \in Calls, n \in Conns : Serve(c, n)
    \/ \E n \in Conns : BrokerDrops(n)
    \/ \E c \in Calls : Drained(c)
    \/ NewProcess

Next ==
    \/ Settled /\ Event
    \/ \E c \in Calls :
         \/ ToolEnds(c) \/ SessionOpened(c) \/ SessionClosed(c) \/ TabReserved(c)
         \/ ResumeFails(c) \/ ResumeGivesUp(c) \/ ResumeStatusRead(c)
         \/ ResumeSessionOpened(c)

Spec == Init /\ [][Next]_vars

-----------------------------------------------------------------------------

\* A request the broker serves for a session serves the task that owns the session,
\* whichever tasks share the process and however sessions were closed, lost, reopened
\* or recovered meanwhile (assertSession, assertLease, prepare_resume).
NoForeignUse ==
    [][\A c \in Calls, n \in Conns :
         (/\ fate[<<c, n>>] = "transit" /\ fate'[<<c, n>>] = "done"
          /\ tool[c].step \notin {"status", "open"}
          /\ owner[tool[c].session].on = n)
            => owner[tool[c].session].task = tool[c].task]_vars

\* A lease is bound only under a session that is still bound to the lease's task: a
\* reservation answered after its session was closed leaves nothing behind
\* (bindLease, forgetSession).
NoOrphanLease ==
    \A l \in Leases : leaseOf[l] # Unbound => bound[leaseOf[l].session] = leaseOf[l].task

=============================================================================
