---------------------------- MODULE PageDebugger ----------------------------
(***************************************************************************)
(* One tab's debugger, which Chrome gives the Extension at most once, and  *)
(* who shares it: reads and input, an observation of console and network,  *)
(* an observation of dialogs, a temporary viewport.  The pool counts the   *)
(* references and detaches with the last one.  Calls to Chrome are         *)
(* answered in order, and Chrome may take the debugger away at any time.   *)
(*                                                                         *)
(* A call and the record it makes are one actor.  A second call that finds *)
(* a record of its own kind is answered from it or refused, and changes    *)
(* nothing; only observations can find none and still not be alone, since  *)
(* they register their record after two awaits.  What is observed, the     *)
(* answers to dialogs, a second setting of a viewport and the other tabs   *)
(* are left out.                                                           *)
(***************************************************************************)
EXTENDS Naturals, Sequences, FiniteSets

CONSTANTS Calls, None,
          MaxStates \* bound: attachments of the debugger

VARIABLES
    \* Chrome
    attached, metrics, \* is the debugger ours; is the viewport overridden
    calls, news,       \* attachments and detachments asked for; what the worker will hear
    \* DebuggerSessionPool: the states of the tab, the current one or 0
    mode, refs, target,
    \* the calls: what they do, and the state that they hold a reference of, or 0
    pc, kind, lease,
    active, dialog, view, \* the registered observation, dialog record and viewport record
    flags                 \* of a record: "stopped", "closing", "applied", "discarded"

chromeVars == <<attached, metrics, calls, news>>
poolVars == <<mode, refs, target>>
mapVars == <<active, dialog, view>>
vars == <<chromeVars, poolVars, pc, kind, lease, mapVars, flags>>

States == 1..MaxStates
Kinds == {"read", "observe", "dialog", "viewport"}

Init ==
    /\ attached = FALSE /\ metrics = FALSE /\ calls = <<>> /\ news = <<>>
    /\ mode = [s \in States |-> "none"] /\ refs = [s \in States |-> 0] /\ target = 0
    /\ pc = [c \in Calls |-> "idle"] /\ lease = [c \in Calls |-> 0]
    /\ kind \in [Calls -> Kinds]
    /\ active = None /\ dialog = None /\ view = None
    /\ flags = [c \in Calls |-> {}]

Goes(c, where) == pc' = [pc EXCEPT ![c] = where]
Flag(c, f) == flags' = [flags EXCEPT ![c] = @ \union f]

----------------------------------------------------------------------------
(* DebuggerSessionPool                                                      *)

\* Mutant: a closing state is joined like any other.
JoinsClosing == TRUE

\* A detachment in flight is waited for.
NotClosing == target # 0 => mode[target] # "closing"

\* acquire: joins the current state or asks for a new one.
Acquires(c) ==
    /\ pc[c] = "acquires" /\ NotClosing
    /\ IF target = 0
       THEN \E s \in States :
              /\ mode[s] = "none" /\ (s > 1 => mode[s - 1] # "none")
              /\ mode' = [mode EXCEPT ![s] = "attaching"] /\ refs' = [refs EXCEPT ![s] = 1]
              /\ target' = s /\ lease' = [lease EXCEPT ![c] = s]
              /\ calls' = Append(calls, [does |-> "attach", state |-> s])
              /\ Goes(c, "attaching")
       ELSE IF mode[target] = "stuck"
       THEN Goes(c, "refused") /\ UNCHANGED <<mode, refs, target, lease, calls>>
       ELSE /\ refs' = [refs EXCEPT ![target] = @ + 1] /\ lease' = [lease EXCEPT ![c] = target]
            /\ Goes(c, IF mode[target] = "attaching" THEN "attaching" ELSE "granted")
            /\ UNCHANGED <<mode, target, calls>>
    /\ UNCHANGED <<attached, metrics, news, kind, mapVars, flags>>

\* release, which changes lease, refs, mode and calls; a lease is released once.
Release(c) ==
    LET s == lease[c] IN
    /\ lease' = [lease EXCEPT ![c] = 0]
    /\ IF s = 0 THEN UNCHANGED <<mode, refs, calls>>
       ELSE /\ refs' = [refs EXCEPT ![s] = @ - 1]
            /\ IF refs[s] = 1 /\ mode[s] # "lost"
               THEN /\ mode' = [mode EXCEPT ![s] = "closing"]
                    /\ calls' = Append(calls, [does |-> "detach", state |-> s])
               ELSE UNCHANGED <<mode, calls>>
KeepsLease == UNCHANGED <<mode, refs, calls, lease>>

(* Chrome                                                                   *)

\* A detachment takes whatever is attached, with its overrides.  Either may fail.
Chrome ==
    /\ calls # <<>> /\ calls' = Tail(calls)
    /\ \E done \in BOOLEAN :
         /\ done => (attached <=> Head(calls).does = "detach")
         /\ attached' = IF done THEN Head(calls).does = "attach" ELSE attached
         /\ metrics' = (metrics /\ attached')
         /\ news' = Append(news, [of |-> Head(calls).does, state |-> Head(calls).state,
                                  done |-> done])
    /\ UNCHANGED <<poolVars, pc, kind, lease, mapVars, flags>>

\* The user cancels it, or the tab goes.
TakesAway ==
    /\ attached /\ attached' = FALSE /\ metrics' = FALSE
    /\ news' = Append(news, [of |-> "gone", state |-> 0, done |-> TRUE])
    /\ UNCHANGED <<calls, poolVars, pc, kind, lease, mapVars, flags>>

\* The calls that wait for the attachment of s go on.
Resume(s, where) ==
    LET waiting == {c \in Calls : pc[c] = "attaching" /\ lease[c] = s} IN
    /\ pc' = [c \in Calls |-> IF c \in waiting THEN where ELSE pc[c]]
    /\ lease' = [c \in Calls |-> IF c \in waiting /\ where = "refused" THEN 0 ELSE lease[c]]

HearsAttach(s, done) ==
    /\ IF done /\ mode[s] # "lost"
       THEN mode' = [mode EXCEPT ![s] = "ready"] /\ Resume(s, "granted") /\ UNCHANGED target
       ELSE /\ mode' = [mode EXCEPT ![s] = "lost"] /\ Resume(s, "refused")
            /\ target' = IF target = s THEN 0 ELSE target
    /\ UNCHANGED <<active, dialog, flags>>

HearsDetach(s, done) ==
    /\ IF mode[s] = "lost" THEN UNCHANGED <<mode, target>>
       ELSE IF done THEN mode' = [mode EXCEPT ![s] = "lost"] /\ target' = 0
       ELSE mode' = [mode EXCEPT ![s] = "stuck"] /\ UNCHANGED target
    /\ UNCHANGED <<pc, lease, active, dialog, flags>>

\* The listeners of onDetach: the pool forgets the state, and each kind ends its record.
HearsGone ==
    LET ends == {active, dialog} \ {None} IN
    /\ mode' = [s \in States |-> IF s = target THEN "lost" ELSE mode[s]] /\ target' = 0
    /\ active' = None /\ dialog' = None
    /\ flags' = [c \in Calls |->
                   IF c \in ends THEN flags[c] \union {"stopped"}
                   ELSE IF c = view
                   THEN (flags[c] \ {"applied"}) \union {"closing", "discarded"}
                   ELSE flags[c]]
    /\ lease' = [c \in Calls |-> IF c \in ends /\ pc[c] # "attaching" THEN 0 ELSE lease[c]]
    /\ pc' = [c \in Calls |-> IF c \in ends /\ pc[c] \in {"recording", "watching"} THEN "done"
                              ELSE pc[c]]

Hears ==
    /\ news # <<>> /\ news' = Tail(news)
    /\ LET n == Head(news) IN
       \/ n.of = "attach" /\ HearsAttach(n.state, n.done)
       \/ n.of = "detach" /\ HearsDetach(n.state, n.done)
       \/ n.of = "gone" /\ HearsGone
    /\ UNCHANGED <<attached, metrics, calls, refs, kind, view>>

----------------------------------------------------------------------------
(* A command.  Dialogs and viewports register their record before the first *)
(* await.                                                                   *)

Begins(c) ==
    LET taken == \/ kind[c] = "observe" /\ active # None
                 \/ kind[c] = "dialog" /\ dialog # None
                 \/ kind[c] = "viewport" /\ view # None IN
    /\ pc[c] = "idle" /\ Goes(c, IF taken THEN "done" ELSE "acquires")
    /\ dialog' = IF kind[c] = "dialog" /\ ~taken THEN c ELSE dialog
    /\ view' = IF kind[c] = "viewport" /\ ~taken THEN c ELSE view
    /\ UNCHANGED <<chromeVars, poolVars, kind, lease, active, flags>>

\* Visual input and stop-loading wait for the debugger only so long.
GivesUp(c) ==
    /\ kind[c] = "read" /\ pc[c] \in {"acquires", "attaching"} /\ "stopped" \notin flags[c]
    /\ Flag(c, {"stopped"})
    /\ UNCHANGED <<chromeVars, poolVars, pc, kind, lease, mapVars>>

\* No lease: the call fails, and a dialog's record ends; a viewport goes to its restoration.
Refused(c) ==
    /\ pc[c] = "refused"
    /\ Goes(c, IF kind[c] = "viewport" THEN "clears" ELSE "done")
    /\ Flag(c, IF kind[c] = "viewport" THEN {"closing"} ELSE {"stopped"})
    /\ dialog' = IF dialog = c THEN None ELSE dialog
    /\ UNCHANGED <<chromeVars, poolVars, kind, lease, active, view>>

\* Mutant: a dialog's record that was stopped while it waited is not looked at again.
OnlyGivenUp(c) == kind[c] = "read" /\ "stopped" \in flags[c]

\* The call was given up, or its record stopped, before it got the debugger.
TooLate(c) == kind[c] \in {"read", "dialog"} /\ "stopped" \in flags[c]

Granted(c) ==
    /\ pc[c] = "granted"
    /\ IF TooLate(c) THEN Release(c) /\ Goes(c, "done")
       ELSE /\ KeepsLease
            /\ Goes(c, IF kind[c] = "read" THEN "uses"
                       ELSE IF kind[c] = "observe" THEN "reads_tree"
                       ELSE IF kind[c] = "dialog" THEN "enables"
                       ELSE IF "closing" \in flags[c] THEN "clears" ELSE "measures")
    /\ UNCHANGED <<attached, metrics, news, target, kind, mapVars, flags>>

\* The operation ends, well or not; the lease is released in its finally block.
Uses(c) ==
    /\ pc[c] = "uses" /\ Release(c) /\ Goes(c, "done")
    /\ UNCHANGED <<attached, metrics, news, target, kind, mapVars, flags>>

----------------------------------------------------------------------------
(* PageObservations                                                         *)

\* start, after the frame tree: the record is registered, over any other.
Registers(c) ==
    /\ pc[c] = "reads_tree"
    /\ \/ attached /\ active' = c /\ Goes(c, "starts") /\ KeepsLease
       \/ Release(c) /\ Goes(c, "done") /\ UNCHANGED active
    /\ UNCHANGED <<attached, metrics, news, target, kind, dialog, view, flags>>

\* finish, once.
Finishes(c) ==
    /\ active' = IF active = c THEN None ELSE active
    /\ Flag(c, {"stopped"}) /\ Release(c)

\* For the duration, an explicit stop, a new origin, a lost port, the end of the session.
EndsObservation(c) ==
    /\ kind[c] = "observe" /\ pc[c] \in {"starts", "recording"} /\ "stopped" \notin flags[c]
    /\ Finishes(c) /\ Goes(c, IF pc[c] = "recording" THEN "done" ELSE "starts")
    /\ UNCHANGED <<attached, metrics, news, target, kind, dialog, view>>

\* The domains are enabled, or the start has failed, or an end has overtaken it.
Starts(c) ==
    /\ pc[c] = "starts"
    /\ IF "stopped" \in flags[c] THEN Goes(c, "done") /\ KeepsLease /\ UNCHANGED <<active, flags>>
       ELSE \/ Goes(c, "recording") /\ KeepsLease /\ UNCHANGED <<active, flags>>
            \/ Goes(c, "done") /\ Finishes(c)
    /\ UNCHANGED <<attached, metrics, news, target, kind, dialog, view>>

(* JavaScriptDialogs                                                        *)

\* finish; a call that still waits for the debugger sees that it is too late.
EndsDialog(c) ==
    /\ dialog = c /\ dialog' = None /\ Flag(c, {"stopped"})
    /\ IF pc[c] \in {"enables", "watching"} THEN Release(c) ELSE KeepsLease
    /\ Goes(c, IF pc[c] = "watching" THEN "done" ELSE pc[c])
    /\ UNCHANGED <<attached, metrics, news, target, kind, active, view>>

\* The page domain is enabled in time, or not, or an end has overtaken it.
Enables(c) ==
    /\ pc[c] = "enables"
    /\ IF "stopped" \in flags[c]
       THEN Goes(c, "done") /\ KeepsLease /\ UNCHANGED <<dialog, flags>>
       ELSE \/ Goes(c, "watching") /\ KeepsLease /\ UNCHANGED <<dialog, flags>>
            \/ Goes(c, "done") /\ Release(c) /\ dialog' = None /\ Flag(c, {"stopped"})
    /\ UNCHANGED <<attached, metrics, news, target, kind, active, view>>

(* ViewportControls                                                         *)

\* The override is dispatched, and the record says that there may be one, unless the record
\* is closing by now or the page has changed.
Measures(c) ==
    /\ pc[c] = "measures"
    /\ \/ /\ "closing" \notin flags[c] /\ Flag(c, {"applied"})
          /\ metrics' \in {metrics, attached} /\ Goes(c, "sets")
       \/ Flag(c, {"closing"}) /\ Goes(c, "clears") /\ UNCHANGED metrics
    /\ UNCHANGED <<attached, calls, news, poolVars, kind, lease, mapVars>>

\* The viewport is read back as asked for, or not.
Sets(c) ==
    /\ pc[c] = "sets"
    /\ \/ Goes(c, "set") /\ UNCHANGED flags
       \/ Goes(c, "clears") /\ Flag(c, {"closing"})
    /\ UNCHANGED <<chromeVars, poolVars, kind, lease, mapVars>>

\* A restoration is due: the duration, the owner's wish, a lost port, the session.
EndsViewport(c) ==
    /\ view = c /\ "closing" \notin flags[c] /\ Flag(c, {"closing"})
    /\ UNCHANGED <<chromeVars, poolVars, pc, kind, lease, mapVars>>

\* It has its turn in the record's queue; a failed one may be asked for again.
Restores(c) ==
    /\ pc[c] \in {"set", "retained"} /\ "closing" \in flags[c] /\ Goes(c, "clears")
    /\ UNCHANGED <<chromeVars, poolVars, kind, lease, mapVars, flags>>

\* A failed clear keeps the record and its lease.
ClearFailed(c) == Goes(c, "retained") /\ UNCHANGED flags

\* restoreRecord
Clears(c) ==
    /\ pc[c] = "clears"
    /\ IF "applied" \in flags[c]
       THEN \/ /\ attached /\ metrics' = FALSE /\ Goes(c, "restored")
               /\ flags' = [flags EXCEPT ![c] = @ \ {"applied"}]
            \/ metrics' \in {metrics, FALSE} /\ ClearFailed(c)
       ELSE Goes(c, "restored") /\ UNCHANGED <<metrics, flags>>
    /\ UNCHANGED <<attached, calls, news, poolVars, kind, lease, mapVars>>

\* The lease is released, and the record forgotten unless the last readback fails.
Restored(c) ==
    /\ pc[c] = "restored" /\ Release(c)
    /\ \/ Goes(c, "done") /\ view' = None
       \/ "discarded" \notin flags[c] /\ Goes(c, "retained") /\ UNCHANGED view
    /\ UNCHANGED <<attached, metrics, news, target, kind, active, dialog, flags>>

----------------------------------------------------------------------------
Next ==
    \/ Chrome \/ TakesAway \/ Hears
    \/ \E c \in Calls :
         \/ Begins(c) \/ Acquires(c) \/ GivesUp(c) \/ Refused(c) \/ Granted(c) \/ Uses(c)
         \/ Registers(c) \/ EndsObservation(c) \/ Starts(c) \/ EndsDialog(c) \/ Enables(c)
         \/ Measures(c) \/ Sets(c) \/ EndsViewport(c) \/ Restores(c) \/ Clears(c) \/ Restored(c)
Spec == Init /\ [][Next]_vars

----------------------------------------------------------------------------

\* Whoever has the debugger, by the pool, has it: another's release, a detachment in flight
\* or a failed attachment never takes it; only Chrome does, and the worker will hear of it.
NobodyLosesTheDebugger ==
    \A c \in Calls :
        lease[c] # 0 /\ pc[c] # "attaching" /\ mode[lease[c]] # "lost"
            => attached \/ \E i \in DOMAIN news : news[i].of = "gone"

\* Nothing is left with nobody: every reference is that of a call that still works or of a
\* record that is still there, Chrome's debugger with none left is being detached or could not
\* be, and an overridden viewport is some record's, who will restore it.
NothingLeaks ==
    /\ \A c \in Calls : pc[c] = "done" => lease[c] = 0
    /\ attached /\ calls = <<>> /\ news = <<>>
        => /\ target # 0
           /\ mode[target] # "stuck" => \E c \in Calls : lease[c] = target
    /\ metrics => view # None /\ "applied" \in flags[view]
=============================================================================
