-------------------------- MODULE TaskTransaction --------------------------
(***************************************************************************)
(* Task transactions of one task in one profile generation:                *)
(* #executeTaskTransaction in src/src/broker/broker.mjs, with the target   *)
(* resolution it calls.                                                    *)
(*                                                                         *)
(* A transaction reserves its target key, binds a tab (a recorded one, or  *)
(* a new one), performs its steps one by one under the tab's lease, and    *)
(* closes or retains the tab.  Wherever it fails, its catch block decides  *)
(* from the ledger entry of the last operation and from the error what to  *)
(* report of each step and what becomes of the tab.                        *)
(*                                                                         *)
(* Every action is what runs between two awaits; an operation sent to the  *)
(* Extension is one step, since OperationDispatch has its insides.  What   *)
(* the page really did is in took; the broker does not see it.             *)
(***************************************************************************)
EXTENDS Naturals, FiniteSets, Sequences

CONSTANTS
    Txns,       \* calls of task.transaction
    Sessions,   \* logical sessions of the task
    Tabs,       \* tab ids; Chrome gives each out once
    Open,       \* bound: the tabs open at first
    Keys,       \* target keys
    Asks,       \* bound: what a transaction may ask for
    Events,     \* bound: which disturbances an instance explores
    MaxUpsets,  \* bound: how many, not counting failing writes
    None

Step == {"edit", "commit", "move", "read"}
Policies == {"cleanup", "retain", "retain_until_resume"}

ASSUME TaskAssumption ==
    /\ None \notin Txns \union Sessions \union Tabs \union Keys
    /\ Txns \intersect Sessions = {} /\ Open \subseteq Tabs
    /\ \A a \in Asks :
          /\ a.session \in Sessions /\ a.key \in Keys
          /\ a.exact \in Tabs \union {None}
          /\ a.policy \in Policies /\ {a.keep, a.awaits} \subseteq BOOLEAN
          /\ a.steps \in Seq(Step) /\ a.steps # << >>
          /\ \A i, j \in DOMAIN a.steps : a.steps[i] = "move" /\ i < j => a.steps[j] = "read"
    /\ Events \subseteq {"reserve", "session", "removed", "persist"} /\ MaxUpsets \in Nat

VARIABLES
    live,      \* tabs open in Chrome
    fresh,     \* tab ids not given out yet
    up,        \* sessions that exist
    lease,     \* tabLeaseIndex: the lease that reserves a tab, named by who took it
    record,    \* taskTabs and the ledger's task-tab entries
    reserved,  \* taskTargetReservations
    capsule,   \* the ledger's capsule of a transaction
    txn,       \* the running calls
    took,      \* steps whose effect happened
    receipt,   \* what the calls returned
    upsets     \* disturbances so far, a bound

vars == <<live, fresh, up, lease, record, reserved, capsule, txn, took, receipt, upsets>>

\* The ledger entry at taskWithCapsule.index: which operation it is (at: a step's number, or
\* 0 for the tab's set-up and its closing), and what is known of it.
NoEntry == [kind |-> "none", at |-> 0, state |-> "none", sent |-> FALSE, proven |-> FALSE]
NewTxn == [ask |-> None, phase |-> "new", tab |-> None, lease |-> None, step |-> 0,
           keyed |-> FALSE, flying |-> FALSE, closing |-> FALSE, applied |-> {},
           verified |-> {}, next |-> None]
NoCapsule == [state |-> "none", effect |-> "no_dispatch"]

Init ==
    /\ live = Open /\ fresh = Tabs \ Open /\ up = Sessions
    /\ lease = [t \in Tabs |-> None]
    /\ record = [t \in Tabs |-> None]
    /\ reserved = [k \in Keys |-> None]
    /\ capsule = [x \in Txns |-> NoCapsule]
    /\ txn = [x \in Txns |-> NewTxn]
    /\ took = [x \in Txns |-> {}]
    /\ receipt = [x \in Txns |-> None]
    /\ upsets = 0

Ask(x) == txn[x].ask
Running(x) == txn[x].phase \notin {"new", "ended"}
SessionOf(l) == IF l \in Txns THEN Ask(l).session ELSE l

-----------------------------------------------------------------------------
(* What an operation and its error tell the catch block.                   *)

Entry(kind, at, state) ==
    [kind |-> kind, at |-> at, state |-> state, sent |-> state # "blocked", proven |-> FALSE]

\* Refused on the way: #recordNotDispatched leaves an entry that was never sent.
NotSent(kind, at) == Entry(kind, at, "blocked")
\* The Extension proves that the mutation did not start.
ProvenNoEffect(kind, at) == [Entry(kind, at, "blocked") EXCEPT !.sent = TRUE, !.proven = TRUE]
\* Sent, and then a lost connection, an error or a timeout; after a timeout the ledger may not
\* have been told yet.
Uncertain(kind, at) == {Entry(kind, at, "unknown"), Entry(kind, at, "dispatched")}

\* An error: its code, whether a read-only command failed with it, what its details claim of the
\* effect, and whether they leave the operation to be reconciled.
Failure(code, readOnly, claims, reconcile) ==
    [code |-> code, readOnly |-> readOnly, claims |-> claims, reconcile |-> reconcile]
Plain    == Failure("other", FALSE, "nothing", TRUE)
ReadOnly == {Failure(c, TRUE, "no_effect", FALSE) : c \in {"readback", "recoverable"}}
Proven   == {Failure(c, FALSE, "no_effect", TRUE) : c \in {"other", "recoverable"}}
Refusals == {Plain} \union Proven
LostOf(kind) == {Failure(c, FALSE, claims, kind = "commit") :
                    c \in {"unknown", "other"}, claims \in {"unknown", "no_effect"}}
\* After an applied step: a read failed; the page left the origins; an awaited event did not
\* come; an upload was not confirmed; a submission showed no transition.
ReadbackFailures(kind) ==
    ReadOnly \union {Failure("readback", FALSE, "nothing", TRUE), Failure("other", FALSE, "done", TRUE)}
    \union IF kind # "commit" THEN {}
           ELSE {Failure(c, FALSE, "unknown", TRUE) : c \in {"readback", "unknown"}}

-----------------------------------------------------------------------------
(* The catch block, for the call's locals r, the entry e and the error f.  *)

Active(r) == r.step # 0
StepOf(r) == r.ask.steps[r.step]
Applied(r) == {i \in r.applied : r.ask.steps[i] # "read"}

\* The entry the error is about: that of the step's own key, if it has one.
Matched(r, e) == IF r.keyed THEN e.at = r.step ELSE r.flying

\* Mutant: an error is believed when it claims that nothing happened.
EvidenceTrusting(r, e, f) ==
    [knownNoEffect |-> f.claims = "no_effect" /\ ~f.readOnly,
     contradictory |-> FALSE, unproven |-> FALSE]

\* transactionFailureNoEffectEvidence
Evidence(r, e, f) ==
    LET claimed == f.claims = "no_effect"
        contradictory == \/ f.code = "unknown"
                         \/ Matched(r, e) /\ e.state = "unknown"
                         \/ claimed /\ Matched(r, e) /\ e.state = "applied"
        preDispatch == Active(r) /\ ~r.keyed /\ ~r.flying
        backed == \/ preDispatch
                  \/ Matched(r, e) /\ e.state = "blocked" /\ (~e.sent \/ e.proven)
    IN  [knownNoEffect |-> ~f.readOnly /\ claimed /\ ~contradictory /\ backed,
         contradictory |-> ~f.readOnly /\ contradictory,
         unproven |-> ~f.readOnly /\ claimed /\ ~contradictory /\ ~backed]

MayMutate(r) == r.flying \/ (Active(r) /\ StepOf(r) # "read")

\* Mutant: only what is still dispatched is uncertain.
EffectMayWhileDispatched(r, e, f) ==
    /\ MayMutate(r) /\ ~Evidence(r, e, f).knownNoEffect
    /\ r.flying /\ e.kind = "commit" /\ e.state = "dispatched"

\* effectMayHaveDispatched: a provider may have seen the effect.
EffectMay(r, e, f) ==
    /\ MayMutate(r) /\ ~Evidence(r, e, f).knownNoEffect
    /\ \/ f.code = "unknown" /\ f.reconcile
       \/ /\ r.flying /\ e.kind = "commit"
          /\ \/ e.state \in {"dispatched", "unknown"}
             \/ e.state = "applied" /\ ~f.readOnly /\ f.code = "readback"

\* localNavigationEffectUnknown
NavigationMay(r, e, f) == ~EffectMay(r, e, f) /\ e.kind = "move" /\ e.state = "unknown"

\* localUiEffectUnknown: the page may have changed, no provider saw it.
LocalMay(r, e, f) ==
    LET ev == Evidence(r, e, f) IN
    /\ MayMutate(r) /\ ~EffectMay(r, e, f) /\ ~ev.knownNoEffect
    /\ \/ ev.contradictory \/ ev.unproven
       \/ /\ e.kind \notin {"none", "commit"}
          /\ \/ e.state = "unknown" \/ f.code = "unknown"
             \/ r.flying /\ e.sent /\ e.state # "applied"

StepEffect(r, e, f) ==
    IF EffectMay(r, e, f) \/ LocalMay(r, e, f) THEN "unknown_effect"
    ELSE IF Evidence(r, e, f).knownNoEffect THEN "known_no_effect"
    ELSE IF r.keyed /\ e.state = "applied" THEN "known_effect" ELSE "no_dispatch"

Effect(r, e, f) ==
    IF StepEffect(r, e, f) # "unknown_effect" /\ Applied(r) # {} THEN "known_effect"
    ELSE StepEffect(r, e, f)

\* Mutant: a step that was not applied is still to be done.
RetryUnlessApplied(r, e, f) == Active(r) /\ r.step \notin r.applied

\* retryFailedStep
Retry(r, e, f) ==
    /\ Active(r) /\ r.step \notin r.applied
    /\ StepEffect(r, e, f) # "unknown_effect"
    /\ \/ ~r.keyed \/ ~e.sent
       \/ StepEffect(r, e, f) = "known_no_effect" /\ f.claims = "no_effect"

\* action_progress and continuation
FailureReceipt(r, e, f) ==
    LET uncertain == StepEffect(r, e, f) = "unknown_effect"
        unattempted == {i \in DOMAIN r.ask.steps : i > r.step}
    IN  [result |-> IF uncertain THEN "unknown_effect" ELSE "blocked",
         effect |-> Effect(r, e, f),
         applied |-> r.applied, verified |-> r.verified,
         remaining |-> unattempted \union IF Retry(r, e, f) THEN {r.step} ELSE {},
         uncertain |-> IF uncertain /\ Active(r) THEN {r.step} ELSE {},
         mayContinue |-> /\ ~uncertain /\ ~NavigationMay(r, e, f)
                         /\ Applied(r) = {} /\ f.code = "recoverable"]

\* What becomes of the capsule and the tab.
Verdict(r, e, f) ==
    LET reconcile == EffectMay(r, e, f) \/ NavigationMay(r, e, f)
        partial == Applied(r) # {} \/ (LocalMay(r, e, f) /\ Active(r))
    IN  [said |-> FailureReceipt(r, e, f),
         state |-> IF reconcile THEN "reconciliation_required" ELSE "failed",
         hold |-> reconcile \/ partial,
         close |-> /\ r.tab # None /\ r.lease # None /\ ~r.closing
                   /\ ~r.ask.keep /\ r.ask.policy = "cleanup"
                   /\ ~partial /\ ~reconcile]

\* What is left of a call when its steps are over.
Over(r, phase, next) ==
    [NewTxn EXCEPT !.ask = r.ask, !.tab = r.tab, !.lease = r.lease, !.phase = phase, !.next = next]

Fails(x, r, entries, failures) ==
    \E e \in entries, f \in failures :
       txn' = [txn EXCEPT ![x] = Over(r, "settling", Verdict(r, e, f))]

-----------------------------------------------------------------------------
(* Leases and records.                                                     *)

Free(id) == [t \in Tabs |-> IF id # None /\ lease[t] = id THEN None ELSE lease[t]]

\* #acquireLease: a tab the session already reserves keeps its lease.
MayAcquire(x, t) == lease[t] = None \/ SessionOf(lease[t]) = Ask(x).session
LeaseFor(x, t) == IF lease[t] = None THEN x ELSE lease[t]
Acquired(x, t) == [lease EXCEPT ![t] = LeaseFor(x, t)]

Record(x, life, policy) ==
    [key |-> Ask(x).key, life |-> life, policy |-> policy, run |-> x]

\* PROTECTED_LIFECYCLES
Protected == {"target_bound", "executing", "awaiting_user", "reconciliation_required"}

\* resolveDynamicTaskTarget's candidates.  An exact continuation may start on a tab that the
\* session has only reserved.
Provisional(x, t) ==
    Ask(x).exact = t /\ lease[t] # None /\ SessionOf(lease[t]) = Ask(x).session
IsRecorded(t) == record[t] # None /\ record[t].policy # "cleanup"
Candidates(x) ==
    {t \in live : Ask(x).exact \in {None, t} /\ (IsRecorded(t) \/ Provisional(x, t))}
IsProtected(t) == IsRecorded(t) /\ record[t].life \in Protected
IsExact(x, t) == Ask(x).exact = t \/ (IsRecorded(t) /\ record[t].key = Ask(x).key)
Ordinary(t) == IsRecorded(t) /\ record[t].life = "completed" /\ record[t].policy = "retain"
Usable(x) == {t \in Candidates(x) : ~IsProtected(t) /\ MayAcquire(x, t)}


\* Mutant: a record in any state of its life may be taken over.
ResolvedUnprotected(x) == {t \in Candidates(x) : MayAcquire(x, t)}

\* The tab to take: the only exact one, or else an ordinary one of the same site (the latest).
Resolved(x) ==
    LET exact == {t \in Usable(x) : IsExact(x, t)} IN
    IF Cardinality(exact) = 1 THEN exact
    ELSE IF \E t \in Candidates(x) : IsExact(x, t) THEN {} ELSE {t \in Usable(x) : Ordinary(t)}

\* Busy, protected or ambiguous: nothing may be opened instead.
Refusing(x) == {t \in Candidates(x) : IsExact(x, t)} # {} /\ Resolved(x) = {}

-----------------------------------------------------------------------------
(* Operations.                                                             *)

\* #executeOperation for the transaction's tab.
Permitted(r) ==
    /\ r.ask.session \in up
    /\ r.tab # None => lease[r.tab] = r.lease /\ record[r.tab] # None

\* The operation is refused on the way, or the Extension proves that it did nothing.
Refused(x, r, kind, at) ==
    \/ Fails(x, r, {NotSent(kind, at)}, Refusals)
    \/ Permitted(r) /\ Fails(x, r, {ProvenNoEffect(kind, at)}, Proven)
Lost(x, r, kind, at) == Permitted(r) /\ Fails(x, r, Uncertain(kind, at), LostOf(kind))

InFlight(x) == [txn[x] EXCEPT !.flying = TRUE]
Goes(x, r, phase) == txn' = [txn EXCEPT ![x] = [r EXCEPT !.phase = phase]]
PersistFails(x) == "persist" \in Events /\ Fails(x, txn[x], {NoEntry}, {Plain})

\* finally: the lease and the reservation go, whoever relies on them by now.
Leaves(x, said) ==
    /\ receipt' = [receipt EXCEPT ![x] = said]
    /\ lease' = Free(txn[x].lease)
    /\ reserved' = IF reserved[Ask(x).key] # Ask(x).session THEN reserved
                   ELSE [reserved EXCEPT ![Ask(x).key] = None]
    /\ txn' = [txn EXCEPT ![x] = Over([@ EXCEPT !.lease = None], "ended", [said |-> said])]
Stays == UNCHANGED <<lease, reserved, receipt>>

-----------------------------------------------------------------------------
(* The transaction.                                                        *)

Admit(x) ==
    /\ txn[x].phase = "new"
    /\ \E a \in Asks :
          /\ a.session \in up
          /\ IF reserved[a.key] # None
             THEN txn' = [txn EXCEPT ![x].phase = "ended", ![x].ask = a] /\ UNCHANGED reserved
             ELSE /\ txn' = [txn EXCEPT ![x].phase = "admitting", ![x].ask = a]
                  /\ reserved' = [reserved EXCEPT ![a.key] = a.session]
    /\ UNCHANGED <<upsets, fresh, live, up, lease, record, capsule, took, receipt>>

\* The capsule is stored and the authority consumed; tabs of earlier generations are closed.
Admitted(x) ==
    /\ txn[x].phase = "admitting"
    /\ \/ /\ capsule' = [capsule EXCEPT ![x].state = "admitted"]
          /\ \/ Goes(x, txn[x], "listing")
             \/ Fails(x, txn[x], {NoEntry}, {Plain} \union LostOf("commit") \union ReadOnly)
       \/ PersistFails(x) /\ UNCHANGED capsule
    /\ UNCHANGED <<upsets, fresh, live, up, lease, record, reserved, took, receipt>>

ListFails(x) ==
    /\ txn[x].phase = "listing"
    /\ Fails(x, txn[x], {NoEntry}, {Plain} \union ReadOnly)
    /\ UNCHANGED <<upsets, fresh, live, up, lease, record, reserved, capsule, took, receipt>>

\* The inventory arrived: records of vanished tabs go, and the tab is resolved.
Resolve(x) ==
    /\ txn[x].phase = "listing" /\ Ask(x).session \in up
    /\ record' = [t \in Tabs |-> IF t \in live THEN record[t] ELSE None]
    /\ \/ \E t \in Resolved(x) :
             /\ lease' = Acquired(x, t)
             /\ Goes(x, [txn[x] EXCEPT !.tab = t, !.lease = LeaseFor(x, t)], "rebinding")
       \/ /\ Resolved(x) = {}
          /\ \/ ~Refusing(x) /\ Goes(x, txn[x], "creating")
             \/ Ask(x).exact # None
                /\ Fails(x, txn[x], {NoEntry}, {Plain, Failure("recoverable", FALSE, "nothing", TRUE)})
             \/ Refusing(x) /\ Fails(x, txn[x], {NoEntry}, {Plain})
          /\ UNCHANGED lease
    /\ UNCHANGED <<upsets, fresh, live, up, reserved, capsule, took, receipt>>

Rebind(x) ==
    /\ txn[x].phase = "rebinding"
    /\ \/ /\ record' = [record EXCEPT ![txn[x].tab] = Record(x, "executing", Ask(x).policy)]
          /\ Goes(x, txn[x], "grouping")
       \/ PersistFails(x) /\ UNCHANGED record
    /\ UNCHANGED <<upsets, fresh, live, up, lease, reserved, capsule, took, receipt>>

\* Group the tab; unless the caller named it, take it to the start page if it is elsewhere.
SetUp(x) ==
    /\ txn[x].phase \in {"grouping", "navigating"}
    /\ LET kind == IF txn[x].phase = "grouping" THEN "setup" ELSE "move" IN
       \/ Refused(x, InFlight(x), kind, 0) \/ Lost(x, InFlight(x), kind, 0)
       \/ /\ Permitted(txn[x])
          /\ \/ Goes(x, txn[x], "binding")
             \/ kind = "setup" /\ Ask(x).exact = None /\ Goes(x, txn[x], "navigating")
    /\ UNCHANGED <<upsets, fresh, live, up, lease, record, reserved, capsule, took, receipt>>

\* tabs.create; a lost acknowledgement may still name the tab that was opened.
Create(x) ==
    /\ txn[x].phase = "creating"
    /\ \/ /\ Refused(x, InFlight(x), "setup", 0) \/ Lost(x, InFlight(x), "setup", 0)
          /\ UNCHANGED <<live, fresh, lease, record>>
       \/ \E t \in fresh :
             /\ Ask(x).session \in up
             /\ live' = live \union {t} /\ fresh' = fresh \ {t}
             /\ record' = [record EXCEPT ![t] = Record(x, "discovered", Ask(x).policy)]
             /\ lease' = Acquired(x, t)
             /\ LET bound == [txn[x] EXCEPT !.tab = t, !.lease = LeaseFor(x, t)] IN
                \/ Goes(x, bound, "binding")
                \/ Fails(x, [bound EXCEPT !.flying = TRUE], Uncertain("setup", 0),
                         {Failure("unknown", FALSE, "unknown", FALSE)})
    /\ UNCHANGED <<upsets, up, reserved, capsule, took, receipt>>

\* The capsule is bound to the tab and, after the pre-read, starts executing.
Bind(x) ==
    /\ txn[x].phase = "binding"
    /\ \/ /\ capsule' = [capsule EXCEPT ![x].state = "target_bound"] /\ Goes(x, txn[x], "preread")
       \/ PersistFails(x) /\ UNCHANGED capsule
    /\ UNCHANGED <<upsets, fresh, live, up, lease, record, reserved, took, receipt>>

PreRead(x) ==
    /\ txn[x].phase = "preread"
    /\ LET t == txn[x].tab IN
       \/ /\ record' = IF record[t] = None THEN record
                       ELSE [record EXCEPT ![t].life = "target_bound"]
          /\ capsule' = [capsule EXCEPT ![x].state = "executing"]
          /\ Goes(x, [txn[x] EXCEPT !.step = 1], "step")
       \/ /\ (Fails(x, txn[x], {NoEntry}, {Plain} \union ReadOnly) \/ PersistFails(x))
          /\ UNCHANGED <<record, capsule>>
    /\ UNCHANGED <<upsets, fresh, live, up, lease, reserved, took, receipt>>

\* Step by step: read the page and check the target, then perform.
StepKind(x) == Ask(x).steps[txn[x].step]
Keyed(x) == [txn[x] EXCEPT !.keyed = TRUE, !.flying = StepKind(x) # "read"]
NotBegun(x) ==
    /\ txn[x].phase = "step"
    /\ Fails(x, [txn[x] EXCEPT !.keyed = FALSE], {NoEntry}, Refusals \union ReadOnly)
    /\ UNCHANGED <<upsets, fresh, live, up, lease, record, reserved, capsule, took, receipt>>

Perform(x) ==
    /\ txn[x].phase = "step"
    /\ LET i == txn[x].step
           kind == StepKind(x)
           done == IF kind = "read" THEN took ELSE [took EXCEPT ![x] = @ \union {i}] IN
       \/ /\ kind = "read" /\ Fails(x, Keyed(x), {NoEntry}, {Plain} \union ReadOnly)
          /\ UNCHANGED took
       \/ kind # "read" /\ Refused(x, Keyed(x), kind, i) /\ UNCHANGED took
       \/ kind # "read" /\ Lost(x, Keyed(x), kind, i) /\ took' \in {took, done}
       \/ /\ Permitted(txn[x]) /\ took' = done
          /\ Goes(x, [Keyed(x) EXCEPT !.applied = @ \union {i}], "readback")
    /\ UNCHANGED <<upsets, fresh, live, up, lease, record, reserved, capsule, receipt>>

\* What follows an acknowledged step; a submission without a transition is reported as one of
\* the verified steps.
Readback(x) ==
    /\ txn[x].phase = "readback"
    /\ LET i == txn[x].step
           kind == StepKind(x)
           seen == [txn[x] EXCEPT !.verified = @ \union {i}]
           entry == IF kind = "read" THEN NoEntry ELSE Entry(kind, i, "applied") IN
       \/ IF i < Len(Ask(x).steps)
          THEN Goes(x, [seen EXCEPT !.flying = FALSE, !.keyed = FALSE, !.step = i + 1], "step")
          ELSE Goes(x, [seen EXCEPT !.flying = FALSE], "finishing")
       \/ Fails(x, txn[x], {entry}, ReadbackFailures(kind))
       \/ kind = "commit" /\ Fails(x, seen, {entry}, {Failure("unknown", FALSE, "unknown", TRUE)})
    /\ UNCHANGED <<upsets, fresh, live, up, lease, record, reserved, capsule, took, receipt>>

KnownEffect(x) == IF Applied(txn[x]) # {} THEN "known_effect" ELSE "known_no_effect"
VerifiedReceipt(x) ==
    [result |-> "verified", effect |-> KnownEffect(x),
     applied |-> txn[x].applied, verified |-> txn[x].verified, remaining |-> {},
     uncertain |-> {}, mayContinue |-> FALSE]

\* The final read-back; the capsule is completed, or waits for its user.
Finish(x) ==
    /\ txn[x].phase = "finishing"
    /\ LET r == txn[x]
           last == Entry(StepKind(x), r.step, "applied")
           state == IF Ask(x).awaits THEN "awaiting_user" ELSE "completed"
           policy == IF Ask(x).awaits THEN "retain_until_resume" ELSE Ask(x).policy
           retained == Ask(x).awaits \/ Ask(x).keep \/ policy # "cleanup"
           entry == IF StepKind(x) = "read" THEN NoEntry ELSE last IN
       \/ Fails(x, r, {entry}, ReadOnly) /\ Stays /\ UNCHANGED <<capsule, record>>
       \/ /\ capsule' = [capsule EXCEPT ![x] = [state |-> state, effect |-> KnownEffect(x)]]
          /\ \/ /\ record' = IF ~retained \/ record[r.tab] = None THEN record
                             ELSE [record EXCEPT ![r.tab] =
                                      [@ EXCEPT !.life = state, !.policy = policy]]
                /\ IF retained THEN Leaves(x, VerifiedReceipt(x))
                   ELSE Goes(x, [r EXCEPT !.closing = TRUE], "closing") /\ Stays
             \/ /\ "persist" \in Events /\ Fails(x, r, {entry}, {Plain})
                /\ Stays /\ UNCHANGED record
    /\ UNCHANGED <<upsets, fresh, live, up, took>>

\* tabs.close, by which a completed transaction ends and a failed one may discard its tab.
Closes(x) ==
    /\ Permitted(txn[x])
    /\ live' = live \ {txn[x].tab}
    /\ record' = [record EXCEPT ![txn[x].tab] = None]

Close(x) ==
    /\ txn[x].phase = "closing"
    /\ \/ Closes(x) /\ Leaves(x, VerifiedReceipt(x))
       \/ Refused(x, InFlight(x), "setup", 0) /\ Stays /\ UNCHANGED <<live, record>>
       \/ /\ Lost(x, InFlight(x), "setup", 0)
          /\ live' \in {live, live \ {txn[x].tab}}
          /\ Stays /\ UNCHANGED record
    /\ UNCHANGED <<upsets, fresh, up, capsule, took>>

\* transitionTaskExecutionCapsule
MayMove(from, to) ==
    \/ from = to \/ from \in {"executing", "post_read"}
    \/ to = "failed" /\ from \notin {"completed", "none"}

\* The capsule takes the verdict, if the ledger accepts it; the tab is then discarded, or its
\* record says why it stays.
Settle(x) ==
    /\ txn[x].phase = "settling"
    /\ LET verdict == txn[x].next
           t == txn[x].tab
           policy == IF verdict.hold THEN "retain_until_resume" ELSE record[t].policy IN
       /\ \/ /\ MayMove(capsule[x].state, verdict.state)
             /\ capsule' = [capsule EXCEPT ![x] =
                               [state |-> verdict.state, effect |-> verdict.said.effect]]
          \/ /\ ~MayMove(capsule[x].state, verdict.state) \/ "persist" \in Events
             /\ UNCHANGED capsule
       /\ \/ /\ verdict.close
             /\ Goes(x, txn[x], "discarding") /\ Stays /\ UNCHANGED record
          \/ /\ ~verdict.close /\ Leaves(x, verdict.said)
             /\ record' = IF t = None \/ capsule' = capsule \/ record[t] = None THEN record
                          ELSE [record EXCEPT ![t] =
                                   [@ EXCEPT !.life = verdict.state, !.policy = policy]]
    /\ UNCHANGED <<upsets, fresh, live, up, took>>

Discard(x) ==
    /\ txn[x].phase = "discarding"
    /\ \/ Closes(x)
       \/ live' \in {live, live \ {txn[x].tab}} /\ UNCHANGED record
    /\ Leaves(x, txn[x].next.said)
    /\ UNCHANGED <<upsets, fresh, up, capsule, took>>

-----------------------------------------------------------------------------
(* What happens around it.                                                 *)

Upset(event) == event \in Events /\ upsets < MaxUpsets /\ upsets' = upsets + 1

\* companion_reserve_tab
Reserve(s, t) ==
    /\ Upset("reserve") /\ s \in up /\ t \in live /\ lease[t] = None
    /\ lease' = [lease EXCEPT ![t] = s]
    /\ UNCHANGED <<fresh, live, up, record, reserved, capsule, txn, took, receipt>>

SessionEnds(s) ==
    /\ Upset("session") /\ s \in up
    /\ up' = up \ {s}
    /\ lease' = [t \in Tabs |-> IF lease[t] # None /\ SessionOf(lease[t]) = s THEN None
                                ELSE lease[t]]
    /\ UNCHANGED <<fresh, live, record, reserved, capsule, txn, took, receipt>>

\* The user closes a tab; the event that says so may be missed.
TabRemoved(t) ==
    /\ Upset("removed") /\ t \in live
    /\ live' = live \ {t}
    /\ \/ /\ lease' = [lease EXCEPT ![t] = None] /\ record' = [record EXCEPT ![t] = None]
       \/ UNCHANGED <<lease, record>>
    /\ UNCHANGED <<fresh, up, reserved, capsule, txn, took, receipt>>

Next ==
    \/ \E x \in Txns :
          \/ Admit(x) \/ Admitted(x) \/ ListFails(x) \/ Resolve(x) \/ Rebind(x) \/ SetUp(x)
          \/ Create(x) \/ Bind(x) \/ PreRead(x) \/ NotBegun(x) \/ Perform(x) \/ Readback(x)
          \/ Finish(x) \/ Close(x) \/ Settle(x) \/ Discard(x)
    \/ \E s \in Sessions, t \in Tabs : Reserve(s, t)
    \/ \E s \in Sessions : SessionEnds(s)
    \/ \E t \in Tabs : TabRemoved(t)

Spec == Init /\ [][Next]_vars

-----------------------------------------------------------------------------
(* Properties.                                                             *)

TypeOK ==
    /\ live \union fresh \subseteq Tabs /\ live \intersect fresh = {} /\ up \subseteq Sessions
    /\ lease \in [Tabs -> Txns \union Sessions \union {None}]
    /\ reserved \in [Keys -> Sessions \union {None}]
    /\ \A t \in Tabs : record[t] # None => record[t].run \in Txns /\ record[t].policy \in Policies
    /\ \A x \in Txns : took[x] # {} => txn[x].ask \in Asks /\ took[x] \subseteq DOMAIN Ask(x).steps

Said(x) == txn[x].next.said
Judged(x) == txn[x].phase \in {"settling", "discarding", "ended"} /\ txn[x].next # None

\* The caller is told to continue with the remaining steps: none of them has already had its
\* effect, however the call failed and whatever the error claimed.
NothingDoneRemains == \A x \in Txns : Judged(x) => Said(x).remaining \intersect took[x] = {}

\* A receipt that reports no effect, or lets the task go on at once, is right about the page; and
\* what a receipt calls applied was.
ReceiptIsTrue ==
    \A x \in Txns : Judged(x) =>
       /\ (Said(x).effect \in {"no_dispatch", "known_no_effect"} \/ Said(x).mayContinue)
             => took[x] = {}
       /\ {i \in Said(x).applied : Ask(x).steps[i] # "read"} \subseteq took[x]
       /\ took[x] \subseteq Said(x).applied \union Said(x).uncertain

\* A commit of which nobody knows whether the provider saw it.
Doubtful(x) == Judged(x) /\ \E i \in Said(x).uncertain : Ask(x).steps[i] = "commit"

\* No transaction closes the page that is the evidence of a doubtful commit, its own or another's.
EvidenceIsKept ==
    [][\A t \in live \ live', x \in Txns : txn' # txn => ~(Doubtful(x) /\ txn[x].tab = t)]_vars

\* Once the capsule waits for reconciliation the tab's record does too, and stays with that
\* transaction: nobody else is bound to the page.
DoubtIsOnRecord ==
    \A x \in Txns :
       /\ txn[x].phase = "ended" /\ Doubtful(x)
       /\ capsule[x].state = "reconciliation_required" /\ record[txn[x].tab] # None
       => record[txn[x].tab] = Record(x, "reconciliation_required", "retain_until_resume")

\* docs/PROTOCOL.md:287: no two running transactions are bound to one tab.
OneTransactionPerTab ==
    \A x, y \in Txns :
       x # y /\ Running(x) /\ Running(y) /\ txn[x].tab # None => txn[x].tab # txn[y].tab

\* src/src/broker/broker.mjs:5606: the capsule's effect is the one the receipt reports.
CapsuleAgreesWithReceipt ==
    \A x \in Txns : receipt[x] # None => capsule[x].effect = receipt[x].effect
=============================================================================
