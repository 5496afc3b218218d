-------------------------- MODULE Reconciliation --------------------------
(***************************************************************************)
(* How a task settles a transaction whose effect is unknown.  A capsule in *)
(* doubt and the operation that put it in doubt are two entries of the     *)
(* ledger; they may be settled by the Extension's late answer, by a page   *)
(* that the owner inspected and that still looks the same, by what the     *)
(* provider lists, by the arrival of a navigation, by an owner-confirmed   *)
(* repair, or ended by the sweep after the owner left.  After a restart of *)
(* the Extension the owner first binds the capsule and its tab to the new  *)
(* generation.                                                             *)
(*                                                                         *)
(* A call checks the capsule, awaits, and then enqueues a ledger job, one  *)
(* step here; most calls write the record of the tab in a second job, from *)
(* a copy that they read earlier.  Sessions, leases, page instances and    *)
(* generations never come back: instead of their names the model keeps, at *)
(* every place that holds one, whether it is still the present one.  A     *)
(* step that only reads, before an await, is joined with the next.         *)
(***************************************************************************)
EXTENDS Naturals, FiniteSets

CONSTANTS
    Calls,         \* calls of the session's client that may be under way at once
    Doubts,        \* explored, of "send", "create", "upload", "navigation" and "inspection"
    None,
    DispatchWait, ReadGap, Ttl,   \* waits, in units of the model's clock
    MaxTime,       \* the clock stops there, a bound
    MaxUpsets      \* events of the environment, a bound

VARIABLES
    op,         \* the operation in doubt: [state, effect, awaited, proven, at]
    other,      \* an operation of another transaction, no navigation: "none", "reconciled",
                \* or in doubt, and where: OfRun, OnTab
    capsule,    \* [doubt, rest, state, effect, why, here, moved, owned, read, at]
    record,     \* the record of the capsule's tab: [life, here, owned, keep, stale]
    live,       \* the task has a session
    lease,      \* the session has the tab's lease
    page,       \* what the tab shows: "nothing" of use, "success", or "arrived" with it
    proof,      \* the present proof that the owner holds: None, "page" or "arrival"
    call,       \* the calls under way: [at, nav, kept, tab, grip]
    time, upsets

vars == <<op, other, capsule, record, live, lease, page, proof, call, time, upsets>>
ledger == <<op, other, capsule, record>>
world == <<live, lease, page, proof, time, upsets>>

Idle == [at |-> "idle", nav |-> FALSE, kept |-> FALSE, tab |-> None, grip |-> None]
NoOperation == [state |-> "none", effect |-> "known_no_effect", awaited |-> FALSE,
                proven |-> FALSE, at |-> 0]
\* Of the run, on the capsule's tab ("here") or on another one; or an old one of another task on
\* the capsule's tab ("foreign").  What names no tab counts as on it.
OfRun == {"here", "elsewhere"}
OnTab == {"here", "foreign"}
InDoubt == [state |-> "unknown_effect", effect |-> "unknown_effect", awaited |-> TRUE,
            proven |-> FALSE, at |-> 0]

\* An older release recorded an uncertain navigation as a failed capsule ("local").
Init ==
    /\ \E d \in Doubts, rest \in BOOLEAN, legacy \in BOOLEAN :
          /\ legacy => d = "navigation"
          /\ rest => d \in {"send", "upload"}
          /\ capsule = [doubt |-> d, rest |-> rest,
                        state |-> IF legacy THEN "failed" ELSE "reconciliation_required",
                        effect |-> "unknown_effect", why |-> IF legacy THEN "local" ELSE "pending",
                        here |-> TRUE, moved |-> FALSE, owned |-> TRUE, read |-> None, at |-> 0]
          /\ record = [life |-> IF legacy THEN "failed" ELSE "reconciliation_required",
                       here |-> TRUE, owned |-> TRUE, keep |-> "retain_until_resume",
                       stale |-> FALSE]
          /\ op = IF d = "inspection" THEN NoOperation ELSE InDoubt
    /\ other \in {"none"} \union OfRun \union OnTab
    /\ live = TRUE /\ lease = TRUE /\ page = "nothing" /\ proof = None
    /\ call = [c \in Calls |-> Idle] /\ time = 0 /\ upsets = 0

----------------------------------------------------------------------------
(* What the ledger says.                                                    *)

Unresolved == op.effect = "unknown_effect"
Uncertain == capsule.state = "reconciliation_required"

\* isLocalNavigationReconciliationCapsule and #localNavigationReconciliationOperation.
LocalCapsule ==
    /\ capsule.doubt = "navigation" /\ capsule.effect = "unknown_effect"
    /\ Uncertain \/ (capsule.state = "failed" /\ capsule.why = "local")
NavigationApplies == LocalCapsule /\ Unresolved

\* Mutant: what a capsule can settle is looked up with the generation it is bound to.
SettledIfInGeneration(effect) ==
    IF Unresolved /\ ~capsule.moved
    THEN [op EXCEPT !.state = "reconciled", !.effect = effect, !.at = 0] ELSE op

\* What a settlement writes; the times of what is settled are not read again.
Becomes(state, effect, why) ==
    [capsule EXCEPT !.state = state, !.effect = effect, !.why = why, !.read = None, !.at = 0]
Settled(effect) == [op EXCEPT !.state = "reconciled", !.effect = effect, !.at = 0]
SettledIfUnresolved(effect) == IF Unresolved THEN Settled(effect) ELSE op

\* #requireTaskReconciliationBinding: the owner's session, with the lease of the capsule's
\* tab, in the capsule's generation, and the capsule in doubt.
Bound ==
    /\ live /\ lease /\ capsule.here /\ capsule.doubt # "create"
    /\ IF LocalCapsule THEN NavigationApplies ELSE Uncertain

Starts(c, entry) == call[c] = Idle /\ call' = [call EXCEPT ![c] = entry]
Ends(c) == call' = [call EXCEPT ![c] = Idle]
Refused(c) ==    \* an await fails, or the proof has expired
    /\ call[c].at = "reads" /\ Ends(c) /\ UNCHANGED <<ledger, world>>

----------------------------------------------------------------------------
(* Inspection and completion from the page.                                 *)

\* The page shows what the owner asked for (an upload: every assigned file,
\* #readUploadConfirmationFiles), and the recorded target was reached (#navigationArrived).
PageConfirms(nav) == page = "arrived" \/ (page = "success" /\ ~nav)

Inspects ==
    /\ Bound /\ PageConfirms(NavigationApplies)
    /\ proof' = IF NavigationApplies THEN "arrival" ELSE "page"
    /\ UNCHANGED <<ledger, live, lease, page, call, time, upsets>>

\* The proof is of this binding and its kind, and not used; the call keeps the tab's record.
Completes(c) ==
    /\ Bound /\ proof = IF NavigationApplies THEN "arrival" ELSE "page"
    /\ Starts(c, [Idle EXCEPT !.at = "reads", !.nav = NavigationApplies, !.kept = TRUE,
                              !.tab = record])
    /\ UNCHANGED <<ledger, world>>

\* completeTaskReconciliation, local_navigation_arrival: the capsule stays a failure and
\* keeps its tab while the run has other doubts.
CompleteNavigation ==
    /\ op' = Settled("known_effect")
    /\ capsule' = Becomes("failed", "known_effect",
                          IF other \in OfRun THEN "pending" ELSE "none")

\* completeTaskReconciliation, otherwise: the unresolved operation of the invocation on the
\* capsule's tab and the capsule, in one write.
KeepsWorkflow == capsule.rest \/ capsule.doubt = "upload"
CompleteTask ==
    /\ op' = SettledIfUnresolved("known_effect")
    /\ capsule' = IF KeepsWorkflow THEN Becomes("failed", "known_effect", "partial")
                  ELSE Becomes("completed", "known_effect", "none")

\* The page still looks as inspected (its loss ends the call): the proof is used up and the
\* job runs, if the capsule is still in doubt.
ReadBack(c) ==
    /\ call[c].at = "reads" /\ PageConfirms(call[c].nav)
    /\ proof' = None
    /\ IF IF call[c].nav THEN NavigationApplies ELSE Uncertain
       THEN /\ IF call[c].nav THEN CompleteNavigation ELSE CompleteTask
            /\ call' = [call EXCEPT ![c].at = "record"]
       ELSE Ends(c) /\ UNCHANGED <<op, capsule>>
    /\ UNCHANGED <<other, record, live, lease, page, time, upsets>>

\* The second job of a completion or settlement: the copy of the record, brought up to date
\* in what the settlement changes.
RecordJob(c) ==
    /\ call[c].at = "record"
    /\ record' = IF capsule.doubt = "create" THEN record ELSE
         [call[c].tab EXCEPT
            !.life = IF call[c].nav THEN "failed" ELSE capsule.state,
            !.keep = IF capsule.effect = "known_no_effect" \/ (call[c].nav /\ capsule.why = "none")
                     THEN "cleanup"
                     ELSE IF call[c].kept /\ (call[c].nav \/ KeepsWorkflow)
                     THEN "retain_until_resume" ELSE "retain"]
    /\ Ends(c)
    /\ UNCHANGED <<op, other, capsule, world>>

----------------------------------------------------------------------------
(* Settlement from what the provider lists.  The MCP server reads the list  *)
(* in a tab of its own and says whether the item was there.                 *)

SettlesAsFound(c) ==
    /\ live /\ Uncertain /\ Starts(c, [Idle EXCEPT !.at = "found"])
    /\ UNCHANGED <<ledger, world>>
FoundJob(c) ==
    /\ call[c].at = "found"
    /\ IF Uncertain
       THEN CompleteTask /\ call' = [call EXCEPT ![c].at = "record", ![c].tab = record]
       ELSE Ends(c) /\ UNCHANGED <<op, capsule>>
    /\ UNCHANGED <<other, record, world>>

\* recordProviderAbsence, and the broker's decision on what it returned: two reads far
\* enough apart, long enough after the dispatch (or the last change of the operation).
DispatchedAt == IF Unresolved THEN op.at ELSE capsule.at
AbsenceJob(c) ==
    /\ live /\ Uncertain
    /\ IF /\ capsule.read # None /\ time >= capsule.read + ReadGap
          /\ time >= DispatchedAt + DispatchWait
       THEN Starts(c, [Idle EXCEPT !.at = "not_sent"]) /\ UNCHANGED capsule
       ELSE /\ call[c] = Idle
            /\ capsule' = [capsule EXCEPT !.read = IF @ = None THEN time ELSE @]
            /\ UNCHANGED call
    /\ UNCHANGED <<op, other, record, world>>

\* Mutant: the job trusts the check that was made before it was enqueued.
NotSentJobUnchecked(c) ==
    /\ call[c].at = "not_sent"
    /\ op' = SettledIfUnresolved("known_no_effect")
    /\ capsule' = Becomes("failed", "known_no_effect", "none")
    /\ call' = [call EXCEPT ![c].at = "record", ![c].tab = record]
    /\ UNCHANGED <<other, record, world>>

\* settleNotSentFromEvidence.
NotSentJob(c) ==
    /\ call[c].at = "not_sent"
    /\ IF Uncertain
       THEN /\ op' = SettledIfUnresolved("known_no_effect")
            /\ capsule' = Becomes("failed", "known_no_effect", "none")
            /\ call' = [call EXCEPT ![c].at = "record", ![c].tab = record]
       ELSE Ends(c) /\ UNCHANGED <<op, capsule>>
    /\ UNCHANGED <<other, record, world>>

----------------------------------------------------------------------------
(* A capsule and its tab after a restart of the Extension.                  *)

\* #rebindTaskReconciliation, up to the lease that it takes: the tab is still open, in the
\* capsule's origins, and the authority is consumed.
Rebinds(c) ==
    /\ live /\ Uncertain /\ capsule.doubt # "create" /\ ~capsule.here
    /\ ~record.here /\ record.stale
    /\ lease' = TRUE
    /\ Starts(c, [Idle EXCEPT !.at = "rebind_record", !.tab = record, !.grip = "lease"])
    /\ UNCHANGED <<ledger, live, page, proof, time, upsets>>

\* The record and the capsule get the generation and the session of the call.
RebindRecordJob(c) ==
    /\ call[c].at = "rebind_record"
    /\ record' = [call[c].tab EXCEPT
                    !.life = "reconciliation_required", !.stale = FALSE,
                    !.here = call[c].grip # "nothing",
                    !.owned = call[c].grip \in {"lease", "session"}]
    /\ call' = [call EXCEPT ![c].at = "rebind_capsule", ![c].tab = None]
    /\ UNCHANGED <<op, other, capsule, world>>

RebindCapsuleJob(c) ==
    /\ call[c].at = "rebind_capsule"
    /\ IF Uncertain
       THEN /\ capsule' = [capsule EXCEPT
                             !.here = call[c].grip # "nothing", !.moved = TRUE, !.at = time,
                             !.owned = call[c].grip \in {"lease", "session"}]
            /\ UNCHANGED lease
       ELSE lease' = (lease /\ call[c].grip # "lease") /\ UNCHANGED capsule
    /\ Ends(c)
    /\ UNCHANGED <<op, other, record, live, page, proof, time, upsets>>

----------------------------------------------------------------------------
(* The other ways out of a doubt, and the owner's book-keeping.             *)

\* TaskLedger.reconcile, from a late answer: a settlement that is there is immutable.
LateAnswer(effect) ==
    /\ op.awaited
    /\ op' = IF op.state = "unknown_effect"
             THEN [Settled(effect) EXCEPT !.awaited = FALSE, !.proven = effect = "known_no_effect"]
             ELSE [op EXCEPT !.awaited = FALSE]
    /\ UNCHANGED <<other, capsule, record, call, world>>

\* terminalizeOrphanedReconciliations, from the sweep: the effect stays unknown.
Terminalizes ==
    /\ Uncertain /\ ~capsule.owned /\ time >= capsule.at + Ttl
    /\ capsule.doubt = "create" \/ (~record.owned /\ ~lease)
    /\ capsule' = Becomes("failed", "unknown_effect", "none")
    /\ record' = IF capsule.doubt = "create" THEN record
                 ELSE [record EXCEPT !.keep = "ledger_only"]
    /\ UNCHANGED <<op, other, call, world>>

\* #repairPreDispatchReadonly: an inspection timed out before anything was dispatched.
Repairs ==
    /\ live /\ capsule.here /\ record.here /\ ~record.stale
    /\ Uncertain /\ capsule.doubt = "inspection"
    /\ record.life = "reconciliation_required" /\ record.keep = "retain_until_resume"
    /\ op.state \in {"none", "purged"} /\ other \in {"none", "foreign"}
    /\ capsule' = Becomes("failed", capsule.effect, "none")
    /\ record' = [record EXCEPT !.life = "failed", !.keep = "cleanup"]
    /\ UNCHANGED <<op, other, call, world>>

\* archiveOperations hides an unresolved operation from the operator's list, and renews its
\* time; purgeOwnedOperations deletes one that is settled.
Archives ==
    /\ live /\ Unresolved /\ op.at = 0
    /\ op' = [op EXCEPT !.at = time]
    /\ UNCHANGED <<other, capsule, record, call, world>>
Purges ==
    /\ live /\ op.state = "reconciled"
    /\ op' = [NoOperation EXCEPT !.state = "purged"]
    /\ UNCHANGED <<other, capsule, record, call, world>>

----------------------------------------------------------------------------
(* Around it: the client, the page, the Extension, the broker and the clock. *)

Upset == upsets < MaxUpsets /\ upsets' = upsets + 1

\* What a call holds from a lease, a session or a generation that is gone.
Lost(what) == [c \in Calls |->
    IF call[c].at = "reads" THEN Idle
    ELSE [call[c] EXCEPT
            !.grip = IF @ = None THEN None
                     ELSE IF what = "generation" THEN "nothing"
                     ELSE IF what = "session" /\ @ # "nothing" THEN "generation"
                     ELSE IF what = "lease" /\ @ = "lease" THEN "session" ELSE @,
            !.tab = IF @ = None \/ what = "lease" THEN @
                    ELSE [@ EXCEPT !.owned = FALSE,
                                   !.here = @ /\ what # "generation"]]]

NoSession ==
    /\ live' = FALSE /\ lease' = FALSE /\ proof' = None
    /\ capsule' = [capsule EXCEPT !.owned = FALSE]

Reserves ==
    /\ live /\ ~lease /\ lease' = TRUE
    /\ UNCHANGED <<ledger, live, page, proof, call, time, upsets>>
Releases ==
    /\ lease /\ lease' = FALSE /\ proof' = None /\ call' = Lost("lease") /\ Upset
    /\ UNCHANGED <<ledger, live, page, time>>
OpensSession ==
    /\ ~live /\ live' = TRUE
    /\ UNCHANGED <<ledger, lease, page, proof, call, time, upsets>>
EndsSession ==
    /\ live /\ Upset /\ NoSession /\ call' = Lost("session")
    /\ record' = [record EXCEPT !.owned = FALSE]
    /\ UNCHANGED <<op, other, page, time>>

\* The sessions of the old generation go, and its task tabs are quarantined.
ExtensionRestarts ==
    /\ Upset
    /\ live' = FALSE /\ lease' = FALSE /\ proof' = None /\ call' = Lost("generation")
    /\ capsule' = [capsule EXCEPT !.owned = FALSE, !.here = FALSE]
    /\ record' = [record EXCEPT !.owned = FALSE, !.here = FALSE, !.stale = TRUE]
    /\ op' = [op EXCEPT !.awaited = FALSE]
    /\ UNCHANGED <<other, page, time>>
BrokerRestarts ==
    /\ Upset /\ NoSession /\ call' = [c \in Calls |-> Idle]
    /\ record' = [record EXCEPT !.owned = FALSE]
    /\ op' = [op EXCEPT !.awaited = FALSE]
    /\ UNCHANGED <<other, page, time>>

PageShows(what) ==
    /\ page = "nothing" /\ (what = "arrived" => capsule.doubt = "navigation")
    /\ page' = what
    /\ UNCHANGED <<ledger, live, lease, proof, call, time, upsets>>
PageReloads ==
    /\ page # "nothing" /\ Upset /\ page' = "nothing" /\ proof' = None
    /\ call' = [c \in Calls |-> IF call[c].at = "reads" THEN Idle ELSE call[c]]
    /\ UNCHANGED <<ledger, live, lease, time>>

\* Another transaction of the run gets into doubt; another transaction gets out of it.
OtherInDoubt ==
    /\ other = "none" /\ live /\ Upset /\ other' \in OfRun
    /\ UNCHANGED <<op, capsule, record, live, lease, page, proof, call, time>>
OtherSettles ==
    /\ other \in OfRun \union OnTab
    /\ other' = IF other \in OfRun THEN "reconciled" ELSE "none"
    /\ UNCHANGED <<op, capsule, record, call, world>>
Ticks ==
    /\ time < MaxTime /\ time' = time + 1
    /\ UNCHANGED <<ledger, live, lease, page, proof, call, upsets>>

CallNext(c) ==
    \/ Completes(c) \/ ReadBack(c) \/ RecordJob(c) \/ Refused(c)
    \/ SettlesAsFound(c) \/ FoundJob(c) \/ AbsenceJob(c) \/ NotSentJob(c)
    \/ Rebinds(c) \/ RebindRecordJob(c) \/ RebindCapsuleJob(c)
Next ==
    \/ \E c \in Calls : CallNext(c)
    \/ \E effect \in {"known_effect", "known_no_effect"} : LateAnswer(effect)
    \/ Inspects \/ Repairs \/ Archives \/ Purges \/ Terminalizes
    \/ Reserves \/ Releases \/ OpensSession \/ EndsSession
    \/ ExtensionRestarts \/ BrokerRestarts \/ PageReloads
    \/ OtherInDoubt \/ OtherSettles \/ Ticks
    \/ \E what \in {"success", "arrived"} : PageShows(what)
Spec == Init /\ [][Next]_vars

----------------------------------------------------------------------------
(* What the owner is told.                                                  *)

\* capsuleNoEffectSettlement: the broker's own proof that the failed step did nothing, of
\* the session and generation that the capsule was made in.
NoEffectProven ==
    /\ capsule.state \in {"failed", "reconciliation_required"} /\ capsule.effect = "unknown_effect"
    /\ op.state = "reconciled" /\ op.proven /\ other \notin OfRun /\ ~capsule.moved
EffectState == IF NoEffectProven THEN "known_no_effect" ELSE capsule.effect
ArrivalSettled ==
    capsule.doubt = "navigation" /\ capsule.state = "failed" /\ capsule.effect = "known_effect"

\* #prepareResume, targetUnresolved: what is in doubt on the tab that would be resumed, whoever
\* owns it.  A creation in doubt has no tab, and the whole run counts.
TargetUnresolved ==
    Unresolved \/ (other \in IF capsule.doubt = "create" THEN OfRun ELSE OnTab)

\* #prepareResume: "ready", for the owner's session.
ResumeReady ==
    /\ live /\ (capsule.doubt = "create" \/ (record.here /\ ~record.stale))
    /\ ~TargetUnresolved /\ EffectState # "unknown_effect" /\ ~ArrivalSettled

\* #taskStatus, unresolvedEffects: what is in doubt in the task and run, on any tab.
UnresolvedEffects == Unresolved \/ other \in OfRun

\* Mutant: the status does not know the broker's own proof that nothing was done.
UndecidedDespiteProof == Uncertain

\* #taskStatus: continuation_allowed.
Undecided == Uncertain /\ ~NoEffectProven
ContinuationAllowed ==
    /\ capsule.state # "completed" /\ ~ArrivalSettled /\ ~Undecided
    /\ ~UnresolvedEffects /\ EffectState # "unknown_effect"

----------------------------------------------------------------------------
(* Properties.                                                              *)

\* Several calls, a late answer and the sweep may all hold the same doubt for open: whatever
\* settled the operation, or the capsule, first is final (the checks before the awaits are
\* repeated in the jobs of completeTaskReconciliation, settleNotSentFromEvidence, reconcile).
SettledOnce ==
    [][/\ op.state = "reconciled" =>
            op'.state = "purged" \/ (op'.state = "reconciled" /\ op'.effect = op.effect)
       /\ capsule.effect # "unknown_effect" =>
            capsule'.effect = capsule.effect /\ capsule'.state = capsule.state]_vars

\* A settled capsule leaves no operation of its invocation in doubt, also after the capsule
\* and its tab moved to another generation: nothing else would ever settle it.
SettlementIsWhole == capsule.effect # "unknown_effect" => ~Unresolved

\* The two answers that tell an owner whether to go on are computed apart, #prepareResume from
\* the tab and #taskStatus from the task and run.  While a resume is ready the status allows to
\* go on as well, with one exception that is meant: the run has a doubt on another tab.
AdviceAgrees ==
    ResumeReady /\ capsule.state # "completed" => (ContinuationAllowed <=> other # "elsewhere")
=============================================================================
