-------------------------- MODULE TargetRecovery --------------------------
(***************************************************************************)
(* The replacement of a lost target (task.recover_target).  A transaction  *)
(* failed without an effect and its tab is gone; the owner may have one    *)
(* new tab opened for it.  The recovery is a receipt in the ledger, keyed  *)
(* by the failed invocation, a capsule of its own and the creation of a    *)
(* tab, an operation with its own entry; calls may be repeated and may     *)
(* overlap, the owner's session, the Extension or the broker may be lost   *)
(* between any two of their steps.                                         *)
(*                                                                         *)
(* One failed invocation of one task is modelled.  The creation is the     *)
(* operation of module OperationDispatch, reduced to its ledger entry and  *)
(* its command.                                                            *)
(***************************************************************************)
EXTENDS Naturals

CONSTANTS
    Calls,         \* calls of task.recover_target that may be under way at once
    None,
    MaxUpsets      \* losses and restarts, a bound

VARIABLES
    source,     \* the failed operation: "unknown", "no_effect" or "effect"
    old,        \* its tab is still open
    busy,       \* the call with the target's reservation in memory, or None
    receipt,    \* the entry target-recovery:..., "none" before there is one
    capsule,    \* the state of the recovery's capsule
    creation,   \* the entry of the creation of the tab
    wire,       \* its command: "none", "sent", "done", "refused"
    tabs,       \* tabs that were created
    call,       \* [Calls -> the stage of the call]
    live,       \* the calls' session is still there
    upsets

vars == <<source, old, busy, receipt, capsule, creation, wire, tabs, call, live, upsets>>
entries == <<receipt, capsule, creation>>
outside == <<source, old, wire, tabs, live, upsets>>

Init ==
    /\ source \in {"unknown", "no_effect"} /\ old \in BOOLEAN
    /\ busy = None /\ receipt = "none" /\ capsule = "none" /\ creation = "none"
    /\ wire = "none" /\ tabs = 0 /\ call = [c \in Calls |-> "idle"]
    /\ live = {} /\ upsets = 0

Goes(c, stage) == call' = [call EXCEPT ![c] = stage]
Frees(c) == busy' = IF busy = c THEN None ELSE busy
Ends(c) == Goes(c, "idle") /\ Frees(c)

----------------------------------------------------------------------------
(* Up to the receipt.                                                       *)

\* validateTargetRecoverySource: complete history without any effect.
Valid == source = "no_effect"

\* A call that waited for its authority has the target to itself.
Begins(c) ==
    /\ call[c] = "idle" /\ Valid /\ busy = None
    /\ busy' = c /\ live' = live \union {c} /\ Goes(c, "looks")
    /\ UNCHANGED <<source, old, entries, wire, tabs, upsets>>

\* Only a fresh inventory proves absence; the history is validated again.
Looks(c) ==
    /\ call[c] = "looks"
    /\ \/ c \in live /\ ~old /\ Valid /\ Goes(c, "reserves") /\ UNCHANGED busy
       \/ Ends(c)
    /\ UNCHANGED <<entries, outside>>

\* Mutant: a blocked receipt may be replaced.
ReservableAgain == receipt \in {"none", "blocked", "unknown_effect"}

\* reserveTargetRecovery: one receipt for an invocation, for good.
Reservable == receipt = "none"

ReserveJob(c) ==
    /\ call[c] = "reserves"
    /\ IF Reservable
       THEN receipt' = "prepared" /\ Goes(c, "puts") /\ UNCHANGED busy
       ELSE Ends(c) /\ UNCHANGED receipt
    /\ UNCHANGED <<capsule, creation, outside>>
PutJob(c) ==
    /\ call[c] = "puts" /\ capsule' = "executing" /\ Goes(c, "dispatches")
    /\ UNCHANGED <<receipt, creation, busy, outside>>
DispatchJob(c) ==
    /\ call[c] = "dispatches" /\ receipt' = "dispatched" /\ Goes(c, "prepares")
    /\ UNCHANGED <<capsule, creation, busy, outside>>

----------------------------------------------------------------------------
(* The creation of the tab.                                                 *)

PrepareJob(c) ==
    /\ call[c] = "prepares" /\ creation' = "prepared" /\ Goes(c, "sends")
    /\ UNCHANGED <<receipt, capsule, busy, outside>>
\* "dispatched" is in the ledger before the command leaves.
SendJob(c) ==
    /\ call[c] = "sends"
    /\ IF c \in live
       THEN creation' = "dispatched" /\ wire' = "sent" /\ Goes(c, "waits")
       ELSE creation' = "blocked" /\ Goes(c, "fails") /\ UNCHANGED wire
    /\ UNCHANGED <<source, old, busy, receipt, capsule, tabs, live, upsets>>
TabAppears ==
    /\ wire = "sent" /\ wire' = "done" /\ tabs' = tabs + 1
    /\ UNCHANGED <<source, old, busy, entries, call, live, upsets>>
CreationRefused ==
    /\ wire = "sent" /\ wire' = "refused"
    /\ UNCHANGED <<source, old, busy, entries, tabs, call, live, upsets>>
Answered(c) ==
    /\ call[c] = "waits" /\ c \in live /\ wire \in {"done", "refused"}
    /\ IF wire = "done" THEN creation' = "applied" /\ Goes(c, "reads")
                        ELSE creation' = "blocked" /\ Goes(c, "fails")
    /\ UNCHANGED <<receipt, capsule, busy, outside>>
TimesOut(c) ==
    /\ call[c] = "waits" /\ creation' = "unknown_effect" /\ Goes(c, "fails")
    /\ UNCHANGED <<receipt, capsule, busy, outside>>
\* A late refusal may come with the Extension's proof that it did nothing.
LateAnswer ==
    /\ creation = "unknown_effect" /\ wire \in {"done", "refused"}
    /\ \/ creation' = "reconciled"
       \/ wire = "refused" /\ creation' = "disproved"
    /\ UNCHANGED <<receipt, capsule, busy, call, outside>>

----------------------------------------------------------------------------
(* The end, as it went.                                                     *)

\* The new tab is leased and read, its record written, or one of it fails.
ReadsBack(c) ==
    /\ call[c] = "reads"
    /\ \/ c \in live /\ Goes(c, "completes")
       \/ Goes(c, "fails")
    /\ UNCHANGED <<entries, busy, outside>>
CompleteJob(c) ==
    /\ call[c] = "completes" /\ capsule' = "completed" /\ Goes(c, "applies")
    /\ UNCHANGED <<receipt, creation, busy, outside>>
ApplyJob(c) ==
    /\ call[c] = "applies" /\ receipt' = "applied" /\ Ends(c)
    /\ UNCHANGED <<capsule, creation, outside>>

\* Mutant: a creation in doubt that the broker gave up on is none.
SureCreation == creation \in {"dispatched", "reconciled"}

\* The failure is as sure as the entry of the creation.
UncertainCreation == creation \in {"unknown_effect", "dispatched", "reconciled"}

FailJob(c) ==
    /\ call[c] = "fails" /\ Goes(c, "failed")
    /\ receipt' = IF UncertainCreation THEN "unknown_effect"
                  ELSE IF creation = "applied" THEN "applied" ELSE "blocked"
    /\ UNCHANGED <<capsule, creation, busy, outside>>
FailCapsuleJob(c) ==
    /\ call[c] = "failed" /\ Ends(c)
    /\ capsule' = IF receipt = "unknown_effect" THEN "reconciliation_required" ELSE "failed"
    /\ UNCHANGED <<receipt, creation, outside>>

----------------------------------------------------------------------------
(* Around it.                                                               *)

Upset == upsets < MaxUpsets /\ upsets' = upsets + 1

SourceSettles ==
    /\ source = "unknown" /\ source' \in {"no_effect", "effect"}
    /\ UNCHANGED <<old, busy, entries, wire, tabs, call, live, upsets>>
UserCloses ==
    /\ old /\ old' = FALSE
    /\ UNCHANGED <<source, busy, entries, wire, tabs, call, live, upsets>>

\* The session ends, or its Extension is replaced: then the target is free for the sessions
\* of the new generation.
SessionLost(replaced) ==
    /\ Upset /\ live # {} /\ live' = {}
    /\ busy' = IF replaced THEN None ELSE busy
    /\ wire' \in IF replaced /\ wire = "sent" THEN {"sent", "refused"} ELSE {wire}
    /\ UNCHANGED <<source, old, entries, tabs, call>>

\* TaskLedger.load: what was dispatched is in doubt.
Reloaded(state) == IF state = "dispatched" THEN "unknown_effect" ELSE state
BrokerRestarts ==
    /\ Upset /\ live' = {} /\ busy' = None /\ call' = [c \in Calls |-> "idle"]
    /\ receipt' = Reloaded(receipt) /\ creation' = Reloaded(creation)
    /\ UNCHANGED <<source, old, capsule, wire, tabs>>

Next ==
    \/ \E c \in Calls :
          \/ Begins(c) \/ Looks(c) \/ ReserveJob(c) \/ PutJob(c) \/ DispatchJob(c)
          \/ PrepareJob(c) \/ SendJob(c) \/ Answered(c) \/ TimesOut(c) \/ ReadsBack(c)
          \/ CompleteJob(c) \/ ApplyJob(c) \/ FailJob(c) \/ FailCapsuleJob(c)
    \/ TabAppears \/ CreationRefused \/ LateAnswer \/ SourceSettles \/ UserCloses
    \/ \E replaced \in BOOLEAN : SessionLost(replaced)
    \/ BrokerRestarts
Spec == Init /\ [][Next]_vars

----------------------------------------------------------------------------

\* Repeated and overlapping calls, lost answers and restarts open one replacement, and none
\* while the old tab is open or the failed operation may have had an effect.
CreatedOnce == tabs <= 1 /\ (wire # "none" => ~old /\ source = "no_effect")

\* A tab that was opened is never denied: the receipt that every later call is pointed to
\* says applied or unknown (or is still being worked on).
ReceiptAdmitsTab == tabs > 0 => receipt \in {"dispatched", "unknown_effect", "applied"}
=============================================================================
