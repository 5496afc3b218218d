----------------------------- MODULE SetupLock -----------------------------
(***************************************************************************)
(* The lock of setup and of control-plane synchronisation.  A process of   *)
(* Node that wants it spawns a one-shot helper, which takes the kernel's   *)
(* lock on a coordinator file and, under it, moves two marker files: the   *)
(* work marker, which is the lease, and the guard, which is there while a  *)
(* transaction moves the work marker.  Helpers and processes may be killed *)
(* between any two of their steps; a process that got no good answer asks  *)
(* with another helper what became of its own transaction.                 *)
(*                                                                         *)
(* A process asks for the lock once, as every entry point does.  Markers   *)
(* name their process and their transaction exactly, so a marker is here   *)
(* the process, and a guard the process and the transaction.  A helper     *)
(* looks whether its process lives before every step; a step that slips in *)
(* after the death has the outcome of one just before it.  Staging files,  *)
(* path and inode checks, older marker formats and the operator's          *)
(* maintenance are left out.                                               *)
(***************************************************************************)
EXTENDS Naturals

CONSTANTS Processes, None

VARIABLES
    work,     \* None or the process in the work marker
    guard,    \* None or [process, transaction]
    kernel,   \* the process whose helper has the coordinator's lock, or None
    alive,    \* the processes that are running
    node,     \* what each process does; see Stages
    helper    \* its helper: [at, says], says "unknown" until it has an answer

vars == <<work, guard, kernel, alive, node, helper>>

\* acquire, its two inspections; release, its two inspections; and how it ended.
Transactions == {"acquires", "checks", "rereads", "releases", "verifies", "confirms"}
Stages == Transactions \union {"idle", "holds", "released", "retained", "blocked"}

Gone(says) == [at |-> "gone", says |-> says]

Init ==
    /\ work = None /\ guard = None /\ kernel = None
    /\ alive = Processes
    /\ node = [p \in Processes |-> "idle"]
    /\ helper = [p \in Processes |-> Gone("unknown")]

----------------------------------------------------------------------------
(* A helper's steps.  Each needs its process alive (parent_alive).          *)

At(p, where) == p \in alive /\ helper[p].at = where
Goes(p, where) == helper' = [helper EXCEPT ![p].at = where]
Says(p, what) == helper' = [helper EXCEPT ![p] = [at |-> "answers", says |-> what]]
MyGuard(p, transaction) == guard = [process |-> p, transaction |-> transaction]

\* A bounded wait for the kernel's lock.
Locks(p) ==
    /\ At(p, "waits") /\ kernel = None /\ kernel' = p /\ Goes(p, "looks")
    /\ UNCHANGED <<work, guard, alive, node>>
Busy(p) ==
    /\ At(p, "waits") /\ kernel # None /\ Says(p, "no")
    /\ UNCHANGED <<work, guard, kernel, alive, node>>

\* Mutant: a marker of an earlier owner is replaced whether or not the owner lives.
OwnerMayBeReplaced == TRUE

\* work_blocker: only the marker of a dead owner may be replaced.
OwnerGone == work = None \/ work \notin alive

\* A guard without a living helper goes away if it belongs to the work marker, and its
\* process is dead or releases its own lease.
HelperGone == helper[guard.process].at = "gone" \/ node[guard.process] # guard.transaction
GuardClears(p) ==
    /\ HelperGone
    /\ work = None \/ work = guard.process
    /\ guard.process \notin alive \/ (node[p] = "releases" /\ guard.process = p)

\* acquire and release: a release must find its own lease before it touches anything.
Looks(p) ==
    /\ At(p, "looks") /\ node[p] \in {"acquires", "releases"}
    /\ IF node[p] = "releases" /\ work # p THEN Says(p, "no") /\ UNCHANGED guard
       ELSE IF guard # None
       THEN IF GuardClears(p) THEN guard' = None /\ UNCHANGED helper
            ELSE Says(p, "no") /\ UNCHANGED guard
       ELSE /\ IF node[p] = "releases" \/ OwnerGone THEN Goes(p, "guards") ELSE Says(p, "no")
            /\ UNCHANGED guard
    /\ UNCHANGED <<work, kernel, alive, node>>

\* write_new: the marker is linked into place, whole.
PutsGuard(p) ==
    /\ At(p, "guards") /\ guard' = [process |-> p, transaction |-> node[p]]
    /\ Goes(p, IF work = None THEN "works" ELSE "removes")
    /\ UNCHANGED <<work, kernel, alive, node>>
RemovesWork(p) ==
    /\ At(p, "removes") /\ work' = None
    /\ Goes(p, IF node[p] = "acquires" THEN "works" ELSE "unguards")
    /\ UNCHANGED <<guard, kernel, alive, node>>
PutsWork(p) ==
    /\ At(p, "works") /\ work' = p /\ Goes(p, "unguards")
    /\ UNCHANGED <<guard, kernel, alive, node>>
RemovesGuard(p) ==
    /\ At(p, "unguards") /\ guard' = None
    /\ Says(p, IF node[p] = "checks" THEN "no" ELSE "yes")
    /\ UNCHANGED <<work, kernel, alive, node>>

\* Mutant: the inspection takes any work marker beside its own guard for its own commit.
CommittedAny(p) == (guard = None \/ MyGuard(p, "acquires")) /\ work # None

\* inspect with reconcileAcquire: only the original commit counts; without one, the
\* original guard is cleared, unless the inspection may only read.
Committed(p) == (guard = None \/ MyGuard(p, "acquires")) /\ work = p

Checks(p) ==
    /\ At(p, "looks") /\ node[p] \in {"checks", "rereads"}
    /\ IF Committed(p) THEN Says(p, "yes")
       ELSE IF MyGuard(p, "acquires") /\ work = None /\ node[p] = "checks"
       THEN Goes(p, "unguards")
       ELSE Says(p, "no")
    /\ UNCHANGED <<work, guard, kernel, alive, node>>

\* inspect with reconcileRelease: what is left of the original release is finished.
Verifies(p) ==
    /\ At(p, "looks") /\ node[p] = "verifies"
    /\ IF (guard = None \/ MyGuard(p, "releases")) /\ work \in {None, p}
       THEN IF work = p THEN Goes(p, "removes")
            ELSE IF guard # None THEN Goes(p, "unguards") ELSE Says(p, "yes")
       ELSE Says(p, "no")
    /\ UNCHANGED <<work, guard, kernel, alive, node>>

\* Mutant: the absence of the work marker is taken for the end of the release.
NothingOfWork == work = None

\* inspect with verifyReleaseAbsence.
NothingLeft == work = None /\ guard = None

Confirms(p) ==
    /\ At(p, "looks") /\ node[p] = "confirms"
    /\ Says(p, IF NothingLeft THEN "yes" ELSE "no")
    /\ UNCHANGED <<work, guard, kernel, alive, node>>

\* A step fails.  The helper tries to take its own guard back, and says no.
Errs(p) ==
    /\ p \in alive /\ kernel = p /\ helper[p].at # "answers"
    /\ guard' \in {guard} \union IF MyGuard(p, node[p]) THEN {None} ELSE {}
    /\ Says(p, "no")
    /\ UNCHANGED <<work, kernel, alive, node>>

\* The helper is killed, by its process after a timeout or by anyone, or it finds its
\* process dead; the kernel frees its lock.
Frees(p) == kernel' = IF kernel = p THEN None ELSE kernel
HelperLost(p) ==
    /\ helper[p].at # "gone" /\ helper' = [helper EXCEPT ![p] = Gone("unknown")] /\ Frees(p)
    /\ UNCHANGED <<work, guard, alive, node>>
Answers(p) ==
    /\ At(p, "answers") /\ helper' = [helper EXCEPT ![p] = Gone(@.says)] /\ Frees(p)
    /\ UNCHANGED <<work, guard, alive, node>>

----------------------------------------------------------------------------
(* A process of Node: companionLockTransaction.                             *)

Spawns(p, transaction) ==
    /\ node' = [node EXCEPT ![p] = transaction]
    /\ helper' = [helper EXCEPT ![p] = [at |-> "waits", says |-> "unknown"]]
Becomes(p, stage) == node' = [node EXCEPT ![p] = stage] /\ UNCHANGED helper
Heard(p, transaction) == p \in alive /\ node[p] = transaction /\ helper[p].at = "gone"

Wants(p) ==
    /\ p \in alive /\ node[p] = "idle" /\ Spawns(p, "acquires")
    /\ UNCHANGED <<work, guard, kernel, alive>>

\* The original commit, recovered, is the lease; only an unknown answer is asked for again.
AcquireEnds(p) ==
    /\ \/ Heard(p, "acquires") /\ IF helper[p].says = "yes" THEN Becomes(p, "holds")
                                  ELSE Spawns(p, "checks")
       \/ Heard(p, "checks") /\ IF helper[p].says = "yes" THEN Becomes(p, "holds")
                                ELSE IF helper[p].says = "unknown" THEN Spawns(p, "rereads")
                                ELSE Becomes(p, "blocked")
       \/ Heard(p, "rereads") /\ Becomes(p, IF helper[p].says = "yes" THEN "holds" ELSE "blocked")
    /\ UNCHANGED <<work, guard, kernel, alive>>

\* The finally block of the protected work.
Releases(p) ==
    /\ p \in alive /\ node[p] = "holds" /\ Spawns(p, "releases")
    /\ UNCHANGED <<work, guard, kernel, alive>>
ReleaseEnds(p) ==
    /\ \/ Heard(p, "releases") /\ IF helper[p].says = "yes" THEN Becomes(p, "released")
                                  ELSE Spawns(p, "verifies")
       \/ Heard(p, "verifies") /\ IF helper[p].says = "yes" THEN Becomes(p, "released")
                                  ELSE IF helper[p].says = "unknown" THEN Spawns(p, "confirms")
                                  ELSE Becomes(p, "retained")
       \/ Heard(p, "confirms") /\ Becomes(p, IF helper[p].says = "yes" THEN "released"
                                            ELSE "retained")
    /\ UNCHANGED <<work, guard, kernel, alive>>

\* It exits or is killed.
Dies(p) ==
    /\ p \in alive /\ alive' = alive \ {p}
    /\ UNCHANGED <<work, guard, kernel, node, helper>>

Next ==
    \E p \in Processes :
        \/ Locks(p) \/ Busy(p) \/ Looks(p) \/ PutsGuard(p) \/ RemovesWork(p) \/ PutsWork(p)
        \/ RemovesGuard(p) \/ Checks(p) \/ Verifies(p) \/ Confirms(p) \/ Errs(p)
        \/ HelperLost(p) \/ Answers(p)
        \/ Wants(p) \/ AcquireEnds(p) \/ Releases(p) \/ ReleaseEnds(p) \/ Dies(p)
Spec == Init /\ [][Next]_vars

----------------------------------------------------------------------------

\* Two processes never work under the lock at once: whoever holds it has its own marker in
\* place, through lost helpers, recovered commits and the replacement of dead owners.
HolderIsMarked == \A p \in alive : node[p] = "holds" => work = p

\* A process that is told "released" has left nothing that could block or mislead another.
ReleaseIsTrue ==
    \A p \in Processes :
        node[p] = "released" => work # p /\ (guard # None => guard.process # p)

\* Markers of dead owners alone never lock everyone out
\* (setup-lifecycle-recovery.test.mjs:58, "only valid dead v2 markers recover").
DeadMarkersRecover ==
    (\A p \in Processes : p \in alive => node[p] = "idle")
        => OwnerGone /\ \A p \in alive : guard # None /\ kernel = None => GuardClears(p)
=============================================================================
