-------------------------- MODULE MCLedgerJournal --------------------------
(***************************************************************************)
(* What is kept in files so that a killed process leaves them usable: the  *)
(* ledger's checkpoint and journal, and the markers of the setup lock.     *)
(* They share no file and no process, so a behaviour takes one of them.    *)
(***************************************************************************)
EXTENDS LedgerJournal, TLC

CONSTANTS Processes, None

ASSUME LockAssumption == None \notin Processes

VARIABLES work, guard, kernel, alive, node, helper,
          files   \* "ledger" or "lock"

Lock == INSTANCE SetupLock

lock == <<work, guard, kernel, alive, node, helper>>

\* Record keys are interchangeable, and so are processes.
Symmetric == Permutations(Keys) \union Permutations(Processes)

MCInit == Init /\ Lock!Init /\ files \in {"ledger", "lock"}
MCNext ==
    \/ files = "ledger" /\ Next /\ UNCHANGED <<lock, files>>
    \/ files = "lock" /\ Lock!Next /\ UNCHANGED <<vars, files>>
MCSpec == MCInit /\ [][MCNext]_<<vars, lock, files>>

HolderIsMarked == Lock!HolderIsMarked
ReleaseIsTrue == Lock!ReleaseIsTrue
DeadMarkersRecover == Lock!DeadMarkersRecover
=============================================================================
