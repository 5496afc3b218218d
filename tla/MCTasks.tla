------------------------------ MODULE MCTasks ------------------------------
(***************************************************************************)
(* A task's transactions, their trusted visual inputs (VisualProof), and   *)
(* the two ways in which an owner goes on after one that failed: its doubt *)
(* is settled (Reconciliation), or it did nothing and its lost target is   *)
(* replaced (TargetRecovery).  A capsule leads to one of these at most and *)
(* the inputs of a step share nothing with the receipts, so a behaviour    *)
(* takes one of the four and leaves the variables of the others alone.  An *)
(* operation of another transaction is in doubt, and a second disturbance  *)
(* happens, beside a plain send only.                                      *)
(***************************************************************************)
EXTENDS MCTaskTransaction, TLC

CONSTANTS Calls, Doubts, DispatchWait, ReadGap, Ttl, MaxTime,
          MaxDisturbances, MaxLosses, \* bounds of the two ways
          MaxProofs, MaxDocuments, MaxLeases, MaxInputs, MaxTurns \* and of the inputs

ASSUME BoundAssumption == MaxProofs \in Nat

VARIABLES
    op, other, doubtful, tabRecord, hasSession, hasLease, page, proof, caller, time, disturbances,
    source, old, busy, recoveryReceipt, recoveryCapsule, creation, wire, created, retrier,
    present, losses,
    document, leased, given, dawn, proofs, signed, spent, expired, stands, doing, under, looked,
    shown, from, to, late, inputs, turns,
    way    \* "runs", "settles", "replaces" or "inputs"

Settlement == INSTANCE Reconciliation WITH
    capsule <- doubtful, record <- tabRecord, live <- hasSession, lease <- hasLease,
    call <- caller, upsets <- disturbances, MaxUpsets <- MaxDisturbances
Replacement == INSTANCE TargetRecovery WITH
    receipt <- recoveryReceipt, capsule <- recoveryCapsule, tabs <- created, call <- retrier,
    live <- present, upsets <- losses, MaxUpsets <- MaxLosses
Visual == INSTANCE VisualProof WITH
    reserved <- leased, proof <- proofs, at <- stands, does <- doing, seen <- looked,
    shot <- shown, upsets <- turns, MaxUpsets <- MaxTurns

doubts == <<op, other, doubtful, tabRecord, hasSession, hasLease, page, proof, caller, time,
            disturbances>>
targets == <<source, old, busy, recoveryReceipt, recoveryCapsule, creation, wire, created,
             retrier, present, losses>>
visuals == <<document, leased, given, dawn, proofs, signed, spent, expired, stands, doing, under,
             looked, shown, from, to, late, inputs, turns>>
Symmetric == Permutations(Calls) \union Permutations(Txns)

\* While one caller looks at its target nobody is in the middle of a step; one proof at most
\* expires.
Alone ==
    /\ Cardinality(expired) <= 1
    /\ \A c, d \in Calls : c # d /\ doing[c] \in Visual!Inspections => stands[d] = "idle"

\* The parts that a behaviour does not take rest in one of their initial states.
MCInit ==
    /\ Init /\ Settlement!Init /\ Replacement!Init /\ Visual!Init
    /\ way \in {"runs", "settles", "replaces", "inputs"}
    /\ way = "settles" \/ doubtful.doubt = CHOOSE d \in Doubts : d # "navigation"
    /\ way = "settles" \/ ~doubtful.rest
    /\ other = "none" \/ (way = "settles" /\ doubtful.doubt = "send" /\ ~doubtful.rest)
    /\ way = "replaces" \/ (source = "unknown" /\ old)
MCNext ==
    \/ way = "runs" /\ Next /\ UNCHANGED <<doubts, targets, visuals, way>>
    \/ /\ way = "settles" /\ Settlement!Next /\ UNCHANGED <<vars, targets, visuals, way>>
       /\ doubtful.rest \/ doubtful.doubt # "send" \/ other # "none" => disturbances' < 2
    \/ way = "replaces" /\ Replacement!Next /\ UNCHANGED <<vars, doubts, visuals, way>>
    \/ way = "inputs" /\ Visual!Next /\ Alone' /\ UNCHANGED <<vars, doubts, targets, way>>
MCSpec == MCInit /\ [][MCNext]_<<vars, doubts, targets, visuals, way>>

SettledOnce == Settlement!SettledOnce
SettlementIsWhole == Settlement!SettlementIsWhole
AdviceAgrees == Settlement!AdviceAgrees
CreatedOnce == Replacement!CreatedOnce
OneInputWhileFresh == Visual!OneInputWhileFresh
AimedAtTheImage == Visual!AimedAtTheImage
=============================================================================
