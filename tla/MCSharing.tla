----------------------------- MODULE MCSharing -----------------------------
(***************************************************************************)
(* What several operations share: the broker's slots, and in the Extension *)
(* the debugger of a tab.  A behaviour takes one of them; the users of the *)
(* debugger are named like the requests.                                   *)
(***************************************************************************)
EXTENDS MCOperationDispatch

CONSTANTS None, MaxStates

ASSUME NobodyAssumption == None \notin Requests

VARIABLES
    attached, metrics, calls, news, mode, refs, holder, stage, kind, grip, active, dialog, view,
    flags,
    shares    \* "slots" or "debugger"

Debugger == INSTANCE PageDebugger WITH
    Calls <- Requests, target <- holder, pc <- stage, lease <- grip

debugger == <<attached, metrics, calls, news, mode, refs, holder, stage, kind, grip, active,
              dialog, view, flags>>

MCInit ==
    /\ Init /\ Debugger!Init /\ shares \in {"slots", "debugger"}
    /\ shares = "debugger" \/ \A r \in Requests : kind[r] = "read"
MCNext ==
    \/ shares = "slots" /\ Next /\ UNCHANGED <<debugger, shares>>
    \/ shares = "debugger" /\ Debugger!Next /\ UNCHANGED <<vars, shares>>
MCSpec == MCInit /\ [][MCNext]_<<vars, debugger, shares>>

NobodyLosesTheDebugger == Debugger!NobodyLosesTheDebugger
NothingLeaks == Debugger!NothingLeaks
=============================================================================
