------------------------------ MODULE Recording ------------------------------
(***************************************************************************)
(* Recording a task's tab: the tool in the MCP process, the recording      *)
(* window that the Extension keeps free of other pages, and the recorder   *)
(* that the native host runs.  A recording into which something else got   *)
(* must never be offered for analysis, and the three parts fail apart: an  *)
(* answer is lost, the worker dies and takes its host along, a process     *)
(* ends, a window expires, two recordings begin at once.                   *)
(*                                                                         *)
(* A call records a tab of its own, in a process of its own or in one that *)
(* it shares.  The tab's first window stays open.  What happens while the  *)
(* worker is down, or has not read its storage again, is not heard (nor    *)
(* called dirty here).  Devices in use, focus, playing the media, taking   *)
(* the movie apart and the tab recorder of the popup are left out.         *)
(***************************************************************************)
EXTENDS Naturals, FiniteSets

CONSTANTS Calls, None,
          MaxUpsets \* bound: failures

VARIABLES
    shared,         \* are the calls in one process
    pc,             \* companion_record_start and finishRecording
    active,         \* the processes' activeRecording
    closing,        \* processes that shut down
    state, saved,   \* recording-window.js: [of, tainted] or None, and its copy in storage
    worker,         \* "up", "down" or "restoring"
    isolating,      \* calls whose isolate is past its check
    alone,          \* calls whose tab is in a recording window
    spawning,       \* calls whose start is past its check, in the native host
    control,        \* the controller's active: a call's recorder or None
    recorder,       \* "none", "recording" or "stopped", of each call
    ended,          \* what the end of the window told: "clean", "tainted" or "unknown"
    result,         \* "none", "usable" or "blocked"
    dirty,          \* calls into whose recording something else got
    upsets

mcpVars == <<shared, pc, active, closing, ended, result>>
windowVars == <<state, saved, worker, isolating, alone, dirty>>
hostVars == <<spawning, control, recorder>>
vars == <<mcpVars, windowVars, hostVars, upsets>>

Process(c) == IF shared THEN "p" ELSE c
Processes == {Process(c) : c \in Calls}

Init ==
    /\ shared \in BOOLEAN /\ pc = [c \in Calls |-> "idle"]
    /\ active = [p \in Calls \union {"p"} |-> None] /\ closing = {}
    /\ state = None /\ saved = None /\ worker = "up" /\ isolating = {} /\ alone = {}
    /\ spawning = {} /\ control = None /\ recorder = [c \in Calls |-> "none"]
    /\ ended = [c \in Calls |-> "unknown"] /\ result = [c \in Calls |-> "none"]
    /\ dirty = {} /\ upsets = 0

Upset == upsets < MaxUpsets /\ upsets' = upsets + 1
Calm == UNCHANGED upsets
Goes(c, where) == pc' = [pc EXCEPT ![c] = where]

----------------------------------------------------------------------------
(* The recording window                                                     *)

Keeps(s) == state' = s /\ saved' = s
Held(c) == IF state = None THEN FALSE ELSE state.of = c

\* isolate: the check, and after several awaits the window and its state.
Isolates(c) ==
    /\ pc[c] = "opening" /\ c \notin isolating /\ worker # "down"
    /\ IF state # None THEN Goes(c, "refused") /\ UNCHANGED isolating
       ELSE isolating' = isolating \union {c} /\ UNCHANGED pc
    /\ UNCHANGED <<shared, active, closing, ended, result, state, saved, worker, alone, dirty,
                   hostVars>> /\ Calm

\* The call may be over by then, or the answer is lost on its way.
Isolated(c) ==
    /\ c \in isolating /\ isolating' = isolating \ {c}
    /\ \/ /\ Keeps([of |-> c, tainted |-> FALSE]) /\ alone' = alone \union {c}
          /\ \/ Goes(c, IF pc[c] = "opening" THEN "opened" ELSE pc[c]) /\ Calm
             \/ pc[c] = "opening" /\ Goes(c, "refused") /\ Upset
       \/ /\ Goes(c, IF pc[c] = "opening" THEN "refused" ELSE pc[c]) /\ Upset
          /\ UNCHANGED <<state, saved, alone>>
    /\ UNCHANGED <<shared, active, closing, ended, result, worker, dirty, hostVars>>

\* Another tab is opened in the window, moved or shown there, or the tab leaves it or its
\* sites, while the recorder runs.
Intrudes(c) ==
    /\ c \in alone /\ worker = "up" /\ recorder[c] = "recording" /\ Upset
    /\ dirty' = dirty \union {c}
    /\ IF Held(c) THEN Keeps([state EXCEPT !.tainted = TRUE])
       ELSE UNCHANGED <<state, saved>>
    /\ UNCHANGED <<mcpVars, worker, isolating, alone, hostVars>>

\* The deadline passes, or the tab or its window is closed: nothing is left to protect.
Forgets ==
    /\ state # None /\ Upset /\ Keeps(None) /\ alone' = alone \ {state.of}
    /\ UNCHANGED <<mcpVars, worker, isolating, dirty, hostVars>>

\* The worker dies, and with its port the host, which ends its recorders.
WorkerDies ==
    /\ worker # "down" /\ Upset /\ worker' = "down" /\ state' = None /\ isolating' = {}
    /\ pc' = [c \in Calls |->
                IF c \in isolating /\ pc[c] = "opening" THEN "refused"
                ELSE IF c \in spawning /\ pc[c] = "starting" THEN "unstarted" ELSE pc[c]]
    /\ spawning' = {} /\ control' = None
    /\ recorder' = [c \in Calls |->
                      IF recorder[c] = "recording" THEN "stopped" ELSE recorder[c]]
    /\ UNCHANGED <<shared, active, closing, ended, result, saved, alone, dirty>>
Wakes ==
    /\ worker = "down" /\ worker' = "restoring"
    /\ UNCHANGED <<mcpVars, state, saved, isolating, alone, dirty, hostVars>> /\ Calm

\* restore takes the copy unless there is a state again.
Copy == IF state = None THEN saved ELSE state

Restores ==
    /\ worker = "restoring" /\ worker' = "up" /\ state' = Copy
    /\ UNCHANGED <<mcpVars, saved, isolating, alone, dirty, hostVars>> /\ Calm

----------------------------------------------------------------------------
(* The native host's controller                                             *)

\* start: the check, and after two awaits the recorder, over any other.
StartsRecorder(c) ==
    /\ pc[c] = "starting" /\ c \notin spawning /\ worker # "down" /\ recorder[c] = "none"
    /\ IF control # None THEN Goes(c, "unstarted") /\ UNCHANGED spawning
       ELSE spawning' = spawning \union {c} /\ UNCHANGED pc
    /\ UNCHANGED <<shared, active, closing, ended, result, windowVars, control, recorder>> /\ Calm

\* It runs, and the answer arrives or is lost; or it does not start.
Spawns(c) ==
    /\ c \in spawning /\ spawning' = spawning \ {c}
    /\ \/ /\ control' = c /\ recorder' = [recorder EXCEPT ![c] = "recording"]
          /\ \/ /\ pc[c] = "starting" /\ Goes(c, "recording") /\ Calm
                /\ active' = [active EXCEPT ![Process(c)] = c]
             \/ /\ pc[c] = "starting" /\ Goes(c, "unstarted") /\ Upset /\ UNCHANGED active
             \/ /\ pc[c] # "starting" /\ UNCHANGED <<pc, active>> /\ Calm
       \/ /\ Goes(c, IF pc[c] = "starting" THEN "unstarted" ELSE pc[c]) /\ Upset
          /\ UNCHANGED <<control, recorder, active>>
    /\ UNCHANGED <<shared, closing, ended, result, windowVars>>

\* The recorder's own limit.
LimitsItself(c) ==
    /\ recorder[c] = "recording" /\ Upset /\ recorder' = [recorder EXCEPT ![c] = "stopped"]
    /\ UNCHANGED <<mcpVars, windowVars, spawning, control>>

----------------------------------------------------------------------------
(* The tool                                                                 *)

\* companion_record_start up to the request for the window; the check is long past by then.
Starts(c) ==
    /\ pc[c] = "idle" /\ Process(c) \notin closing
    /\ Goes(c, IF active[Process(c)] = None THEN "opening" ELSE "refused")
    /\ UNCHANGED <<shared, active, closing, ended, result, windowVars, hostVars>> /\ Calm
AsksRecorder(c) ==
    /\ pc[c] = "opened" /\ Goes(c, "starting")
    /\ UNCHANGED <<shared, active, closing, ended, result, windowVars, hostVars>> /\ Calm

\* finishRecording begins: asked for, at the time limit, or on shutdown.
Finishes(c) ==
    /\ pc[c] = "recording" /\ Goes(c, "stopping")
    /\ active' = [p \in DOMAIN active |-> IF active[p] = c THEN None ELSE active[p]]
    /\ UNCHANGED <<shared, closing, ended, result, windowVars, hostVars>> /\ Calm

\* stop ends whatever recorder the controller has; or it fails and the recorder goes on.
Stops(c) ==
    /\ pc[c] = "stopping" /\ Goes(c, "ending")
    /\ \/ /\ worker # "down" /\ Calm /\ control' = None
          /\ recorder' = [x \in Calls |-> IF x = control THEN "stopped" ELSE recorder[x]]
       \/ Upset /\ UNCHANGED <<control, recorder>>
    /\ UNCHANGED <<shared, active, closing, ended, result, windowVars, spawning>>

\* end: the window that it finds is given up; a lost answer says nothing of its taints.
Ends(c) ==
    /\ pc[c] \in {"ending", "unstarted"}
    /\ Goes(c, IF pc[c] = "ending" THEN "preparing" ELSE "over")
    /\ \/ /\ worker # "down" /\ Held(c)
          /\ Keeps(None) /\ alone' = alone \ {c}
          /\ \/ ended' = [ended EXCEPT ![c] = IF state.tainted THEN "tainted" ELSE "clean"] /\ Calm
             \/ Upset /\ UNCHANGED ended
       \/ /\ worker # "down" /\ ~Held(c) /\ Calm
          /\ UNCHANGED <<state, saved, alone, ended>>
       \/ Upset /\ UNCHANGED <<state, saved, alone, ended>>
    /\ UNCHANGED <<shared, active, closing, result, worker, isolating, dirty, hostVars>>

\* Mutant: only taints that are known block it.
NotTainted(c) == ended[c] # "tainted"

\* blockedReasons: its taints, or that they are not known.
Clean(c) == ended[c] = "clean"

Prepares(c) ==
    /\ pc[c] = "preparing" /\ Goes(c, "over")
    /\ result' = [result EXCEPT ![c] = IF Clean(c) /\ recorder[c] # "none" THEN "usable"
                                       ELSE "blocked"]
    /\ UNCHANGED <<shared, active, closing, ended, windowVars, hostVars>> /\ Calm

\* shutdown waits, for a while, for the active recording, and for no other call.
ShutsDown(p) ==
    /\ p \notin closing /\ closing' = closing \union {p}
    /\ pc' = [c \in Calls |->
                IF Process(c) # p \/ pc[c] \in {"refused", "over"} \/ active[p] # None THEN pc[c]
                ELSE "gone"]
    /\ UNCHANGED <<shared, active, ended, result, windowVars, hostVars>> /\ Calm
Exits(p) ==
    /\ p \in closing /\ \E c \in Calls : Process(c) = p /\ pc[c] \notin {"refused", "over", "gone"}
    /\ IF \E c \in Calls : Process(c) = p /\ pc[c] \in {"recording", "stopping", "ending", "preparing"}
       THEN Upset ELSE Calm
    /\ pc' = [c \in Calls |->
                IF Process(c) # p \/ pc[c] \in {"refused", "over"} THEN pc[c] ELSE "gone"]
    /\ UNCHANGED <<shared, active, closing, ended, result, windowVars, hostVars>>

----------------------------------------------------------------------------
Next ==
    \/ Forgets \/ WorkerDies \/ Wakes \/ Restores
    \/ \E c \in Calls :
         \/ Starts(c) \/ Isolates(c) \/ Isolated(c) \/ Intrudes(c) \/ AsksRecorder(c)
         \/ StartsRecorder(c) \/ Spawns(c) \/ LimitsItself(c) \/ Finishes(c) \/ Stops(c)
         \/ Ends(c) \/ Prepares(c)
    \/ \E p \in Processes : ShutsDown(p) \/ Exits(p)
Spec == Init /\ [][Next]_vars

----------------------------------------------------------------------------

\* A movie that is offered for analysis shows nothing but the task's page: every intrusion that
\* the worker hears, into whoever's window, reaches the verdict, past restarts, expiries,
\* windows taken over by another recording and answers that are lost.
UsableIsClean == \A c \in Calls : result[c] = "usable" => c \notin dirty
=============================================================================
