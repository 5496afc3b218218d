-------------------------- MODULE ExtensionReload --------------------------
(***************************************************************************)
(* A requested reload of the Extension.  A client asks for it with a       *)
(* session of the profile's present generation; the broker accepts it when *)
(* the profile does no other work, reserves the profile, and sends one     *)
(* command; the Extension's worker accepts the command, rotates its        *)
(* runtime identity after a delay, and reloads itself; the hello of an     *)
(* unknown runtime makes a new generation, which ends the reservation; the *)
(* client polls the status until it shows one.                             *)
(*                                                                         *)
(* Generations and runtimes are numbered in the order of their creation.   *)
(* The ledger's record of a command is durable when the command is sent,   *)
(* and every write of the ledger writes the profile's binding with it.     *)
(* Status answers and hellos take one step, as does the loss of a port at  *)
(* its two ends; whatever is under way on the port is lost with it.        *)
(***************************************************************************)
EXTENDS Naturals

CONSTANTS
    Calls,       \* requests to reload, each under a key of its own
    None,
    MaxUpsets    \* losses of the port, of the worker, of the broker: a bound

VARIABLES
    profile,     \* the broker's registry: [gen, runtime, up]
    binding,     \* the ledger's record of it: [gen, runtime]
    gens,        \* the generations made so far
    serving,     \* the broker is recording the binding of a hello
    busy,        \* another session works, holds a lease, or left a doubt behind
    reservation, \* of the profile: None or [of, gen], of = None when restored
    op,          \* the broker's operation of a call: "none", "prepares", "waits" or "over"
    entry,       \* its durable record: [state, gen]
    call,        \* the client's side: [at, before, runtime, reads, result]
    wire, back,  \* commands on their way to the worker, answers [of, ok] on theirs back
    worker,      \* [runtime, stored, reload, storing]: reload = the call it will reload for
    runtimes,    \* the runtime identities made so far
    upsets

vars == <<profile, binding, gens, serving, busy, reservation, op, entry, call, wire, back,
          worker, runtimes, upsets>>
port == <<wire, back, worker, runtimes>>
registry == <<profile, binding, gens, serving>>

NoEntry == [state |-> "none", gen |-> 0]
IdleCall == [at |-> "idle", before |-> 0, runtime |-> 0, reads |-> FALSE, result |-> None]

Init ==
    /\ profile = [gen |-> 1, runtime |-> 1, up |-> TRUE] /\ binding = [gen |-> 1, runtime |-> 1]
    /\ gens = 1 /\ serving = FALSE /\ busy = FALSE /\ reservation = None
    /\ op = [c \in Calls |-> "none"] /\ entry = [c \in Calls |-> NoEntry]
    /\ call = [c \in Calls |-> IdleCall]
    /\ wire = {} /\ back = {} /\ runtimes = 1 /\ upsets = 0
    /\ worker = [runtime |-> 1, stored |-> 1, reload |-> None, storing |-> FALSE]

-----------------------------------------------------------------------------
\* The client.

Told(cl, c, result) ==
    IF cl[c].at \in {"asks", "pending"}
    THEN [cl EXCEPT ![c].at = "over", ![c].result = result] ELSE cl

\* The status shows a connected profile without other work, or a generation it had not.
PlanAllows == profile.up /\ ~busy
Fresh(c) == profile.up /\ profile.gen # call[c].before

\* The client looks at the status, whether it will read the outcome back or not.
Plans(c) ==
    /\ call[c].at = "idle" /\ PlanAllows
    /\ \E reads \in BOOLEAN :
          call' = [call EXCEPT ![c] = [at |-> "asks", before |-> profile.gen, reads |-> reads,
                                       runtime |-> profile.runtime, result |-> None]]
    /\ UNCHANGED <<registry, busy, reservation, op, entry, port, upsets>>

\* The client's own timeout, or the loss of its connection.
GivesUp(c) ==
    /\ call[c].at = "pending"
    /\ call' = Told(call, c, "unknown")
    /\ UNCHANGED <<registry, busy, reservation, op, entry, port, upsets>>

Polls(c) ==
    /\ call[c].at = "polls"
    /\ \/ /\ Fresh(c)
          /\ call' = [call EXCEPT ![c].at = "over", ![c].result = "reflected"]
       \/ call' = [call EXCEPT ![c].at = "over", ![c].result = "deferred"]
    /\ UNCHANGED <<registry, busy, reservation, op, entry, port, upsets>>

-----------------------------------------------------------------------------
\* The broker.

\* No other session of the profile works, waits, holds a lease or left a live doubt.
SafeBoundary == ~busy
SessionIsCurrent(c) == profile.up /\ call[c].before = profile.gen

Reserves(c) ==
    /\ call[c].at = "asks"
    /\ IF SessionIsCurrent(c) /\ reservation = None /\ SafeBoundary
       THEN /\ reservation' = [of |-> c, gen |-> profile.gen]
            /\ op' = [op EXCEPT ![c] = "prepares"]
            /\ call' = [call EXCEPT ![c].at = "pending"]
       ELSE /\ call' = Told(call, c, "refused")
            /\ UNCHANGED <<reservation, op>>
    /\ UNCHANGED <<registry, busy, entry, port, upsets>>

Released(c) == IF reservation # None /\ reservation.of = c THEN None ELSE reservation

\* The operation ends before its command is sent: refused by the authority check or blocked in
\* the queue, which prove that nothing was sent, or with an error that proves nothing.
EndsUnsent(c) ==
    /\ op[c] = "prepares"
    /\ \/ reservation' = Released(c) /\ UNCHANGED <<entry, binding>>
       \/ /\ reservation' = Released(c)
          /\ entry' = [entry EXCEPT ![c] = [state |-> "blocked", gen |-> call[c].before]]
          /\ binding' = [gen |-> profile.gen, runtime |-> profile.runtime]
       \/ UNCHANGED <<reservation, entry, binding>>
    /\ op' = [op EXCEPT ![c] = "over"]
    /\ call' = Told(call, c, "refused")
    /\ UNCHANGED <<profile, gens, serving, busy, port, upsets>>

Sends(c) ==
    /\ op[c] = "prepares" /\ SessionIsCurrent(c)
    /\ entry' = [entry EXCEPT ![c] = [state |-> "dispatched", gen |-> profile.gen]]
    /\ binding' = [gen |-> profile.gen, runtime |-> profile.runtime]
    /\ op' = [op EXCEPT ![c] = "waits"] /\ wire' = wire \union {c}
    /\ UNCHANGED <<profile, gens, serving, busy, reservation, call, back, worker, runtimes, upsets>>

\* An answer in time is the operation's; one after the timeout settles its record.  An error
\* leaves the effect unknown, and the reservation in place.
Hears(c) ==
    \E a \in back :
       /\ a.of = c /\ back' = back \ {a}
       /\ entry' = [entry EXCEPT ![c].state =
                       IF ~a.ok THEN "unknown_effect"
                       ELSE IF op[c] = "waits" THEN "applied" ELSE "reconciled"]
       /\ op' = [op EXCEPT ![c] = "over"]
       /\ call' = IF op[c] = "waits" /\ a.ok /\ call[c].at = "pending" /\ call[c].reads
                  THEN [call EXCEPT ![c].at = "polls"]
                  ELSE Told(call, c, IF a.ok THEN "accepted" ELSE "error")
       /\ UNCHANGED <<registry, busy, reservation, wire, worker, runtimes, upsets>>

\* The operations that wait when their profile is invalidated, and what their callers hear.
Invalidated(waiting) ==
    /\ entry' = [c \in Calls |-> IF c \in waiting THEN [entry[c] EXCEPT !.state = "unknown_effect"]
                                 ELSE entry[c]]
    /\ op' = [c \in Calls |-> IF c \in waiting THEN "over" ELSE op[c]]
    /\ call' = [c \in Calls |-> IF c \in waiting THEN Told(call, c, "error")[c] ELSE call[c]]
Waiting == {c \in Calls : op[c] = "waits"}

TimesOut(c) ==
    /\ op[c] = "waits" /\ Invalidated({c})
    /\ UNCHANGED <<registry, busy, reservation, port, upsets>>

\* Mutant: every hello starts a generation.
NeverSame == FALSE

SameRuntime == profile.runtime = worker.runtime

\* The hello of the same runtime continues the generation, another one starts one; the profile
\* is replaced in memory before its binding is written.  A native host does not start and greet
\* within the one write to storage that precedes a reload.
Greets ==
    /\ ~profile.up /\ ~serving /\ ~worker.storing
    /\ gens' = IF SameRuntime THEN gens ELSE gens + 1
    /\ profile' = [gen |-> IF SameRuntime THEN profile.gen ELSE gens + 1,
                   runtime |-> worker.runtime, up |-> TRUE]
    /\ Invalidated(Waiting) /\ serving' = TRUE
    /\ UNCHANGED <<binding, busy, reservation, port, upsets>>

\* The write ends the reservation of an earlier generation; a failed one leaves it.
Records ==
    /\ serving /\ serving' = FALSE
    /\ \/ /\ binding' = [gen |-> profile.gen, runtime |-> profile.runtime]
          /\ reservation' = IF reservation # None /\ reservation.gen # profile.gen
                            THEN None ELSE reservation
       \/ UNCHANGED <<binding, reservation>>
    /\ UNCHANGED <<profile, gens, busy, op, entry, call, port, upsets>>

Works == busy' = ~busy /\ (busy \/ profile.up)
         /\ UNCHANGED <<registry, reservation, op, entry, call, port, upsets>>

\* A reload that is expected leaves the profile's operations to the hello that follows it.
Down(w) ==
    /\ profile' = [profile EXCEPT !.up = FALSE] /\ wire' = {} /\ back' = {} /\ worker' = w
    /\ Invalidated(IF reservation = None /\ profile.up THEN Waiting ELSE {})
    /\ UNCHANGED <<binding, gens, serving, busy, reservation>>

\* Mutant: an acknowledged reload counts as done.
RestoredIfUnanswered ==
    IF \E c \in Calls : /\ entry[c].state \in {"dispatched", "unknown_effect"}
                        /\ entry[c].gen = binding.gen
    THEN [of |-> None, gen |-> binding.gen] ELSE None

\* The reservations that a restarted broker finds in the records of its ledger.
Restored ==
    IF \E c \in Calls : /\ entry[c].state \in {"dispatched", "unknown_effect", "applied"}
                        /\ entry[c].gen = binding.gen
    THEN [of |-> None, gen |-> binding.gen] ELSE None

BrokerRestarts ==
    /\ upsets < MaxUpsets /\ upsets' = upsets + 1
    /\ profile' = [gen |-> binding.gen, runtime |-> binding.runtime, up |-> FALSE]
    /\ serving' = FALSE /\ busy' = FALSE /\ reservation' = Restored
    /\ wire' = {} /\ back' = {}
    /\ op' = [c \in Calls |-> IF op[c] \in {"prepares", "waits"} THEN "over" ELSE op[c]]
    /\ call' = [c \in Calls |-> IF call[c].at = "asks" THEN Told(call, c, "refused")[c]
                                ELSE Told(call, c, "unknown")[c]]
    /\ UNCHANGED <<binding, gens, entry, worker, runtimes>>

-----------------------------------------------------------------------------
\* The Extension's worker.

Accepts(c) ==
    /\ c \in wire /\ wire' = wire \ {c}
    /\ back' = back \union {[of |-> c, ok |-> worker.reload = None]}
    /\ worker' = IF worker.reload = None THEN [worker EXCEPT !.reload = c] ELSE worker
    /\ UNCHANGED <<registry, busy, reservation, op, entry, call, runtimes, upsets>>

\* The timer of an accepted reload: a new identity, which storage keeps before the reload.
Rotates ==
    /\ worker.reload # None /\ ~worker.storing
    /\ worker' = [worker EXCEPT !.runtime = runtimes + 1, !.storing = TRUE]
    /\ runtimes' = runtimes + 1
    /\ UNCHANGED <<registry, busy, reservation, op, entry, call, wire, back, upsets>>

Reloads ==
    /\ worker.storing
    /\ Down([worker EXCEPT !.stored = worker.runtime, !.reload = None, !.storing = FALSE])
    /\ UNCHANGED <<runtimes, upsets>>

\* runtime.reload() throws: the worker goes on under its new identity.
FailsToReload ==
    /\ worker.storing
    /\ worker' = [worker EXCEPT !.stored = worker.runtime, !.reload = None, !.storing = FALSE]
    /\ UNCHANGED <<registry, busy, reservation, op, entry, call, wire, back, runtimes, upsets>>

PortCloses ==
    /\ upsets < MaxUpsets /\ upsets' = upsets + 1 /\ profile.up
    /\ Down(worker) /\ UNCHANGED runtimes

\* Chrome ends the worker and starts another, which takes the identity that storage kept; the
\* timer is lost.
WorkerDies ==
    /\ upsets < MaxUpsets /\ upsets' = upsets + 1
    /\ \E kept \in IF worker.storing THEN {worker.runtime, worker.stored} ELSE {worker.stored} :
          Down([runtime |-> kept, stored |-> kept, reload |-> None, storing |-> FALSE])
    /\ UNCHANGED runtimes

Next ==
    \/ \E c \in Calls : \/ Plans(c) \/ GivesUp(c) \/ Polls(c) \/ Reserves(c) \/ EndsUnsent(c)
                        \/ Sends(c) \/ Hears(c) \/ TimesOut(c) \/ Accepts(c)
    \/ Greets \/ Records \/ Works \/ BrokerRestarts
    \/ Rotates \/ Reloads \/ FailsToReload \/ PortCloses \/ WorkerDies
Spec == Init /\ [][Next]_vars

-----------------------------------------------------------------------------

\* A reload that is on its way to the Extension's worker or scheduled there, unless an answer
\* that came late has settled it: a restart forgets such a one.
UnderWay(c) == (c \in wire \/ worker.reload = c) /\ entry[c].state # "reconciled"

\* A generation of the Extension is asked to reload once, through timeouts, lost answers, lost
\* ports and restarts of the broker (broker.test.mjs:560, "acknowledged reload remains guarded
\* through timeout and broker restart until fresh generation").  It is no more than that: a
\* worker that could not reload has changed its identity, and its next hello lets another in.
OneReloadPerGeneration ==
    \A c, d \in Calls :
        UnderWay(c) /\ UnderWay(d) /\ entry[c].gen = entry[d].gen => c = d

\* A client hears "reflected" only when the Extension took an identity newer than the one that
\* the broker knew when the client looked: no lost port, no restart of the broker, and no
\* generation whose binding was lost with it, passes for a reload (verifyFreshExtensionGeneration).
ReflectedIsFresh ==
    \A c \in Calls : call[c].result = "reflected" => runtimes > call[c].runtime
=============================================================================
