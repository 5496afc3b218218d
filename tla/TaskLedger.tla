----------------------------- MODULE TaskLedger -----------------------------
(***************************************************************************)
(* The in-memory side of the broker's durable TaskOperationLedger          *)
(* (src/src/shared/task-runtime.mjs): the entry kept for an idempotency    *)
(* key, the table of legal transitions, and the promise chain #queue that  *)
(* runs ledger jobs one at a time.                                         *)
(*                                                                         *)
(* A job mutates its entry in memory when it STARTS and is durable when it *)
(* FINISHES, so an observer between the two sees state that a crash can    *)
(* still take back.  The module has no variables: the broker modules keep  *)
(* one ledger value and update it with these operators.                    *)
(***************************************************************************)
EXTENDS Naturals, Sequences

CONSTANTS
    Keys,       \* idempotency keys of the operations under consideration
    Requests,   \* client requests, each an attempt to run one operation
    NoRequest,  \* "no operation id": not a request
    Fingerprints \* what payloadDigest({binding, payload}) can tell apart

ASSUME NoRequestAssumption == NoRequest \notin Requests

-----------------------------------------------------------------------------
(* Ledger entries                                                          *)

EntryStates == {"absent", "prepared", "dispatched", "applied",
                "unknown_effect", "reconciled", "blocked"}

EffectStates == {"no_dispatch", "known_effect", "known_no_effect", "unknown_effect"}

\* op is entry.operationId once a dispatch was reserved: the request whose
\* command carries that id.  dispatchCount is 0 or 1 in every entry this code
\* writes; fp stands for entry.fingerprint and entry.binding.
Entry == [state : EntryStates,
          effect : EffectStates,
          op : Requests \union {NoRequest},
          fp : Fingerprints,
          dispatchCount : {0, 1}]

Absent(fp) == [state |-> "absent", effect |-> "no_dispatch", op |-> NoRequest,
               fp |-> fp, dispatchCount |-> 0]

\* The transition table of TaskOperationLedger.transition.
Allowed == [absent         |-> {},
            prepared       |-> {"prepared", "dispatched", "blocked"},
            dispatched     |-> {"dispatched", "applied", "unknown_effect", "blocked"},
            applied        |-> {"applied"},
            unknown_effect |-> {"unknown_effect", "reconciled"},
            reconciled     |-> {"reconciled"},
            blocked        |-> {"blocked"}]

-----------------------------------------------------------------------------
(* Jobs: what the broker asks the ledger to do for one request.            *)
(*   prepare    ledger.prepare before queueing                             *)
(*   reserve    transition to dispatched, before the command is sent       *)
(*   abandon    #recordNotDispatched: transition to blocked/no_dispatch    *)
(*   expire     transition to unknown_effect by a timer or a disconnect    *)
(*   fail       transition to unknown_effect by the extension's error      *)
(*   refuse     transition to blocked by an authenticated no-effect error  *)
(*   apply      transition to applied by the extension's result            *)
(*   reconcile  late result for a timed-out operation                      *)
(*   disprove   late authenticated no-effect error for a timed-out one     *)

JobKinds == {"prepare", "reserve", "abandon", "expire", "fail",
             "refuse", "apply", "reconcile", "disprove"}

Job == [kind : JobKinds, key : Keys, req : Requests, fp : Fingerprints]

\* The state each kind of transition asks for.
Target == [reserve |-> "dispatched", abandon |-> "blocked",
           expire |-> "unknown_effect", fail |-> "unknown_effect",
           refuse |-> "blocked", apply |-> "applied"]

\* Whether the job returns rather than throws.  reconcile checks the binding
\* and the immutability of an earlier settlement, and only its no-effect form
\* also demands the unknown_effect state of this very operation.
Accepts(e, j) ==
    CASE j.kind = "prepare"   -> e.state = "absent" \/ e.fp = j.fp
      [] j.kind = "reconcile" -> /\ e.state # "absent"
                                 /\ e.fp = j.fp
                                 /\ e.state = "reconciled" => e.effect = "known_effect"
      [] j.kind = "disprove"  -> /\ e.fp = j.fp
                                 /\ e.op = j.req
                                 /\ e.state = "unknown_effect"
      [] OTHER                -> Target[j.kind] \in Allowed[e.state]

\* Mutant: preparing a key again starts its entry afresh.
PreparedAfresh(e, fp) == [Absent(fp) EXCEPT !.state = "prepared"]

\* prepare returns an existing entry as it is.
Prepared(e, fp) ==
    IF e.state = "absent" THEN [Absent(fp) EXCEPT !.state = "prepared"] ELSE e

\* Mutant: the reservation does not count the dispatch it announces.
ReservedUncounted(e, j) ==
    [state |-> "dispatched", effect |-> "no_dispatch", op |-> j.req, fp |-> j.fp,
     dispatchCount |-> 0]

\* The reservation #sendOperation makes: not sent yet, but it may be from now on.
Reserved(e, j) ==
    [state |-> "dispatched", effect |-> "no_dispatch", op |-> j.req, fp |-> j.fp,
     dispatchCount |-> 1]

\* The entry after an accepted job.
After(e, j) ==
    CASE j.kind = "prepare" -> Prepared(e, j.fp)
      [] j.kind = "reserve" -> Reserved(e, j)
      [] j.kind = "abandon" ->
            [e EXCEPT !.state = "blocked", !.effect = "no_dispatch", !.dispatchCount = 0]
      [] j.kind \in {"expire", "fail"} ->
            [e EXCEPT !.state = "unknown_effect", !.effect = "unknown_effect", !.op = j.req]
      [] j.kind = "refuse" ->
            [e EXCEPT !.state = "blocked", !.effect = "known_no_effect", !.op = j.req]
      [] j.kind = "apply" ->
            [e EXCEPT !.state = "applied", !.effect = "known_effect", !.op = j.req]
      [] j.kind = "reconcile" ->
            [e EXCEPT !.state = "reconciled", !.effect = "known_effect"]
      [] j.kind = "disprove" ->
            [e EXCEPT !.state = "reconciled", !.effect = "known_no_effect"]

-----------------------------------------------------------------------------
(* The mutex.  led.jobs is the promise chain, its head the job now running; *)
(* led.ok says whether that job's checks passed; led.poisoned is            *)
(* persistenceError, after which every later job throws at once.            *)

Ledger == [mem : [Keys -> Entry], jobs : Seq(Job), ok : BOOLEAN, poisoned : BOOLEAN]

\* The head of the chain begins: it throws, or mutates its entry in memory.
Start(led) ==
    IF led.jobs = <<>> THEN led
    ELSE LET j == Head(led.jobs)
             e == led.mem[j.key]
         IN  IF ~led.poisoned /\ Accepts(e, j)
             THEN [led EXCEPT !.ok = TRUE, !.mem[j.key] = After(e, j)]
             ELSE [led EXCEPT !.ok = FALSE]

\* #queue for a run of calls made without an await between them.
SubmitAll(led, js) ==
    IF led.jobs = <<>> THEN Start([led EXCEPT !.jobs = js])
                       ELSE [led EXCEPT !.jobs = @ \o js]

Submit(led, j) == SubmitAll(led, <<j>>)

\* The running job settles, failing to persist if ioError; the next one begins.
Pop(led, ioError) ==
    Start([led EXCEPT !.jobs = Tail(@), !.poisoned = @ \/ ioError])

-----------------------------------------------------------------------------
(* Restart                                                                 *)

\* Mutant: an interrupted entry is handed out again.
RecoveredForRetry(e) ==
    IF e.state \in {"dispatched", "unknown_effect"}
    THEN [e EXCEPT !.state = "prepared", !.effect = "no_dispatch"]
    ELSE e

\* Mutant: a dispatch without a receipt is taken not to have happened.
RecoveredAsUnsent(e) ==
    IF e.state = "dispatched"
    THEN [e EXCEPT !.state = "blocked", !.effect = "no_dispatch"]
    ELSE e

\* Mutant: whatever was dispatched is interrupted, settled or not.
RecoveredTooMuch(e) ==
    IF e.dispatchCount = 1
    THEN [e EXCEPT !.state = "unknown_effect", !.effect = "unknown_effect"]
    ELSE e

\* #load with classifyInterruptedEffect.  Its NO_DISPATCH branch needs an
\* interrupted entry with dispatchCount 0 and its PROVEN_NO_EFFECT branch an
\* unsettled entry with a no-effect proof; reserve always counts one dispatch
\* and only disprove writes the proof (settling the entry), so an interrupted
\* entry written by this code is UNKNOWN_EFFECT (InterruptedWasCounted).
Recovered(e) ==
    IF e.state \in {"dispatched", "unknown_effect"}
    THEN [e EXCEPT !.state = "unknown_effect", !.effect = "unknown_effect"]
    ELSE e

\* A ledger opened on what the disk holds.
Opened(disk) ==
    [mem |-> [k \in Keys |-> Recovered(disk[k])],
     jobs |-> <<>>, ok |-> TRUE, poisoned |-> FALSE]

=============================================================================
