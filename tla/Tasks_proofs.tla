---------------------------- MODULE Tasks_proofs ----------------------------
(***************************************************************************)
(* Theorems about a task's transactions, their visual inputs and the two   *)
(* ways in which an owner goes on after one that failed, for any number of *)
(* calls, steps, tabs, proofs and disturbances:                            *)
(*   - what a receipt says of the page is true, however the call failed    *)
(*     (TaskTransaction);                                                  *)
(*   - a doubt is settled once and as a whole, and the two answers that    *)
(*     tell the owner whether to go on agree (Reconciliation);             *)
(*   - a lost target is replaced by one tab (TargetRecovery);              *)
(*   - a fresh proof serves one input, and an input goes to the document   *)
(*     on its proofs' images (VisualProof).                                *)
(***************************************************************************)
EXTENDS MCTasks, TLAPS

USE DEF vars

-----------------------------------------------------------------------------
(* Receipts: what the catch block may say.                                 *)

\* What is said of the steps is right, done being the steps that had an effect.
Speaks(said, ask, done) ==
    /\ said.remaining \intersect done = {}
    /\ (said.effect \in {"no_dispatch", "known_no_effect"} \/ said.mayContinue) => done = {}
    /\ {i \in said.applied : ask.steps[i] # "read"} \subseteq done
    /\ done \subseteq said.applied \union said.uncertain

\* A call that has applied no step beyond the one it is at.
Sound(r) ==
    /\ r.ask \in Asks /\ r.step \in Nat
    /\ \A i \in r.applied : i \in Nat /\ i <= r.step

\* While the broker knows of every effect, the catch block never asks for a step again that was
\* done, and reports no effect only when there was none.
LEMMA KnownSpeaks ==
    ASSUME NEW r, NEW e, NEW f, Sound(r)
    PROVE  Speaks(FailureReceipt(r, e, f), r.ask, Applied(r))
<1> DEFINE said == FailureReceipt(r, e, f)
<1>1. said.remaining \intersect Applied(r) = {}
  <2>1. said.remaining = {i \in DOMAIN r.ask.steps : i > r.step}
                            \union IF Retry(r, e, f) THEN {r.step} ELSE {}
    BY DEF FailureReceipt
  <2>2. \A i \in Applied(r) : i \in r.applied /\ i \in Nat /\ i <= r.step
    BY DEF Sound, Applied
  <2>3. \A i \in Applied(r) : ~(i > r.step)
    BY <2>2 DEF Sound
  <2>4. Retry(r, e, f) => r.step \notin Applied(r)
    BY <2>2 DEF Retry
  <2> QED BY <2>1, <2>3, <2>4
<1>2. said.effect \in {"no_dispatch", "known_no_effect"} \/ said.mayContinue => Applied(r) = {}
  BY DEF FailureReceipt, Effect
<1>3. said.applied = r.applied
  BY DEF FailureReceipt
<1> QED BY <1>1, <1>2, <1>3 DEF Speaks, Applied

\* When the effect of the step is unknown to the broker, it is enough to say so.
LEMMA UnknownSpeaks ==
    ASSUME NEW r, NEW e, NEW f, NEW done, Sound(r), Active(r),
           StepEffect(r, e, f) = "unknown_effect",
           Applied(r) \subseteq done, done \subseteq Applied(r) \union {r.step},
           r.step \notin {i \in DOMAIN r.ask.steps : i > r.step}
    PROVE  Speaks(FailureReceipt(r, e, f), r.ask, done)
<1> DEFINE said == FailureReceipt(r, e, f)
<1>1. said.remaining = {i \in DOMAIN r.ask.steps : i > r.step}
  BY DEF FailureReceipt, Retry
<1>2. \A i \in Applied(r) : ~(i > r.step)
  BY DEF Sound, Applied
<1>3. said.remaining \intersect done = {}
  BY <1>1, <1>2
<1>4. said.effect = "unknown_effect" /\ ~said.mayContinue
  BY DEF FailureReceipt, Effect
<1>5. said.applied = r.applied /\ said.uncertain = {r.step}
  BY DEF FailureReceipt
<1> QED BY <1>3, <1>4, <1>5 DEF Speaks, Applied

\* A step that was sent and whose answer was lost is never taken for one that did nothing: the
\* error may claim so, the ledger entry does not bear it out.
LEMMA LostIsUnknown ==
    ASSUME NEW r, r.step # 0, r.keyed, r.flying, StepOf(r) \in {"edit", "commit", "move"},
           NEW e \in Uncertain(StepOf(r), r.step), NEW f \in LostOf(StepOf(r))
    PROVE  StepEffect(r, e, f) = "unknown_effect"
<1>1. /\ e.kind = StepOf(r) /\ e.at = r.step /\ e.sent /\ ~e.proven
      /\ e.state \in {"unknown", "dispatched"}
  <2>1. PICK state \in {"unknown", "dispatched"} : e = Entry(StepOf(r), r.step, state)
    BY Zenon DEF Uncertain
  <2> QED BY <2>1 DEF Entry
<1>2. f.readOnly = FALSE /\ (StepOf(r) = "commit" => f.reconcile)
  <2>1. \E c \in {"unknown", "other"}, claims \in {"unknown", "no_effect"} :
           /\ f.code = c /\ f.readOnly = FALSE /\ f.claims = claims
           /\ f.reconcile = (StepOf(r) = "commit")
    BY DEF LostOf, Failure
  <2> QED BY <2>1
<1>3. MayMutate(r)
  BY DEF MayMutate
<1>4. Evidence(r, e, f).knownNoEffect = FALSE
  BY <1>1 DEF Evidence, Matched
<1>5. CASE StepOf(r) = "commit"
  <2>1. EffectMay(r, e, f)
    BY <1>1, <1>3, <1>4, <1>5 DEF EffectMay
  <2> QED BY <2>1 DEF StepEffect
<1>6. CASE StepOf(r) # "commit"
  <2>1. EffectMay(r, e, f) \/ LocalMay(r, e, f)
    BY <1>1, <1>3, <1>4, <1>6 DEF LocalMay
  <2> QED BY <2>1 DEF StepEffect
<1> QED BY <1>5, <1>6

-----------------------------------------------------------------------------
(* The inductive invariant: where each call stands, and what its page saw.  *)

SettingUp == {"new", "admitting", "listing", "rebinding", "grouping", "navigating", "creating",
              "binding", "preread"}
Stepping == {"step", "readback", "finishing", "closing"}
Phases == SettingUp \union Stepping \union {"settling", "discarding", "ended"}

Whole(r) ==
    r = [ask |-> r.ask, phase |-> r.phase, tab |-> r.tab, lease |-> r.lease, step |-> r.step,
         keyed |-> r.keyed, flying |-> r.flying, closing |-> r.closing, applied |-> r.applied,
         verified |-> r.verified, next |-> r.next]

\* The broker's own account of a call and the steps that had their effect, phase by phase.
Accounted(r, done) ==
    /\ Whole(r) /\ r.phase \in Phases
    /\ r.phase # "new" => r.ask \in Asks
    /\ r.phase = "new" => r.next = None
    /\ r.phase \in SettingUp =>
          /\ r.step = 0 /\ r.applied = {} /\ done = {}
          /\ r.keyed = FALSE /\ r.flying = FALSE
    /\ r.phase \in Stepping => r.step \in DOMAIN r.ask.steps /\ done = Applied(r)
    /\ r.phase = "step" => r.applied = 1..(r.step - 1) /\ r.keyed = FALSE /\ r.flying = FALSE
    /\ r.phase \in Stepping \ {"step"} => r.applied = 1..r.step /\ r.keyed = TRUE
    /\ r.phase \in {"settling", "discarding"} => Speaks(r.next.said, r.ask, done)
    /\ r.phase = "ended" => (r.next = None \/ Speaks(r.next.said, r.ask, done))

\* Two stages of a call with the same account of its steps.
SameSteps(o, r) == o.ask = r.ask /\ o.step = r.step /\ o.applied = r.applied
SameSending(o, r) == SameSteps(o, r) /\ o.keyed = r.keyed /\ o.flying = r.flying

CallsAccounted ==
    /\ txn = [x \in Txns |-> txn[x]] /\ took = [x \in Txns |-> took[x]]
    /\ \A x \in Txns : Accounted(txn[x], took[x])

\* The steps asked for.
LEMMA StepsAsked ==
    ASSUME NEW a \in Asks
    PROVE  /\ a.steps \in Seq(Step) /\ DOMAIN a.steps = 1..Len(a.steps)
           /\ Len(a.steps) \in Nat \ {0}
           /\ \A i \in DOMAIN a.steps : i \in Nat \ {0} /\ a.steps[i] \in Step
BY TaskAssumption

\* Every call is sound at its steps.
LEMMA AccountedIsSound ==
    ASSUME NEW r, NEW done, Accounted(r, done),
           r.phase \in (SettingUp \ {"new"}) \union Stepping
    PROVE  Sound(r) /\ done = Applied(r)
<1>1. r.ask \in Asks
  BY DEF Accounted, Stepping
<1>2. CASE r.phase \in SettingUp
  BY <1>1, <1>2 DEF Accounted, Sound, Applied
<1>3. CASE r.phase \in Stepping
  <2>1. r.step \in Nat \ {0}
    BY <1>1, <1>3, StepsAsked DEF Accounted
  <2>2. r.applied = 1..(r.step - 1) \/ r.applied = 1..r.step
    BY <1>3 DEF Accounted
  <2>3. \A i \in r.applied : i \in Nat /\ i <= r.step
    BY <2>1, <2>2
  <2> QED BY <1>1, <1>3, <2>1, <2>3 DEF Accounted, Sound
<1> QED BY <1>2, <1>3

\* What a call keeps when its steps are over.
LEMMA OverKeeps ==
    ASSUME NEW r, NEW phase, NEW next, NEW o, o = Over(r, phase, next)
    PROVE  Whole(o) /\ o.ask = r.ask /\ o.phase = phase /\ o.next = next
<1>1. o = [ask |-> r.ask, phase |-> phase, tab |-> r.tab, lease |-> r.lease, step |-> 0,
           keyed |-> FALSE, flying |-> FALSE, closing |-> FALSE, applied |-> {},
           verified |-> {}, next |-> next]
  BY Zenon DEF Over, NewTxn
<1> QED BY <1>1 DEF Whole

LEMMA OneCallMoves ==
    ASSUME CallsAccounted, NEW x \in Txns, NEW r, txn' = [txn EXCEPT ![x] = r],
           took' = [y \in Txns |-> took'[y]], \A y \in Txns \ {x} : took'[y] = took[y],
           Accounted(r, took'[x])
    PROVE  CallsAccounted'
<1>1. txn' = [y \in Txns |-> IF y = x THEN r ELSE txn[y]]
  BY DEF CallsAccounted
<1>2. \A y \in Txns : Accounted(txn'[y], took'[y])
  BY <1>1 DEF CallsAccounted
<1> QED BY <1>1, <1>2 DEF CallsAccounted

LEMMA CallMoves ==
    ASSUME CallsAccounted, NEW x \in Txns, NEW r, txn' = [txn EXCEPT ![x] = r],
           UNCHANGED took, Accounted(r, took[x])
    PROVE  CallsAccounted'
BY OneCallMoves DEF CallsAccounted

LEMMA Judges ==
    ASSUME NEW r, r.ask \in Asks, NEW done, NEW verdict, Speaks(verdict.said, r.ask, done)
    PROVE  Accounted(Over(r, "settling", verdict), done)
<1>1. PICK o : o = Over(r, "settling", verdict)
  OBVIOUS
<1>2. Whole(o) /\ o.ask = r.ask /\ o.phase = "settling" /\ o.next = verdict
  BY <1>1, OverKeeps
<1> QED BY <1>1, <1>2 DEF Accounted, Phases, SettingUp, Stepping

\* A failure whose effects are all known.
LEMMA FailsAccounted ==
    ASSUME CallsAccounted, NEW x \in Txns, NEW r, NEW entries, NEW failures,
           Sound(r), took[x] = Applied(r), Fails(x, r, entries, failures), UNCHANGED took
    PROVE  CallsAccounted'
<1>1. PICK e \in entries, f \in failures :
          txn' = [txn EXCEPT ![x] = Over(r, "settling", Verdict(r, e, f))]
  BY DEF Fails
<1>2. Speaks(Verdict(r, e, f).said, r.ask, took[x])
  BY KnownSpeaks DEF Verdict
<1>3. Accounted(Over(r, "settling", Verdict(r, e, f)), took[x])
  BY <1>2, Judges DEF Sound
<1> QED BY <1>1, <1>3, CallMoves

-----------------------------------------------------------------------------
(* The actions.                                                            *)

LEMMA AccountedInit == Init => CallsAccounted
<1> SUFFICES ASSUME Init PROVE CallsAccounted
  OBVIOUS
<1>1. txn = [x \in Txns |-> NewTxn] /\ took = [x \in Txns |-> {}]
  BY DEF Init
<1>2. NewTxn.phase = "new" /\ NewTxn.step = 0 /\ NewTxn.applied = {}
      /\ NewTxn.keyed = FALSE /\ NewTxn.flying = FALSE /\ NewTxn.next = None /\ Whole(NewTxn)
  BY DEF NewTxn, Whole
<1>3. Accounted(NewTxn, {})
  BY <1>2 DEF Accounted, SettingUp, Stepping, Phases
<1> QED BY <1>1, <1>3 DEF CallsAccounted

\* A call that goes on, with the steps it had.
LEMMA GoesIs ==
    ASSUME NEW r, Whole(r), NEW phase, NEW o, o = [r EXCEPT !.phase = phase]
    PROVE  Whole(o) /\ o.phase = phase /\ o.next = r.next /\ SameSending(o, r)
<1>1. o = [ask |-> r.ask, phase |-> phase, tab |-> r.tab, lease |-> r.lease, step |-> r.step,
           keyed |-> r.keyed, flying |-> r.flying, closing |-> r.closing, applied |-> r.applied,
           verified |-> r.verified, next |-> r.next]
  BY Zenon DEF Whole
<1> QED BY <1>1 DEF Whole, SameSteps, SameSending

\* Before its steps a call has nothing to report.
LEMMA SetsUp ==
    ASSUME CallsAccounted, NEW x \in Txns, NEW r, NEW phase \in SettingUp \ {"new"},
           txn[x].phase \in SettingUp \ {"new"}, Whole(r), SameSending(r, txn[x]),
           Goes(x, r, phase), UNCHANGED took
    PROVE  CallsAccounted'
<1>1. PICK o : o = [r EXCEPT !.phase = phase]
  OBVIOUS
<1>2. Accounted(txn[x], took[x])
  BY DEF CallsAccounted
<1>3. Whole(o) /\ o.phase = phase /\ SameSending(o, r)
  BY <1>1, GoesIs
<1>4. SameSending(o, txn[x])
  BY <1>3 DEF SameSending, SameSteps
<1>5. Accounted(o, took[x])
  BY <1>2, <1>3, <1>4 DEF Accounted, SettingUp, Stepping, Phases, SameSending, SameSteps
<1> QED BY <1>1, <1>5, CallMoves DEF Goes

\* A failure of a call at its present step.
LEMMA FailsHere ==
    ASSUME CallsAccounted, NEW x \in Txns, NEW r, NEW entries, NEW failures,
           txn[x].phase \in (SettingUp \ {"new"}) \union Stepping, SameSteps(r, txn[x]),
           Fails(x, r, entries, failures), UNCHANGED took
    PROVE  CallsAccounted'
<1>1. Sound(txn[x]) /\ took[x] = Applied(txn[x])
  BY AccountedIsSound DEF CallsAccounted
<1>2. Sound(r) /\ Applied(r) = Applied(txn[x])
  BY <1>1 DEF Sound, Applied, SameSteps
<1> QED BY <1>1, <1>2, FailsAccounted

LEMMA SameAsItself == ASSUME NEW r PROVE SameSteps(r, r) /\ SameSending(r, r)
BY DEF SameSteps, SameSending

LEMMA PersistFailsHere ==
    ASSUME CallsAccounted, NEW x \in Txns, PersistFails(x), UNCHANGED took,
           txn[x].phase \in (SettingUp \ {"new"}) \union Stepping
    PROVE  CallsAccounted'
BY FailsHere, SameAsItself DEF PersistFails

\* What is sent is the call as it stands.
LEMMA InFlightHere ==
    ASSUME CallsAccounted, NEW x \in Txns
    PROVE  SameSteps(InFlight(x), txn[x])
BY DEF CallsAccounted, Accounted, Whole, InFlight, SameSteps

LEMMA TriesFail ==
    ASSUME CallsAccounted, NEW x \in Txns, NEW kind, NEW at, NEW r, UNCHANGED took,
           txn[x].phase \in (SettingUp \ {"new"}) \union Stepping, SameSteps(r, txn[x]),
           Refused(x, r, kind, at) \/ Lost(x, r, kind, at)
    PROVE  CallsAccounted'
BY FailsHere DEF Refused, Lost

LEMMA AccountedAdmit ==
    ASSUME CallsAccounted, NEW x \in Txns, Admit(x)
    PROVE  CallsAccounted'
<1>1. PICK a \in Asks :
          \/ txn' = [txn EXCEPT ![x].phase = "ended", ![x].ask = a]
          \/ txn' = [txn EXCEPT ![x].phase = "admitting", ![x].ask = a]
  BY DEF Admit
<1>2. PICK phase \in {"ended", "admitting"} :
          txn' = [txn EXCEPT ![x] = [txn[x] EXCEPT !.phase = phase, !.ask = a]]
  BY <1>1
<1>3. PICK o : o = [txn[x] EXCEPT !.phase = phase, !.ask = a]
  OBVIOUS
<1>4. Accounted(txn[x], took[x]) /\ txn[x].phase = "new"
  BY DEF CallsAccounted, Admit
<1>5. /\ txn[x].step = 0 /\ txn[x].applied = {} /\ took[x] = {}
      /\ txn[x].keyed = FALSE /\ txn[x].flying = FALSE
  BY <1>4 DEF Accounted, SettingUp
<1>6. PICK r : r = txn[x]
  OBVIOUS
<1>7. o = [ask |-> a, phase |-> phase, tab |-> r.tab, lease |-> r.lease, step |-> r.step,
           keyed |-> r.keyed, flying |-> r.flying, closing |-> r.closing, applied |-> r.applied,
           verified |-> r.verified, next |-> r.next]
  BY <1>3, <1>4, <1>6, Zenon DEF Accounted, Whole
<1>8. /\ Whole(o) /\ o.phase = phase /\ o.ask = a /\ o.step = 0 /\ o.keyed = FALSE
      /\ o.flying = FALSE /\ o.applied = {} /\ o.next = r.next
  BY <1>5, <1>6, <1>7 DEF Whole
<1>9. Accounted(o, took[x])
  BY <1>4, <1>5, <1>6, <1>8 DEF Accounted, SettingUp, Stepping, Phases
<1> QED BY <1>2, <1>3, <1>9, CallMoves DEF Admit

LEMMA AccountedSettingUp ==
    ASSUME CallsAccounted, NEW x \in Txns,
           Admitted(x) \/ ListFails(x) \/ Rebind(x) \/ SetUp(x) \/ Bind(x)
    PROVE  CallsAccounted'
<1> USE DEF SettingUp
<1>0. Whole(txn[x]) /\ UNCHANGED took
  BY DEF CallsAccounted, Accounted, Admitted, ListFails, Rebind, SetUp, Bind
<1>1. CASE Admitted(x)
  BY <1>0, <1>1, SetsUp, FailsHere, PersistFailsHere, SameAsItself DEF Admitted
<1>2. CASE ListFails(x)
  BY <1>0, <1>2, FailsHere, SameAsItself DEF ListFails
<1>3. CASE Rebind(x)
  BY <1>0, <1>3, SetsUp, PersistFailsHere, SameAsItself DEF Rebind
<1>4. CASE SetUp(x)
  <2>1. PICK kind :
           \/ Refused(x, InFlight(x), kind, 0) \/ Lost(x, InFlight(x), kind, 0)
           \/ Goes(x, txn[x], "binding") \/ Goes(x, txn[x], "navigating")
    BY <1>4 DEF SetUp
  <2>2. txn[x].phase \in SettingUp \ {"new"}
    BY <1>4 DEF SetUp
  <2> QED BY <1>0, <2>1, <2>2, InFlightHere, TriesFail, SetsUp, SameAsItself
<1>5. CASE Bind(x)
  BY <1>0, <1>5, SetsUp, PersistFailsHere, SameAsItself DEF Bind
<1> QED BY <1>1, <1>2, <1>3, <1>4, <1>5

\* A call that takes a tab is otherwise as it was.
LEMMA TakesTab ==
    ASSUME NEW r, Whole(r), NEW t, NEW l, NEW o, o = [r EXCEPT !.tab = t, !.lease = l]
    PROVE  Whole(o) /\ SameSending(o, r)
<1>1. o = [ask |-> r.ask, phase |-> r.phase, tab |-> t, lease |-> l, step |-> r.step,
           keyed |-> r.keyed, flying |-> r.flying, closing |-> r.closing, applied |-> r.applied,
           verified |-> r.verified, next |-> r.next]
  BY Zenon DEF Whole
<1> QED BY <1>1 DEF Whole, SameSteps, SameSending

LEMMA AccountedResolve ==
    ASSUME CallsAccounted, NEW x \in Txns, Resolve(x)
    PROVE  CallsAccounted'
<1>1. txn[x].phase \in SettingUp \ {"new"} /\ UNCHANGED took /\ Whole(txn[x])
  BY DEF Resolve, SettingUp, CallsAccounted, Accounted
<1>2. \/ \E t \in Resolved(x) :
            Goes(x, [txn[x] EXCEPT !.tab = t, !.lease = LeaseFor(x, t)], "rebinding")
      \/ Goes(x, txn[x], "creating")
      \/ Fails(x, txn[x], {NoEntry}, {Plain, Failure("recoverable", FALSE, "nothing", TRUE)})
      \/ Fails(x, txn[x], {NoEntry}, {Plain})
  BY DEF Resolve
<1>3. ASSUME NEW t \in Resolved(x),
             Goes(x, [txn[x] EXCEPT !.tab = t, !.lease = LeaseFor(x, t)], "rebinding")
      PROVE  CallsAccounted'
  <2>1. PICK o : o = [txn[x] EXCEPT !.tab = t, !.lease = LeaseFor(x, t)]
    OBVIOUS
  <2> QED BY <1>1, <1>3, <2>1, TakesTab, SetsUp DEF SettingUp
<1>4. CASE Goes(x, txn[x], "creating")
  BY <1>1, <1>4, SetsUp, SameAsItself DEF SettingUp
<1> QED BY <1>1, <1>2, <1>3, <1>4, FailsHere, SameAsItself

LEMMA AccountedCreate ==
    ASSUME CallsAccounted, NEW x \in Txns, Create(x)
    PROVE  CallsAccounted'
<1>1. txn[x].phase \in SettingUp \ {"new"} /\ UNCHANGED took /\ Whole(txn[x])
  BY DEF Create, SettingUp, CallsAccounted, Accounted
<1>2. CASE Refused(x, InFlight(x), "setup", 0) \/ Lost(x, InFlight(x), "setup", 0)
  BY <1>1, <1>2, InFlightHere, TriesFail
<1>3. ASSUME NEW t, NEW l,
             LET taken == [txn[x] EXCEPT !.tab = t, !.lease = l] IN
             \/ Goes(x, taken, "binding")
             \/ Fails(x, [taken EXCEPT !.flying = TRUE], Uncertain("setup", 0),
                      {Failure("unknown", FALSE, "unknown", FALSE)})
      PROVE  CallsAccounted'
  <2>0. PICK bound : bound = [txn[x] EXCEPT !.tab = t, !.lease = l]
    OBVIOUS
  <2>1. Whole(bound) /\ SameSending(bound, txn[x])
    BY <1>1, <2>0, TakesTab
  <2>2. PICK sent : sent = [bound EXCEPT !.flying = TRUE]
    OBVIOUS
  <2>3. SameSteps(sent, txn[x])
    BY <2>1, <2>2 DEF Whole, SameSteps, SameSending
  <2>4. CASE Goes(x, bound, "binding")
    BY <1>1, <2>1, <2>4, SetsUp DEF SettingUp
  <2>5. CASE Fails(x, sent, Uncertain("setup", 0), {Failure("unknown", FALSE, "unknown", FALSE)})
    BY <1>1, <2>3, <2>5, FailsHere
  <2> QED BY <1>3, <2>0, <2>2, <2>4, <2>5
<1> QED BY <1>2, <1>3 DEF Create

\* A call that goes on to another phase: what is left to show is its account there.
LEMMA GoesOn ==
    ASSUME CallsAccounted, NEW x \in Txns, NEW r, NEW phase, Goes(x, r, phase), UNCHANGED took,
           \A o : o = [r EXCEPT !.phase = phase] => Accounted(o, took[x])
    PROVE  CallsAccounted'
<1>1. PICK o : o = [r EXCEPT !.phase = phase]
  OBVIOUS
<1> QED BY <1>1, CallMoves DEF Goes

LEMMA AccountedPreRead ==
    ASSUME CallsAccounted, NEW x \in Txns, PreRead(x)
    PROVE  CallsAccounted'
<1>1. /\ txn[x].phase = "preread" /\ UNCHANGED took
      /\ Accounted(txn[x], took[x]) /\ Whole(txn[x])
  BY DEF PreRead, CallsAccounted, Accounted
<1>2. /\ txn[x].applied = {} /\ txn[x].keyed = FALSE /\ txn[x].flying = FALSE
      /\ took[x] = {} /\ txn[x].ask \in Asks
  BY <1>1 DEF Accounted, SettingUp
<1>3. CASE Goes(x, [txn[x] EXCEPT !.step = 1], "step")
  <2>1. PICK q : q = [txn[x] EXCEPT !.step = 1]
    OBVIOUS
  <2>2. /\ Whole(q) /\ q.ask = txn[x].ask /\ q.step = 1 /\ q.applied = {}
        /\ q.keyed = FALSE /\ q.flying = FALSE
    BY <1>1, <1>2, <2>1 DEF Whole
  <2>3. ASSUME NEW o, o = [q EXCEPT !.phase = "step"] PROVE Accounted(o, took[x])
    <3>1. Whole(o) /\ o.phase = "step" /\ SameSending(o, q)
      BY <2>2, <2>3, GoesIs
    <3>2. 1 \in DOMAIN o.ask.steps /\ 1..(1 - 1) = {}
      BY <1>2, <2>2, <3>1, StepsAsked DEF SameSending, SameSteps
    <3> QED
      BY <1>2, <2>2, <3>1, <3>2
      DEF Accounted, SettingUp, Stepping, Phases, SameSending, SameSteps, Applied
  <2> QED BY <1>1, <1>3, <2>1, <2>3, GoesOn
<1>4. CASE Fails(x, txn[x], {NoEntry}, {Plain} \union ReadOnly)
  BY <1>1, <1>4, FailsHere, SameAsItself DEF SettingUp
<1> QED BY <1>1, <1>3, <1>4, PersistFailsHere DEF PreRead, SettingUp

LEMMA AccountedNotBegun ==
    ASSUME CallsAccounted, NEW x \in Txns, NotBegun(x)
    PROVE  CallsAccounted'
<1>1. txn[x].phase \in Stepping /\ UNCHANGED took /\ Whole(txn[x])
  BY DEF NotBegun, CallsAccounted, Accounted, Stepping
<1>2. PICK r : r = [txn[x] EXCEPT !.keyed = FALSE]
  OBVIOUS
<1>3. SameSteps(r, txn[x])
  BY <1>1, <1>2 DEF Whole, SameSteps
<1> QED BY <1>1, <1>2, <1>3, FailsHere DEF NotBegun

\* A step that is being performed: it carries its key.
LEMMA KeyedIs ==
    ASSUME CallsAccounted, NEW x \in Txns, NEW k, k = Keyed(x)
    PROVE  /\ Whole(k) /\ SameSteps(k, txn[x]) /\ k.phase = txn[x].phase
           /\ k.keyed = TRUE /\ (StepKind(x) # "read" => k.flying)
<1>1. PICK r : r = txn[x]
  OBVIOUS
<1>2. PICK flying : flying = (StepKind(x) # "read")
  OBVIOUS
<1>3. Whole(r) /\ k = [r EXCEPT !.keyed = TRUE, !.flying = flying]
  BY <1>1, <1>2, Zenon DEF CallsAccounted, Accounted, Keyed
<1>4. k = [ask |-> r.ask, phase |-> r.phase, tab |-> r.tab, lease |-> r.lease, step |-> r.step,
           keyed |-> TRUE, flying |-> flying, closing |-> r.closing, applied |-> r.applied,
           verified |-> r.verified, next |-> r.next]
  BY ONLY <1>3, Zenon DEF Whole
<1>5. /\ Whole(k) /\ k.ask = r.ask /\ k.step = r.step /\ k.applied = r.applied
      /\ k.phase = r.phase /\ k.keyed = TRUE
  BY ONLY <1>4 DEF Whole
<1>6. k.flying = flying
  BY ONLY <1>4, Zenon
<1>7. StepKind(x) # "read" => k.flying
  BY <1>2, <1>6, Zenon
<1> QED BY <1>1, <1>5, <1>7 DEF SameSteps

\* At a step, all those before it are applied.
LEMMA AtStep ==
    ASSUME CallsAccounted, NEW x \in Txns, txn[x].phase = "step"
    PROVE  /\ Whole(txn[x]) /\ Sound(txn[x]) /\ txn[x].step \in Nat \ {0}
           /\ txn[x].step \in DOMAIN Ask(x).steps /\ StepKind(x) \in Step
           /\ txn[x].applied = 1..(txn[x].step - 1) /\ took[x] = Applied(txn[x])
<1>1. Accounted(txn[x], took[x])
  BY DEF CallsAccounted
<1>2. Sound(txn[x]) /\ took[x] = Applied(txn[x])
  BY <1>1, AccountedIsSound DEF Stepping
<1> QED BY <1>1, <1>2, StepsAsked DEF Accounted, Stepping, Ask, StepKind

\* The answer is lost, whether the step had its effect or not.
LEMMA AccountedLost ==
    ASSUME CallsAccounted, NEW x \in Txns, txn[x].phase = "step", StepKind(x) # "read",
           Lost(x, Keyed(x), StepKind(x), txn[x].step),
           took' \in {took, [took EXCEPT ![x] = @ \union {txn[x].step}]}
    PROVE  CallsAccounted'
<1>1. PICK k : k = Keyed(x)
  OBVIOUS
<1>2. /\ SameSteps(k, txn[x]) /\ k.keyed /\ k.flying
      /\ Sound(txn[x]) /\ txn[x].step \in Nat \ {0}
      /\ StepKind(x) \in Step /\ took[x] = Applied(txn[x])
  BY <1>1, KeyedIs, AtStep
<1>3. PICK e \in Uncertain(StepKind(x), txn[x].step), f \in LostOf(StepKind(x)) :
          txn' = [txn EXCEPT ![x] = Over(k, "settling", Verdict(k, e, f))]
  BY <1>1 DEF Lost, Fails
<1>4. /\ StepOf(k) = StepKind(x) /\ k.step = txn[x].step /\ Sound(k)
      /\ Applied(k) = Applied(txn[x]) /\ k.ask = txn[x].ask
  BY <1>2 DEF SameSteps, StepOf, StepKind, Ask, Sound, Applied
<1>5. StepEffect(k, e, f) = "unknown_effect"
  BY <1>2, <1>4, LostIsUnknown DEF Step
<1>6. /\ took' = [y \in Txns |-> took'[y]] /\ \A y \in Txns \ {x} : took'[y] = took[y]
      /\ took'[x] \in {took[x], took[x] \union {txn[x].step}}
  BY DEF CallsAccounted
<1>7. PICK done : done = took'[x]
  OBVIOUS
<1>8. Speaks(FailureReceipt(k, e, f), k.ask, done)
  BY <1>2, <1>4, <1>5, <1>6, <1>7, UnknownSpeaks DEF Active
<1>9. Accounted(Over(k, "settling", Verdict(k, e, f)), done)
  BY <1>4, <1>8, Judges DEF Verdict, Sound
<1> QED BY <1>3, <1>6, <1>7, <1>9, OneCallMoves

\* The step is acknowledged.
LEMMA AccountedDone ==
    ASSUME CallsAccounted, NEW x \in Txns, txn[x].phase = "step",
           Goes(x, [Keyed(x) EXCEPT !.applied = @ \union {txn[x].step}], "readback"),
           took' = IF StepKind(x) = "read" THEN took
                   ELSE [took EXCEPT ![x] = @ \union {txn[x].step}]
    PROVE  CallsAccounted'
<1>1. PICK k : k = Keyed(x)
  OBVIOUS
<1>2. PICK i : i = txn[x].step
  OBVIOUS
<1>3. /\ Whole(k) /\ SameSteps(k, txn[x]) /\ k.keyed = TRUE /\ Sound(txn[x])
      /\ i \in Nat \ {0} /\ i \in DOMAIN txn[x].ask.steps
      /\ txn[x].applied = 1..(i - 1) /\ took[x] = Applied(txn[x])
  BY <1>1, <1>2, KeyedIs, AtStep DEF Ask
<1>4. PICK q : q = [k EXCEPT !.applied = k.applied \union {i}]
  OBVIOUS
<1>5. /\ Whole(q) /\ q.ask = txn[x].ask /\ q.step = i /\ q.keyed = TRUE
      /\ q.applied = txn[x].applied \union {i}
  BY <1>2, <1>3, <1>4 DEF Whole, SameSteps
<1>6. PICK o : o = [q EXCEPT !.phase = "readback"]
  OBVIOUS
<1>7. /\ Whole(o) /\ o.phase = "readback" /\ o.ask = txn[x].ask /\ o.step = i
      /\ o.keyed = TRUE /\ o.applied = 1..i
  <2>1. (1..(i - 1)) \union {i} = 1..i
    BY <1>3
  <2>2. Whole(o) /\ o.phase = "readback" /\ SameSending(o, q)
    BY <1>5, <1>6, GoesIs
  <2>3. o.ask = q.ask /\ o.step = q.step /\ o.applied = q.applied /\ o.keyed = q.keyed
    BY <2>2, Zenon DEF SameSending, SameSteps
  <2> QED BY <1>3, <1>5, <2>1, <2>2, <2>3
<1>8. /\ took' = [y \in Txns |-> took'[y]] /\ \A y \in Txns \ {x} : took'[y] = took[y]
      /\ took'[x] = took[x] \union IF StepKind(x) = "read" THEN {} ELSE {i}
  BY <1>2 DEF CallsAccounted
<1>9. took'[x] = Applied(o)
  <2>1. Applied(o) = {j \in txn[x].applied \union {i} : txn[x].ask.steps[j] # "read"}
    BY <1>3, <1>5, <1>7 DEF Applied
  <2>2. StepKind(x) = txn[x].ask.steps[i]
    BY <1>2 DEF StepKind, Ask
  <2> QED BY <1>3, <1>8, <2>1, <2>2 DEF Applied
<1>10. Accounted(o, took'[x])
  BY <1>3, <1>7, <1>9 DEF Accounted, SettingUp, Stepping, Phases, Sound
<1>11. txn' = [txn EXCEPT ![x] = o]
  BY <1>1, <1>2, <1>4, <1>6 DEF Goes
<1> QED BY <1>8, <1>10, <1>11, OneCallMoves

LEMMA AccountedPerform ==
    ASSUME CallsAccounted, NEW x \in Txns, Perform(x)
    PROVE  CallsAccounted'
<1>1. txn[x].phase = "step"
  BY DEF Perform
<1>2. SameSteps(Keyed(x), txn[x])
  BY KeyedIs
<1>3. CASE Fails(x, Keyed(x), {NoEntry}, {Plain} \union ReadOnly) /\ UNCHANGED took
  BY <1>1, <1>2, <1>3, FailsHere DEF Stepping
<1>4. CASE Refused(x, Keyed(x), StepKind(x), txn[x].step) /\ UNCHANGED took
  BY <1>1, <1>2, <1>4, TriesFail DEF Stepping
<1>5. CASE /\ StepKind(x) # "read" /\ Lost(x, Keyed(x), StepKind(x), txn[x].step)
           /\ took' \in {took, [took EXCEPT ![x] = @ \union {txn[x].step}]}
  BY <1>1, <1>5, AccountedLost
<1>6. CASE /\ Goes(x, [Keyed(x) EXCEPT !.applied = @ \union {txn[x].step}], "readback")
           /\ took' = IF StepKind(x) = "read" THEN took
                      ELSE [took EXCEPT ![x] = @ \union {txn[x].step}]
  BY <1>1, <1>6, AccountedDone
<1> QED BY <1>3, <1>4, <1>5, <1>6, Zenon DEF Perform

\* After a step, all up to it are applied.
LEMMA PastStep ==
    ASSUME CallsAccounted, NEW x \in Txns, txn[x].phase \in Stepping \ {"step"}
    PROVE  /\ Whole(txn[x]) /\ Sound(txn[x]) /\ txn[x].step \in Nat \ {0}
           /\ txn[x].step \in DOMAIN Ask(x).steps /\ DOMAIN Ask(x).steps = 1..Len(Ask(x).steps)
           /\ Len(Ask(x).steps) \in Nat /\ txn[x].keyed = TRUE
           /\ txn[x].applied = 1..txn[x].step /\ took[x] = Applied(txn[x])
<1>1. Accounted(txn[x], took[x])
  BY DEF CallsAccounted
<1>2. Sound(txn[x]) /\ took[x] = Applied(txn[x])
  BY <1>1, AccountedIsSound
<1> QED BY <1>1, <1>2, StepsAsked DEF Accounted, Stepping, Ask

LEMMA AccountedReadback ==
    ASSUME CallsAccounted, NEW x \in Txns, Readback(x)
    PROVE  CallsAccounted'
<1>1. txn[x].phase = "readback" /\ UNCHANGED took
  BY DEF Readback
<1>2. PICK r : r = txn[x]
  OBVIOUS
<1>3. /\ Whole(r) /\ Sound(r) /\ r.step \in Nat \ {0} /\ DOMAIN r.ask.steps = 1..Len(r.ask.steps)
      /\ Len(r.ask.steps) \in Nat /\ r.step \in DOMAIN r.ask.steps
      /\ r.keyed = TRUE /\ r.applied = 1..r.step /\ took[x] = Applied(r)
  BY <1>1, <1>2, PastStep DEF Stepping, Ask
<1>4. PICK seen : seen = [r EXCEPT !.verified = @ \union {r.step}]
  OBVIOUS
<1>5. Whole(seen) /\ SameSteps(seen, r) /\ seen.keyed = TRUE
  BY <1>3, <1>4 DEF Whole, SameSteps
<1>6. \/ /\ r.step < Len(r.ask.steps)
         /\ Goes(x, [seen EXCEPT !.flying = FALSE, !.keyed = FALSE, !.step = r.step + 1], "step")
      \/ Goes(x, [seen EXCEPT !.flying = FALSE], "finishing")
      \/ \E entries, failures : Fails(x, r, entries, failures) \/ Fails(x, seen, entries, failures)
  BY <1>2, <1>4 DEF Readback, Ask
<1>7. ASSUME r.step < Len(r.ask.steps),
             Goes(x, [seen EXCEPT !.flying = FALSE, !.keyed = FALSE, !.step = r.step + 1], "step")
      PROVE  CallsAccounted'
  <2>1. PICK i : i = r.step + 1
    OBVIOUS
  <2>2. PICK q : q = [seen EXCEPT !.flying = FALSE, !.keyed = FALSE, !.step = i]
    OBVIOUS
  <2>3. q = [ask |-> seen.ask, phase |-> seen.phase, tab |-> seen.tab, lease |-> seen.lease,
             step |-> i, keyed |-> FALSE, flying |-> FALSE, closing |-> seen.closing,
             applied |-> seen.applied, verified |-> seen.verified, next |-> seen.next]
    BY ONLY <1>5, <2>2, Zenon DEF Whole
  <2>4. /\ Whole(q) /\ q.ask = r.ask /\ q.step = i /\ q.applied = r.applied
        /\ q.keyed = FALSE /\ q.flying = FALSE
    BY <1>5, <2>3 DEF Whole, SameSteps
  <2>5. PICK o : o = [q EXCEPT !.phase = "step"]
    OBVIOUS
  <2>6. Whole(o) /\ o.phase = "step" /\ SameSending(o, q)
    BY <2>4, <2>5, GoesIs
  <2>7. /\ o.ask = r.ask /\ o.step = i /\ o.applied = r.applied
        /\ o.keyed = FALSE /\ o.flying = FALSE
    BY <2>4, <2>6 DEF SameSending, SameSteps
  <2>8. i \in DOMAIN r.ask.steps /\ 1..(i - 1) = 1..r.step
    BY <1>3, <1>7, <2>1
  <2>9. Accounted(o, took[x])
    BY <1>3, <2>6, <2>7, <2>8 DEF Accounted, SettingUp, Stepping, Phases, Applied, Sound
  <2>10. txn' = [txn EXCEPT ![x] = o]
    BY <1>7, <2>1, <2>2, <2>5 DEF Goes
  <2> QED BY <1>1, <2>9, <2>10, CallMoves
<1>8. CASE Goes(x, [seen EXCEPT !.flying = FALSE], "finishing")
  <2>1. PICK q : q = [seen EXCEPT !.flying = FALSE]
    OBVIOUS
  <2>2. Whole(q) /\ q.ask = r.ask /\ q.step = r.step /\ q.applied = r.applied /\ q.keyed = TRUE
    BY <1>5, <2>1 DEF Whole, SameSteps
  <2>3. ASSUME NEW o, o = [q EXCEPT !.phase = "finishing"] PROVE Accounted(o, took[x])
    <3>1. Whole(o) /\ o.phase = "finishing" /\ SameSending(o, q)
      BY <2>2, <2>3, GoesIs
    <3>2. o.ask = r.ask /\ o.step = r.step /\ o.applied = r.applied /\ o.keyed = TRUE
      BY <2>2, <3>1 DEF SameSending, SameSteps
    <3> QED
      BY <1>3, <3>1, <3>2 DEF Accounted, SettingUp, Stepping, Phases, Applied, Sound
  <2> QED BY <1>1, <1>8, <2>1, <2>3, GoesOn
<1>9. ASSUME NEW entries, NEW failures,
             Fails(x, r, entries, failures) \/ Fails(x, seen, entries, failures)
      PROVE  CallsAccounted'
  BY <1>1, <1>2, <1>5, <1>9, FailsHere, SameAsItself DEF Stepping
<1> QED BY <1>6, <1>7, <1>8, <1>9

\* A call that returns: its receipt speaks for it.
LEMMA AccountedLeaving ==
    ASSUME CallsAccounted, NEW x \in Txns, NEW said, Leaves(x, said), UNCHANGED took,
           txn[x].ask \in Asks, Speaks(said, txn[x].ask, took[x])
    PROVE  CallsAccounted'
<1>1. Whole(txn[x])
  BY DEF CallsAccounted, Accounted
<1>2. PICK q : q = [txn[x] EXCEPT !.lease = None]
  OBVIOUS
<1>3. q.ask = txn[x].ask
  BY <1>1, <1>2 DEF Whole
<1>4. PICK next : next = [said |-> said]
  OBVIOUS
<1>5. PICK o : o = Over(q, "ended", next)
  OBVIOUS
<1>6. Whole(o) /\ o.ask = q.ask /\ o.phase = "ended" /\ o.next = next
  BY <1>5, OverKeeps
<1>7. next.said = said
  BY <1>4
<1>8. Accounted(o, took[x])
  BY <1>3, <1>6, <1>7 DEF Accounted, SettingUp, Stepping, Phases
<1>9. txn' = [txn EXCEPT ![x] = o]
  BY <1>2, <1>4, <1>5 DEF Leaves
<1> QED BY <1>8, <1>9, CallMoves

\* The receipt of a call whose steps were all acknowledged.
LEMMA VerifiedSpeaks ==
    ASSUME CallsAccounted, NEW x \in Txns, took[x] = Applied(txn[x])
    PROVE  Speaks(VerifiedReceipt(x), txn[x].ask, took[x])
BY DEF VerifiedReceipt, KnownEffect, Speaks, Applied

LEMMA AccountedFinish ==
    ASSUME CallsAccounted, NEW x \in Txns, Finish(x)
    PROVE  CallsAccounted'
<1>1. txn[x].phase = "finishing" /\ UNCHANGED took
  BY DEF Finish
<1>2. PICK r : r = txn[x]
  OBVIOUS
<1>3. /\ Whole(r) /\ Sound(r) /\ r.step \in DOMAIN r.ask.steps /\ r.keyed = TRUE
      /\ r.applied = 1..r.step /\ took[x] = Applied(r)
  BY <1>1, <1>2, PastStep DEF Stepping, Ask
<1>4. \/ \E entries, failures : Fails(x, r, entries, failures)
      \/ Leaves(x, VerifiedReceipt(x))
      \/ Goes(x, [r EXCEPT !.closing = TRUE], "closing")
  BY <1>2 DEF Finish
<1>5. ASSUME NEW entries, NEW failures, Fails(x, r, entries, failures)
      PROVE  CallsAccounted'
  BY <1>1, <1>2, <1>5, FailsHere, SameAsItself DEF Stepping
<1>6. CASE Leaves(x, VerifiedReceipt(x))
  BY <1>1, <1>2, <1>3, <1>6, VerifiedSpeaks, AccountedLeaving DEF Sound
<1>7. CASE Goes(x, [r EXCEPT !.closing = TRUE], "closing")
  <2>1. PICK q : q = [r EXCEPT !.closing = TRUE]
    OBVIOUS
  <2>2. Whole(q) /\ q.ask = r.ask /\ q.step = r.step /\ q.applied = r.applied /\ q.keyed = TRUE
    BY <1>3, <2>1 DEF Whole
  <2>3. ASSUME NEW o, o = [q EXCEPT !.phase = "closing"] PROVE Accounted(o, took[x])
    <3>1. Whole(o) /\ o.phase = "closing" /\ SameSending(o, q)
      BY <2>2, <2>3, GoesIs
    <3>2. o.ask = r.ask /\ o.step = r.step /\ o.applied = r.applied /\ o.keyed = TRUE
      BY <2>2, <3>1 DEF SameSending, SameSteps
    <3> QED
      BY <1>3, <3>1, <3>2 DEF Accounted, SettingUp, Stepping, Phases, Applied, Sound
  <2> QED BY <1>1, <1>7, <2>1, <2>3, GoesOn
<1> QED BY <1>4, <1>5, <1>6, <1>7

LEMMA AccountedClose ==
    ASSUME CallsAccounted, NEW x \in Txns, Close(x)
    PROVE  CallsAccounted'
<1>1. txn[x].phase \in Stepping \ {"step"} /\ UNCHANGED took
  BY DEF Close, Stepping
<1>2. Sound(txn[x]) /\ took[x] = Applied(txn[x])
  BY <1>1, PastStep
<1>3. CASE Leaves(x, VerifiedReceipt(x))
  BY <1>1, <1>2, <1>3, VerifiedSpeaks, AccountedLeaving DEF Sound
<1>4. CASE Refused(x, InFlight(x), "setup", 0) \/ Lost(x, InFlight(x), "setup", 0)
  BY <1>1, <1>4, InFlightHere, TriesFail
<1> QED BY <1>3, <1>4 DEF Close

LEMMA AccountedSettle ==
    ASSUME CallsAccounted, NEW x \in Txns, Settle(x) \/ Discard(x)
    PROVE  CallsAccounted'
<1>1. txn[x].phase \in {"settling", "discarding"} /\ UNCHANGED took
  BY DEF Settle, Discard
<1>2. /\ Whole(txn[x]) /\ txn[x].ask \in Asks
      /\ Speaks(txn[x].next.said, txn[x].ask, took[x])
  BY <1>1 DEF CallsAccounted, Accounted
<1>3. CASE Leaves(x, txn[x].next.said)
  BY <1>1, <1>2, <1>3, AccountedLeaving
<1>4. CASE Goes(x, txn[x], "discarding")
  <2>1. PICK o : o = [txn[x] EXCEPT !.phase = "discarding"]
    OBVIOUS
  <2>2. Whole(o) /\ o.phase = "discarding" /\ o.next = txn[x].next /\ SameSending(o, txn[x])
    BY <1>2, <2>1, GoesIs
  <2>3. Accounted(o, took[x])
    BY <1>2, <2>2 DEF Accounted, SettingUp, Stepping, Phases, SameSending, SameSteps
  <2> QED BY <1>1, <1>4, <2>1, <2>3, CallMoves DEF Goes
<1> QED BY <1>3, <1>4 DEF Settle, Discard

LEMMA AccountedStep ==
    ASSUME CallsAccounted, [Next]_vars
    PROVE  CallsAccounted'
<1>1. CASE UNCHANGED <<txn, took>>
  BY <1>1 DEF CallsAccounted
<1>2. ASSUME NEW x \in Txns,
             \/ Admit(x) \/ Admitted(x) \/ ListFails(x) \/ Resolve(x) \/ Rebind(x) \/ SetUp(x)
             \/ Create(x) \/ Bind(x) \/ PreRead(x) \/ NotBegun(x) \/ Perform(x) \/ Readback(x)
             \/ Finish(x) \/ Close(x) \/ Settle(x) \/ Discard(x)
      PROVE  CallsAccounted'
  BY <1>2, AccountedAdmit, AccountedSettingUp, AccountedResolve, AccountedCreate,
     AccountedPreRead, AccountedNotBegun, AccountedPerform, AccountedReadback, AccountedFinish,
     AccountedClose, AccountedSettle
<1>3. ASSUME NEW s \in Sessions, NEW t \in Tabs, Reserve(s, t) PROVE UNCHANGED <<txn, took>>
  BY <1>3 DEF Reserve
<1>4. ASSUME NEW s \in Sessions, SessionEnds(s) PROVE UNCHANGED <<txn, took>>
  BY <1>4 DEF SessionEnds
<1>5. ASSUME NEW t \in Tabs, TabRemoved(t) PROVE UNCHANGED <<txn, took>>
  BY <1>5 DEF TabRemoved
<1>6. CASE UNCHANGED vars
  BY <1>1, <1>6
<1> QED BY <1>1, <1>2, <1>3, <1>4, <1>5, <1>6 DEF Next

LEMMA AlwaysAccounted == Spec => []CallsAccounted
BY AccountedInit, AccountedStep, PTL DEF Spec

-----------------------------------------------------------------------------
(* The theorems.                                                           *)

LEMMA JudgedSpeaks ==
    ASSUME CallsAccounted, NEW x \in Txns, Judged(x)
    PROVE  Speaks(Said(x), Ask(x), took[x])
BY DEF CallsAccounted, Accounted, Judged, Said, Ask

\* However many calls run, whatever they ask for and wherever they fail: no step that a receipt
\* offers for another try has already had its effect (continuation and retryFailedStep in
\* #executeTaskTransaction).
THEOREM NothingDoneIsOffered == Spec => []NothingDoneRemains
<1>1. CallsAccounted => NothingDoneRemains
  BY JudgedSpeaks DEF NothingDoneRemains, Speaks
<1> QED BY <1>1, AlwaysAccounted, PTL

\* A receipt that reports no effect is right about the page, what it calls applied was, and
\* whatever else happened to the page it calls uncertain (action_progress).
THEOREM ReceiptsAreTrue == Spec => []ReceiptIsTrue
<1>1. CallsAccounted => ReceiptIsTrue
  BY JudgedSpeaks DEF ReceiptIsTrue, Speaks
<1> QED BY <1>1, AlwaysAccounted, PTL

-----------------------------------------------------------------------------
(* Settling a doubt (Reconciliation).                                      *)

Effects == {"known_effect", "known_no_effect", "unknown_effect"}
OpStates == {"none", "unknown_effect", "reconciled", "purged"}

DoubtTypeOK ==
    /\ op \in [state : OpStates, effect : Effects, awaited : BOOLEAN, proven : BOOLEAN, at : Nat]
    /\ doubtful \in [doubt : Doubts, rest : BOOLEAN,
                     state : {"reconciliation_required", "failed", "completed"},
                     effect : Effects, why : {"pending", "local", "partial", "none"},
                     here : BOOLEAN, moved : BOOLEAN, owned : BOOLEAN,
                     read : Nat \union {None}, at : Nat]
    /\ time \in Nat

\* What is settled left the doubt with both of its entries.
DoubtSettled ==
    /\ doubtful.effect # "unknown_effect" =>
          doubtful.state # "reconciliation_required" /\ op.effect # "unknown_effect"
    /\ op.state = "reconciled" => op.effect # "unknown_effect"

DoubtInvariant == DoubtTypeOK /\ DoubtSettled

\* What a step may do to the two entries of a doubt.
StaysSettled ==
    /\ op.state = "reconciled" =>
          op'.state = "purged" \/ (op'.state = "reconciled" /\ op'.effect = op.effect)
    /\ doubtful.effect # "unknown_effect" =>
          doubtful'.effect = doubtful.effect /\ doubtful'.state = doubtful.state

LEMMA DoubtInit == Settlement!Init => DoubtInvariant
<1> SUFFICES ASSUME Settlement!Init PROVE DoubtInvariant
  OBVIOUS
<1>1. PICK d \in Doubts, rest \in BOOLEAN, legacy \in BOOLEAN :
         /\ doubtful = [doubt |-> d, rest |-> rest,
                        state |-> IF legacy THEN "failed" ELSE "reconciliation_required",
                        effect |-> "unknown_effect", why |-> IF legacy THEN "local" ELSE "pending",
                        here |-> TRUE, moved |-> FALSE, owned |-> TRUE, read |-> None, at |-> 0]
         /\ op = IF d = "inspection" THEN Settlement!NoOperation ELSE Settlement!InDoubt
  BY DEF Settlement!Init
<1>2. time = 0
  BY DEF Settlement!Init
<1> QED
  BY <1>1, <1>2
  DEF DoubtInvariant, DoubtTypeOK, DoubtSettled, Effects, OpStates, Settlement!NoOperation,
      Settlement!InDoubt

\* A settlement from what was observed: the operation and the capsule, in one write.
LEMMA SettlesWhole ==
    ASSUME DoubtInvariant, NEW effect \in {"known_effect", "known_no_effect"},
           NEW state \in {"failed", "completed"}, NEW why \in {"pending", "partial", "none"},
           doubtful.effect = "unknown_effect", time' = time,
           op' = Settlement!SettledIfUnresolved(effect),
           doubtful' = Settlement!Becomes(state, effect, why)
    PROVE  DoubtInvariant' /\ StaysSettled
BY DEF DoubtInvariant, DoubtTypeOK, DoubtSettled, StaysSettled, Effects, OpStates,
       Settlement!SettledIfUnresolved, Settlement!Settled, Settlement!Becomes,
       Settlement!Unresolved

\* The bookkeeping of a doubt: neither what is known nor the state of the capsule changes.
LEMMA KeepsDoubt ==
    ASSUME DoubtInvariant, DoubtTypeOK', op'.state = op.state, op'.effect = op.effect,
           doubtful'.state = doubtful.state, doubtful'.effect = doubtful.effect
    PROVE  DoubtInvariant' /\ StaysSettled
BY DEF DoubtInvariant, DoubtSettled, StaysSettled

LEMMA DoubtCompletes ==
    ASSUME DoubtInvariant, Settlement!Uncertain, Settlement!CompleteTask, time' = time
    PROVE  DoubtInvariant' /\ StaysSettled
<1>1. doubtful.effect = "unknown_effect"
  BY DEF DoubtInvariant, DoubtSettled, Settlement!Uncertain
<1>2. \/ doubtful' = Settlement!Becomes("failed", "known_effect", "partial")
      \/ doubtful' = Settlement!Becomes("completed", "known_effect", "none")
  BY DEF Settlement!CompleteTask
<1>3. op' = Settlement!SettledIfUnresolved("known_effect")
  BY DEF Settlement!CompleteTask
<1> QED BY <1>1, <1>2, <1>3, SettlesWhole

LEMMA NavigationCompletes ==
    ASSUME DoubtInvariant, Settlement!NavigationApplies, Settlement!CompleteNavigation,
           time' = time
    PROVE  DoubtInvariant' /\ StaysSettled
<1>1. doubtful.effect = "unknown_effect" /\ Settlement!Unresolved
  BY DEF Settlement!NavigationApplies, Settlement!LocalCapsule
<1>2. op' = Settlement!SettledIfUnresolved("known_effect")
  BY <1>1 DEF Settlement!CompleteNavigation, Settlement!SettledIfUnresolved
<1>3. PICK why \in {"pending", "none"} :
          doubtful' = Settlement!Becomes("failed", "known_effect", why)
  BY DEF Settlement!CompleteNavigation
<1> QED BY <1>1, <1>2, <1>3, SettlesWhole

LEMMA DoubtCallStep ==
    ASSUME DoubtInvariant, NEW c \in Calls, Settlement!CallNext(c)
    PROVE  DoubtInvariant' /\ StaysSettled
<1> USE DEF Settlement!ledger, Settlement!world
<1>1. CASE UNCHANGED <<op, doubtful, time>>
  BY <1>1, KeepsDoubt DEF DoubtInvariant, DoubtTypeOK
<1>2. CASE Settlement!ReadBack(c)
  <2>1. time' = time
    BY <1>2 DEF Settlement!ReadBack
  <2>2. \/ Settlement!NavigationApplies /\ Settlement!CompleteNavigation
        \/ Settlement!Uncertain /\ Settlement!CompleteTask
        \/ UNCHANGED <<op, doubtful>>
    BY <1>2 DEF Settlement!ReadBack
  <2> QED BY <1>1, <2>1, <2>2, DoubtCompletes, NavigationCompletes
<1>3. CASE Settlement!FoundJob(c)
  BY <1>1, <1>3, DoubtCompletes DEF Settlement!FoundJob
<1>4. CASE Settlement!AbsenceJob(c)
  <2>1. /\ UNCHANGED <<op, time>>
        /\ \/ UNCHANGED doubtful
           \/ doubtful' = [doubtful EXCEPT !.read = IF doubtful.read = None THEN time
                                                   ELSE doubtful.read]
    BY <1>4 DEF Settlement!AbsenceJob
  <2>2. /\ DoubtTypeOK' /\ doubtful'.state = doubtful.state
        /\ doubtful'.effect = doubtful.effect
    BY <2>1 DEF DoubtInvariant, DoubtTypeOK
  <2> QED BY <2>1, <2>2, KeepsDoubt
<1>5. CASE Settlement!NotSentJob(c)
  <2>1. time' = time
    BY <1>5 DEF Settlement!NotSentJob
  <2>2. CASE Settlement!Uncertain
    <3>1. doubtful.effect = "unknown_effect"
      BY <2>2 DEF DoubtInvariant, DoubtSettled, Settlement!Uncertain
    <3> QED BY <1>5, <2>1, <2>2, <3>1, SettlesWhole DEF Settlement!NotSentJob
  <2> QED BY <1>1, <1>5, <2>1, <2>2 DEF Settlement!NotSentJob
<1>6. CASE Settlement!RebindCapsuleJob(c)
  <2>1. UNCHANGED <<op, time>>
    BY <1>6 DEF Settlement!RebindCapsuleJob
  <2>2. CASE UNCHANGED doubtful
    BY <1>1, <2>1, <2>2
  <2>3. ASSUME NEW here \in BOOLEAN, NEW owned \in BOOLEAN,
               doubtful' = [doubtful EXCEPT !.here = here, !.moved = TRUE, !.at = time,
                                            !.owned = owned]
        PROVE  DoubtInvariant' /\ StaysSettled
    <3>1. /\ DoubtTypeOK' /\ doubtful'.state = doubtful.state
          /\ doubtful'.effect = doubtful.effect
      BY <2>1, <2>3 DEF DoubtInvariant, DoubtTypeOK
    <3> QED BY <2>1, <3>1, KeepsDoubt
  <2>4. PICK here \in BOOLEAN : here = (caller[c].grip # "nothing")
    OBVIOUS
  <2>5. PICK owned \in BOOLEAN : owned = (caller[c].grip \in {"lease", "session"})
    <3>1. CASE caller[c].grip \in {"lease", "session"}
      <4>1. TRUE = (caller[c].grip \in {"lease", "session"})
        BY <3>1
      <4> QED BY <4>1, Zenon
    <3>2. CASE caller[c].grip \notin {"lease", "session"}
      <4>1. FALSE = (caller[c].grip \in {"lease", "session"})
        BY <3>2
      <4> QED BY <4>1, Zenon
    <3> QED BY <3>1, <3>2
  <2>6. \/ UNCHANGED doubtful
        \/ doubtful' = [doubtful EXCEPT !.here = here, !.moved = TRUE, !.at = time,
                                        !.owned = owned]
    BY <1>6, <2>4, <2>5, Zenon DEF Settlement!RebindCapsuleJob
  <2> QED BY <2>2, <2>3, <2>6
<1> QED
  BY <1>1, <1>2, <1>3, <1>4, <1>5, <1>6
  DEF Settlement!CallNext, Settlement!Completes, Settlement!RecordJob, Settlement!Refused,
      Settlement!SettlesAsFound, Settlement!Rebinds, Settlement!RebindRecordJob

LEMMA DoubtIsAnswered ==
    ASSUME DoubtInvariant, NEW effect \in {"known_effect", "known_no_effect"},
           Settlement!LateAnswer(effect)
    PROVE  DoubtInvariant' /\ StaysSettled
<1> USE DEF Settlement!ledger, Settlement!world
<1>1. UNCHANGED <<doubtful, time>>
  BY DEF Settlement!LateAnswer
<1>2. CASE op.state = "unknown_effect"
  <2>1. PICK proven \in BOOLEAN : proven = (effect = "known_no_effect")
    OBVIOUS
  <2>2. op' = [Settlement!Settled(effect) EXCEPT !.awaited = FALSE, !.proven = proven]
    BY <1>2, <2>1, Zenon DEF Settlement!LateAnswer
  <2>3. /\ op'.state = "reconciled" /\ op'.effect = effect
        /\ op' \in [state : OpStates, effect : Effects, awaited : BOOLEAN, proven : BOOLEAN,
                    at : Nat]
    BY <2>2
    DEF DoubtInvariant, DoubtTypeOK, OpStates, Effects, Settlement!Settled
  <2> QED BY <1>1, <1>2, <2>3 DEF DoubtInvariant, DoubtTypeOK, DoubtSettled, StaysSettled
<1>3. CASE op.state # "unknown_effect"
  <2>1. op' = [op EXCEPT !.awaited = FALSE]
    BY <1>3 DEF Settlement!LateAnswer
  <2> QED BY <1>1, <2>1, KeepsDoubt, ZenonT(30) DEF DoubtInvariant, DoubtTypeOK
<1> QED BY <1>2, <1>3

LEMMA DoubtEnds ==
    ASSUME DoubtInvariant,
           \/ Settlement!Terminalizes \/ Settlement!Repairs
           \/ Settlement!Archives \/ Settlement!Purges
    PROVE  DoubtInvariant' /\ StaysSettled
<1> USE DEF Settlement!ledger, Settlement!world
<1>1. CASE Settlement!Terminalizes
  <2>1. /\ Settlement!Uncertain /\ UNCHANGED <<op, time>>
        /\ doubtful' = Settlement!Becomes("failed", "unknown_effect", "none")
    BY <1>1 DEF Settlement!Terminalizes
  <2> QED
    BY <2>1 DEF DoubtInvariant, DoubtTypeOK, DoubtSettled, StaysSettled, Effects,
                Settlement!Becomes, Settlement!Uncertain
<1>2. CASE Settlement!Repairs
  <2>1. /\ Settlement!Uncertain /\ UNCHANGED <<op, time>>
        /\ doubtful' = Settlement!Becomes("failed", doubtful.effect, "none")
    BY <1>2 DEF Settlement!Repairs
  <2> QED
    BY <2>1 DEF DoubtInvariant, DoubtTypeOK, DoubtSettled, StaysSettled, Effects,
                Settlement!Becomes, Settlement!Uncertain
<1>3. CASE Settlement!Archives
  <2>1. op' = [op EXCEPT !.at = time] /\ UNCHANGED <<doubtful, time>>
    BY <1>3 DEF Settlement!Archives
  <2> QED BY <2>1, KeepsDoubt DEF DoubtInvariant, DoubtTypeOK
<1>4. CASE Settlement!Purges
  <2>1. /\ op' = [Settlement!NoOperation EXCEPT !.state = "purged"]
        /\ UNCHANGED <<doubtful, time>>
    BY <1>4 DEF Settlement!Purges
  <2>2. /\ op'.state = "purged" /\ op'.effect = "known_no_effect"
        /\ op' \in [state : OpStates, effect : Effects, awaited : BOOLEAN, proven : BOOLEAN,
                    at : Nat]
    BY <2>1 DEF Settlement!NoOperation, OpStates, Effects
  <2> QED BY <2>1, <2>2 DEF DoubtInvariant, DoubtTypeOK, DoubtSettled, StaysSettled
<1> QED BY <1>1, <1>2, <1>3, <1>4

LEMMA DoubtUpset ==
    ASSUME DoubtInvariant,
           \/ Settlement!EndsSession \/ Settlement!ExtensionRestarts
           \/ Settlement!BrokerRestarts
    PROVE  DoubtInvariant' /\ StaysSettled
<1>1. /\ doubtful' \in {[doubtful EXCEPT !.owned = FALSE],
                       [doubtful EXCEPT !.owned = FALSE, !.here = FALSE]}
      /\ op' \in {op, [op EXCEPT !.awaited = FALSE]} /\ time' = time
  <2>1. CASE Settlement!EndsSession
    BY <2>1 DEF Settlement!EndsSession, Settlement!NoSession
  <2>2. CASE Settlement!ExtensionRestarts
    BY <2>2 DEF Settlement!ExtensionRestarts
  <2>3. CASE Settlement!BrokerRestarts
    BY <2>3 DEF Settlement!BrokerRestarts, Settlement!NoSession
  <2> QED BY <2>1, <2>2, <2>3
<1>2. /\ op'.state = op.state /\ op'.effect = op.effect
      /\ op' \in [state : OpStates, effect : Effects, awaited : BOOLEAN, proven : BOOLEAN,
                  at : Nat]
  BY <1>1 DEF DoubtInvariant, DoubtTypeOK
<1>3. /\ doubtful'.state = doubtful.state /\ doubtful'.effect = doubtful.effect
      /\ DoubtTypeOK'
  <2>1. CASE doubtful' = [doubtful EXCEPT !.owned = FALSE]
    BY <1>1, <1>2, <2>1 DEF DoubtInvariant, DoubtTypeOK
  <2>2. CASE doubtful' = [doubtful EXCEPT !.owned = FALSE, !.here = FALSE]
    BY <1>1, <1>2, <2>2 DEF DoubtInvariant, DoubtTypeOK
  <2> QED BY <1>1, <2>1, <2>2
<1> QED BY <1>2, <1>3, KeepsDoubt

LEMMA DoubtStep ==
    ASSUME DoubtInvariant, [Settlement!Next]_(Settlement!vars)
    PROVE  DoubtInvariant' /\ StaysSettled
<1> USE DEF Settlement!ledger, Settlement!world
<1>1. CASE UNCHANGED <<op, doubtful, time>>
  BY <1>1, KeepsDoubt DEF DoubtInvariant, DoubtTypeOK
<1>2. CASE Settlement!Ticks
  <2>1. UNCHANGED <<op, doubtful>> /\ time' = time + 1
    BY <1>2 DEF Settlement!Ticks
  <2> QED BY <2>1, KeepsDoubt DEF DoubtInvariant, DoubtTypeOK
<1>3. CASE \/ Settlement!Inspects \/ Settlement!Reserves \/ Settlement!Releases
           \/ Settlement!OpensSession \/ Settlement!PageReloads
           \/ Settlement!OtherInDoubt \/ Settlement!OtherSettles
           \/ \E what \in {"success", "arrived"} : Settlement!PageShows(what)
  <2>1. UNCHANGED <<op, doubtful, time>>
    BY <1>3
    DEF Settlement!Inspects, Settlement!Reserves, Settlement!Releases, Settlement!OpensSession,
        Settlement!PageReloads, Settlement!OtherInDoubt, Settlement!OtherSettles,
        Settlement!PageShows
  <2> QED BY <1>1, <2>1
<1>4. CASE Settlement!Next
  BY <1>2, <1>3, <1>4, DoubtCallStep, DoubtIsAnswered, DoubtEnds, DoubtUpset
  DEF Settlement!Next
<1>5. CASE UNCHANGED Settlement!vars
  BY <1>1, <1>5 DEF Settlement!vars
<1> QED BY <1>4, <1>5

LEMMA AlwaysDoubtInvariant == Settlement!Spec => []DoubtInvariant
BY DoubtInit, DoubtStep, PTL DEF Settlement!Spec

\* Whoever settles an operation in doubt or its capsule first, of any number of calls, late
\* answers and sweeps, has settled it for good (completeTaskReconciliation,
\* settleNotSentFromEvidence and reconcile check again in the job).
THEOREM DoubtsAreSettledOnce == Settlement!Spec => SettledOnce
<1>1. DoubtInvariant /\ [Settlement!Next]_(Settlement!vars) => [StaysSettled]_(Settlement!vars)
  BY DoubtStep
<1>2. Settlement!Spec => [][StaysSettled]_(Settlement!vars)
  BY <1>1, AlwaysDoubtInvariant, PTL DEF Settlement!Spec
<1> QED BY <1>2 DEF SettledOnce, Settlement!SettledOnce, StaysSettled

\* A settled capsule leaves no operation in doubt, also when it was moved to another generation
\* of the Extension in between.
THEOREM SettlementsAreWhole == Settlement!Spec => []SettlementIsWhole
<1>1. DoubtInvariant => SettlementIsWhole
  BY DEF DoubtInvariant, DoubtSettled, SettlementIsWhole, Settlement!SettlementIsWhole,
         Settlement!Unresolved
<1> QED BY <1>1, AlwaysDoubtInvariant, PTL

\* A task that is told that its tab may be resumed (#prepareResume) has a status that lets it go
\* on (#taskStatus), or a doubt of its run lies on another tab.
THEOREM AdviceAlwaysAgrees == Settlement!Spec => []AdviceAgrees
<1>1. DoubtInvariant => AdviceAgrees
  BY DEF DoubtInvariant, DoubtSettled, AdviceAgrees, Settlement!AdviceAgrees,
         Settlement!ResumeReady, Settlement!ContinuationAllowed, Settlement!Undecided,
         Settlement!Uncertain, Settlement!EffectState, Settlement!TargetUnresolved,
         Settlement!UnresolvedEffects, Settlement!OfRun, Settlement!OnTab
<1> QED BY <1>1, AlwaysDoubtInvariant, PTL

-----------------------------------------------------------------------------
(* Replacing a lost target (TargetRecovery).                               *)

\* The stages of a call that holds the receipt: before its command left, and after.
BeforeSend == {"puts", "dispatches", "prepares", "sends"}
AfterSend == {"waits", "reads", "completes", "applies", "fails", "failed"}
Holding == BeforeSend \union AfterSend

\* The receipt is given to one call, for good; a command is sent by the call that holds it, once.
RecoveryInvariant ==
    /\ retrier \in [Calls -> {"idle", "looks", "reserves"} \union Holding]
    /\ created \in Nat /\ wire \in {"none", "sent", "done", "refused"}
    /\ wire # "done" => created = 0
    /\ created <= 1
    /\ recoveryReceipt = "none" => wire = "none" /\ \A c \in Calls : retrier[c] \notin Holding
    /\ \A c, d \in Calls : retrier[c] \in Holding /\ retrier[d] \in Holding => c = d
    /\ \A c \in Calls : retrier[c] \in BeforeSend => wire = "none"
    /\ \A c \in Calls : retrier[c] \in {"reserves"} \union Holding => ~old /\ source = "no_effect"
    /\ wire # "none" => ~old /\ source = "no_effect"

LEMMA RecoveryInit == Replacement!Init => RecoveryInvariant
BY DEF Replacement!Init, RecoveryInvariant, Holding, BeforeSend, AfterSend

\* A call changes its own stage only.
LEMMA RecoveryGoes ==
    ASSUME RecoveryInvariant, NEW c \in Calls, NEW stage, Replacement!Goes(c, stage)
    PROVE  /\ retrier'[c] = stage /\ \A d \in Calls \ {c} : retrier'[d] = retrier[d]
           /\ retrier' = [d \in Calls |-> retrier'[d]]
BY DEF RecoveryInvariant, Replacement!Goes

\* Of a call that holds the receipt already, or never gets it.
LEMMA RecoveryGoesOn ==
    ASSUME RecoveryInvariant, NEW c \in Calls,
           NEW stage \in {"idle", "looks", "reserves"} \union Holding,
           Replacement!Goes(c, stage), UNCHANGED <<created, wire, old, source>>,
           stage \in Holding => retrier[c] \in Holding,
           stage \in BeforeSend => retrier[c] \in BeforeSend,
           stage = "reserves" => ~old /\ source = "no_effect",
           recoveryReceipt' = "none" => recoveryReceipt = "none"
    PROVE  RecoveryInvariant'
<1>1. /\ retrier'[c] = stage /\ \A d \in Calls \ {c} : retrier'[d] = retrier[d]
      /\ retrier' = [d \in Calls |-> retrier'[d]]
  BY RecoveryGoes
<1> QED BY <1>1 DEF RecoveryInvariant, Holding

LEMMA RecoveryReserves ==
    ASSUME RecoveryInvariant, NEW c \in Calls, Replacement!ReserveJob(c)
    PROVE  RecoveryInvariant'
<1> USE DEF Replacement!outside
<1>1. CASE recoveryReceipt = "none"
  <2>1. /\ recoveryReceipt' = "prepared" /\ Replacement!Goes(c, "puts")
        /\ UNCHANGED <<created, wire, old, source>> /\ retrier[c] = "reserves"
    BY <1>1 DEF Replacement!ReserveJob, Replacement!Reservable
  <2>2. /\ retrier'[c] = "puts" /\ \A d \in Calls \ {c} : retrier'[d] = retrier[d]
        /\ retrier' = [d \in Calls |-> retrier'[d]]
    BY <2>1, RecoveryGoes
  <2> QED BY <1>1, <2>1, <2>2 DEF RecoveryInvariant, Holding, BeforeSend
<1>2. CASE recoveryReceipt # "none"
  <2>1. Replacement!Goes(c, "idle") /\ UNCHANGED <<recoveryReceipt, created, wire, old, source>>
    BY <1>2 DEF Replacement!ReserveJob, Replacement!Reservable, Replacement!Ends
  <2> QED BY <2>1, RecoveryGoesOn DEF Holding, BeforeSend, AfterSend
<1> QED BY <1>1, <1>2

LEMMA RecoverySends ==
    ASSUME RecoveryInvariant, NEW c \in Calls, Replacement!SendJob(c)
    PROVE  RecoveryInvariant'
<1>1. /\ retrier[c] = "sends" /\ UNCHANGED <<recoveryReceipt, created, old, source>>
      /\ \/ Replacement!Goes(c, "waits") /\ wire' = "sent"
         \/ Replacement!Goes(c, "fails") /\ UNCHANGED wire
  BY DEF Replacement!SendJob
<1>2. CASE Replacement!Goes(c, "waits") /\ wire' = "sent"
  <2>1. /\ retrier'[c] = "waits" /\ \A d \in Calls \ {c} : retrier'[d] = retrier[d]
        /\ retrier' = [d \in Calls |-> retrier'[d]]
    BY <1>2, RecoveryGoes
  <2>2. retrier[c] \in BeforeSend /\ retrier'[c] \in AfterSend /\ retrier'[c] \notin BeforeSend
    BY <1>1, <2>1 DEF BeforeSend, AfterSend
  <2> QED BY <1>1, <1>2, <2>1, <2>2 DEF RecoveryInvariant, Holding
<1>3. CASE Replacement!Goes(c, "fails") /\ UNCHANGED wire
  BY <1>1, <1>3, RecoveryGoesOn DEF Holding, BeforeSend, AfterSend
<1> QED BY <1>1, <1>2, <1>3

LEMMA RecoveryCallStep ==
    ASSUME RecoveryInvariant, NEW c \in Calls,
           \/ Replacement!Begins(c) \/ Replacement!Looks(c) \/ Replacement!PutJob(c)
           \/ Replacement!DispatchJob(c) \/ Replacement!PrepareJob(c) \/ Replacement!Answered(c)
           \/ Replacement!TimesOut(c) \/ Replacement!ReadsBack(c) \/ Replacement!CompleteJob(c)
           \/ Replacement!ApplyJob(c) \/ Replacement!FailJob(c) \/ Replacement!FailCapsuleJob(c)
    PROVE  RecoveryInvariant'
<1> USE DEF Replacement!outside, Replacement!entries
<1>1. UNCHANGED <<created, wire, old, source>>
  BY DEF Replacement!Begins, Replacement!Looks, Replacement!PutJob, Replacement!DispatchJob,
         Replacement!PrepareJob, Replacement!Answered, Replacement!TimesOut,
         Replacement!ReadsBack, Replacement!CompleteJob, Replacement!ApplyJob,
         Replacement!FailJob, Replacement!FailCapsuleJob
<1>2. recoveryReceipt' = "none" => recoveryReceipt = "none"
  BY DEF Replacement!Begins, Replacement!Looks, Replacement!PutJob, Replacement!DispatchJob,
         Replacement!PrepareJob, Replacement!Answered, Replacement!TimesOut,
         Replacement!ReadsBack, Replacement!CompleteJob, Replacement!ApplyJob,
         Replacement!FailJob, Replacement!FailCapsuleJob
<1>3. \/ Replacement!Goes(c, "idle") \/ Replacement!Goes(c, "looks")
      \/ Replacement!Goes(c, "reserves") /\ ~old /\ source = "no_effect"
      \/ /\ retrier[c] \in {"puts", "dispatches"}
         /\ Replacement!Goes(c, "dispatches") \/ Replacement!Goes(c, "prepares")
      \/ retrier[c] = "prepares" /\ Replacement!Goes(c, "sends")
      \/ /\ retrier[c] \in AfterSend
         /\ \E stage \in AfterSend : Replacement!Goes(c, stage)
  BY DEF AfterSend, Replacement!Begins, Replacement!Looks, Replacement!PutJob,
         Replacement!DispatchJob, Replacement!PrepareJob, Replacement!Answered,
         Replacement!TimesOut, Replacement!ReadsBack, Replacement!CompleteJob,
         Replacement!ApplyJob, Replacement!FailJob, Replacement!FailCapsuleJob,
         Replacement!Ends, Replacement!Valid
<1>4. AfterSend \intersect BeforeSend = {}
  BY DEF AfterSend, BeforeSend
<1> QED BY <1>1, <1>2, <1>3, <1>4, RecoveryGoesOn DEF Holding, BeforeSend, AfterSend

LEMMA RecoveryAround ==
    ASSUME RecoveryInvariant,
           \/ Replacement!TabAppears \/ Replacement!CreationRefused \/ Replacement!LateAnswer
           \/ Replacement!SourceSettles \/ Replacement!UserCloses \/ Replacement!BrokerRestarts
           \/ \E replaced \in BOOLEAN : Replacement!SessionLost(replaced)
    PROVE  RecoveryInvariant'
<1> USE DEF Replacement!outside, Replacement!entries
<1>1. CASE Replacement!TabAppears
  BY <1>1 DEF RecoveryInvariant, Replacement!TabAppears
<1>2. CASE Replacement!CreationRefused
  BY <1>2 DEF RecoveryInvariant, Replacement!CreationRefused
<1>3. CASE Replacement!LateAnswer
  BY <1>3 DEF RecoveryInvariant, Replacement!LateAnswer
<1>4. CASE Replacement!SourceSettles
  BY <1>4 DEF RecoveryInvariant, Replacement!SourceSettles
<1>5. CASE Replacement!UserCloses
  BY <1>5 DEF RecoveryInvariant, Replacement!UserCloses
<1>6. CASE Replacement!BrokerRestarts
  <2>1. /\ UNCHANGED <<created, wire, old, source>> /\ retrier' = [c \in Calls |-> "idle"]
        /\ recoveryReceipt' = "none" => recoveryReceipt = "none"
    BY <1>6 DEF Replacement!BrokerRestarts, Replacement!Reloaded
  <2>2. "idle" \notin Holding \union {"reserves"}
    BY DEF Holding, BeforeSend, AfterSend
  <2> QED BY <2>1, <2>2 DEF RecoveryInvariant, Holding
<1>7. ASSUME NEW replaced \in BOOLEAN, Replacement!SessionLost(replaced)
      PROVE  RecoveryInvariant'
  <2>1. /\ UNCHANGED <<created, old, source, retrier, recoveryReceipt>>
        /\ wire' = wire \/ (wire = "sent" /\ wire' \in {"sent", "refused"})
    BY <1>7 DEF Replacement!SessionLost
  <2> QED BY <2>1 DEF RecoveryInvariant
<1> QED BY <1>1, <1>2, <1>3, <1>4, <1>5, <1>6, <1>7

LEMMA RecoveryStep ==
    ASSUME RecoveryInvariant, [Replacement!Next]_(Replacement!vars)
    PROVE  RecoveryInvariant'
<1>1. CASE Replacement!Next
  BY <1>1, RecoveryCallStep, RecoveryReserves, RecoverySends, RecoveryAround
  DEF Replacement!Next
<1>2. CASE UNCHANGED Replacement!vars
  BY <1>2 DEF Replacement!vars, RecoveryInvariant
<1> QED BY <1>1, <1>2

\* However many calls of task.recover_target are made and overlap, and whatever is lost between
\* them: one tab replaces the lost one, and only after a failure that is known to have done
\* nothing (reserveTargetRecovery, validateTargetRecoverySource).
THEOREM OneReplacement == Replacement!Spec => []CreatedOnce
<1>1. RecoveryInvariant => CreatedOnce
  BY DEF RecoveryInvariant, CreatedOnce, Replacement!CreatedOnce
<1> QED BY <1>1, RecoveryInit, RecoveryStep, PTL DEF Replacement!Spec

-----------------------------------------------------------------------------
(* Visual inputs: a proof serves one input, for the image it was signed on. *)

ProofRange == [lease : Nat, document : Nat, shown : Nat]
InputRange == [by : SUBSET Nat, late : SUBSET Nat, seen : Nat]

VisualTypes ==
    /\ document \in Nat /\ leased \in Nat /\ given \in Nat /\ dawn \in Nat /\ signed \in Nat
    /\ proofs \in [1..MaxProofs -> ProofRange]
    /\ DOMAIN stands = Calls /\ DOMAIN doing = Calls
    /\ under \in [Calls -> Nat] /\ looked \in [Calls -> Nat] /\ shown \in [Calls -> Nat]
    /\ from \in [Calls -> Nat] /\ to \in [Calls -> Nat] /\ late \in [Calls -> SUBSET Nat]
    /\ inputs \in Seq(InputRange)

Signed(n) == n \in Nat /\ 0 < n /\ n <= signed
LookedAt == {"verifies_to", "looks_to", "spends", "dispatches", "guards", "inputs"}
Settled == {"spends", "dispatches", "guards", "inputs"}
Claimed == {"dispatches", "guards", "inputs"}

\* The leases are counted: what a call of this broker works under is newer than the broker.
LeasesCounted ==
    /\ dawn <= given /\ leased <= given
    /\ leased # 0 => dawn < leased
    /\ \A c \in Calls : under[c] <= given
    /\ \A c \in Calls : stands[c] \notin {"idle", "reads", "guards", "inputs"} => dawn < under[c]
    /\ signed <= MaxProofs
    /\ \A n \in 1..MaxProofs : proofs[n].lease <= given

\* A call has the proofs it verified, and they are of its lease.
HasFrom(c) == Signed(from[c]) /\ proofs[from[c]].lease = under[c]
HasTo(c) == Signed(to[c]) /\ proofs[to[c]].lease = under[c]
ProofsVerified ==
    \A c \in Calls :
        /\ stands[c] \in LookedAt \union {"looks"} => HasFrom(c)
        /\ stands[c] = "looks_to" \/ (stands[c] \in Settled /\ doing[c] = "drag") => HasTo(c)

\* The fresh proofs that a call has spent and not used yet.
Claim(c) == IF stands[c] \in Claimed THEN Visual!Used(c) \ late[c] ELSE {}

\* A spent proof is remembered until it has expired, or is of an earlier broker's lease.
Remembered(n) == n \in spent \union expired \/ proofs[n].lease <= dawn

SpentOnce ==
    /\ \A c \in Calls : \A n \in Claim(c) : Remembered(n)
    /\ \A i \in DOMAIN inputs : \A n \in Visual!Warrant(i) : Remembered(n)
    /\ \A c, d \in Calls : c # d => Claim(c) \intersect Claim(d) = {}
    /\ \A c \in Calls : \A i \in DOMAIN inputs : Claim(c) \intersect Visual!Warrant(i) = {}
    /\ \A i, j \in DOMAIN inputs : i # j => Visual!Warrant(i) \intersect Visual!Warrant(j) = {}

\* Documents are counted, so an image lies between the look before it and the page of now.
ImagesBetween ==
    /\ \A c \in Calls : looked[c] <= document /\ shown[c] <= document
    /\ \A c \in Calls : stands[c] \in {"compares", "recompares", "signs"} => looked[c] <= shown[c]
    /\ \A n \in 1..MaxProofs : proofs[n].document <= proofs[n].shown /\ proofs[n].shown <= document

\* What a call last saw is the image of its proofs.
AimsSettled ==
    \A c \in Calls :
        /\ stands[c] \in LookedAt => proofs[from[c]].shown = looked[c]
        /\ stands[c] = "looks_to" => proofs[to[c]].document = looked[c]
        /\ stands[c] \in Settled /\ doing[c] = "drag" => proofs[to[c]].shown = looked[c]

InputsAimed ==
    \A i \in DOMAIN inputs : \A n \in inputs[i].by :
        Signed(n) /\ proofs[n].shown = inputs[i].seen

VisualInvariant ==
    /\ VisualTypes /\ LeasesCounted /\ ProofsVerified /\ SpentOnce
    /\ ImagesBetween /\ AimsSettled /\ InputsAimed

LEMMA VisualInit == Visual!Init => VisualInvariant
<1> SUFFICES ASSUME Visual!Init PROVE VisualInvariant
  OBVIOUS
<1> USE BoundAssumption DEF Visual!Init, Visual!Proofs, Visual!NoProof
<1>1. VisualTypes
  BY DEF VisualTypes, ProofRange, InputRange
<1>2. LeasesCounted /\ ImagesBetween
  BY DEF LeasesCounted, ImagesBetween
<1>4. ProofsVerified /\ AimsSettled
  BY DEF ProofsVerified, AimsSettled, LookedAt, Settled
<1>3. SpentOnce /\ InputsAimed
  BY DEF SpentOnce, InputsAimed, Claim, Claimed
<1> QED
  BY <1>1, <1>2, <1>3, <1>4 DEF VisualInvariant

LEMMA VisualTypesStep == ASSUME VisualTypes, Visual!Next PROVE VisualTypes'
<1> USE DEF VisualTypes, Visual!Goes, Visual!Sees, Visual!Drop, Visual!StepOver, Visual!Leaves,
            Visual!leaseVars, Visual!proofVars, Visual!lookVars, Visual!stepVars
<1>1. CASE Visual!Navigates
  BY <1>1 DEF Visual!Navigates, Visual!Upset
<1>2. CASE Visual!Reserves
  BY <1>2 DEF Visual!Reserves
<1>3. CASE Visual!LosesLease
  BY <1>3 DEF Visual!LosesLease, Visual!Upset
<1>4. CASE Visual!Expires
  BY <1>4 DEF Visual!Expires
<1>5. CASE Visual!Restarts
  BY <1>5 DEF Visual!Restarts, Visual!Upset, Visual!AtExtension
<1>6. ASSUME NEW c \in Calls, Visual!AsksToLook(c) PROVE VisualTypes'
  BY <1>6 DEF Visual!AsksToLook, Visual!Inspections
<1>7. ASSUME NEW c \in Calls, Visual!Inspects(c) PROVE VisualTypes'
  BY <1>7 DEF Visual!Inspects
<1>8. ASSUME NEW c \in Calls, Visual!Captures(c) PROVE VisualTypes'
  BY <1>8 DEF Visual!Captures
<1>9. ASSUME NEW c \in Calls, Visual!Compares(c) PROVE VisualTypes'
  BY <1>9 DEF Visual!Compares
<1>10. ASSUME NEW c \in Calls, Visual!Signs(c) PROVE VisualTypes'
  BY <1>10, BoundAssumption DEF Visual!Signs, ProofRange
<1>11. ASSUME NEW c \in Calls, Visual!Begins(c) PROVE VisualTypes'
  BY <1>11 DEF Visual!Begins, Visual!Acts
<1>12. ASSUME NEW c \in Calls, Visual!Reads(c) PROVE VisualTypes'
  BY <1>12 DEF Visual!Reads
<1>13. ASSUME NEW c \in Calls, Visual!Verifies(c) PROVE VisualTypes'
  BY <1>13 DEF Visual!Verifies, Visual!Proofs
<1>14. ASSUME NEW c \in Calls, Visual!Looks(c) PROVE VisualTypes'
  BY <1>14 DEF Visual!Looks
<1>15. ASSUME NEW c \in Calls, Visual!VerifiesTo(c) PROVE VisualTypes'
  BY <1>15 DEF Visual!VerifiesTo, Visual!Proofs
<1>16. ASSUME NEW c \in Calls, Visual!LooksTo(c) PROVE VisualTypes'
  BY <1>16 DEF Visual!LooksTo
<1>17. ASSUME NEW c \in Calls, Visual!Spends(c) PROVE VisualTypes'
  BY <1>17 DEF Visual!Spends, Visual!Used
<1>18. ASSUME NEW c \in Calls, Visual!Dispatches(c) PROVE VisualTypes'
  BY <1>18 DEF Visual!Dispatches
<1>19. ASSUME NEW c \in Calls, Visual!Guards(c) PROVE VisualTypes'
  BY <1>19 DEF Visual!Guards
<1>20. ASSUME NEW c \in Calls, Visual!Inputs(c) PROVE VisualTypes'
  BY <1>20 DEF Visual!Inputs, Visual!Used, InputRange
<1>21. ASSUME NEW c \in Calls, Visual!Ends(c) PROVE VisualTypes'
  BY <1>21 DEF Visual!Ends
<1> QED
  BY <1>1, <1>2, <1>3, <1>4, <1>5, <1>6, <1>7, <1>8, <1>9, <1>10, <1>11, <1>12, <1>13, <1>14,
     <1>15, <1>16, <1>17, <1>18, <1>19, <1>20, <1>21 DEF Visual!Next

\* A signature is one more proof and the end of the inspection.
LEMMA SignsEffect ==
    ASSUME VisualInvariant, NEW c \in Calls, Visual!Signs(c)
    PROVE  /\ UNCHANGED <<document, leased, given, dawn, spent, expired, inputs>>
           /\ stands[c] = "signs" /\ signed' = signed + 1 /\ signed + 1 \in 1..MaxProofs
           /\ proofs'[signed + 1] = [lease |-> under[c], document |-> looked[c], shown |-> shown[c]]
           /\ \A n \in 1..MaxProofs : n # signed + 1 => proofs'[n] = proofs[n]
           /\ \A d \in Calls : d # c =>
                UNCHANGED <<stands[d], doing[d], under[d], looked[d], shown[d], from[d], to[d],
                            late[d]>>
           /\ stands'[c] = "idle" /\ looked'[c] = 0 /\ shown'[c] = 0
<1> USE DEF VisualInvariant, VisualTypes, Visual!Signs, Visual!Leaves, Visual!StepOver,
            Visual!Goes, Visual!Drop, Visual!leaseVars
<1>1. /\ UNCHANGED <<document, leased, given, dawn, spent, expired, inputs>>
      /\ stands[c] = "signs" /\ signed' = signed + 1 /\ signed + 1 \in 1..MaxProofs
  BY BoundAssumption
<1>2. /\ proofs'[signed + 1] = [lease |-> under[c], document |-> looked[c], shown |-> shown[c]]
      /\ \A n \in 1..MaxProofs : n # signed + 1 => proofs'[n] = proofs[n]
  BY <1>1
<1>3. /\ \A d \in Calls : d # c =>
            UNCHANGED <<stands[d], doing[d], under[d], looked[d], shown[d], from[d], to[d],
                        late[d]>>
      /\ stands'[c] = "idle" /\ looked'[c] = 0 /\ shown'[c] = 0
  OBVIOUS
<1> QED
  BY <1>1, <1>2, <1>3

\* A look at the page before the input.
LEMMA LooksEffect ==
    ASSUME VisualInvariant, NEW c \in Calls, Visual!Looks(c) \/ Visual!LooksTo(c)
    PROVE  /\ UNCHANGED <<document, proofs, signed, doing, under, shown, from, to, late, inputs>>
           /\ looked'[c] = document /\ stands'[c] \in {"spends", "verifies_to"}
           /\ \A d \in Calls : d # c => UNCHANGED <<stands[d], looked[d]>>
           /\ stands[c] = "looks_to" => document = proofs[to[c]].document
           /\ stands[c] = "looks" => document = proofs[from[c]].document
           /\ stands[c] = "looks" => (doing[c] = "drag") = (stands'[c] = "verifies_to")
           /\ stands[c] \in {"looks", "looks_to"}
BY DEF VisualInvariant, VisualTypes, Visual!Looks, Visual!LooksTo, Visual!Goes, Visual!Sees,
       Visual!SameDocument, Visual!proofVars, Visual!stepVars

LEMMA SignsKeeps ==
    ASSUME VisualInvariant, NEW c \in Calls, Visual!Signs(c)
    PROVE  ProofsVerified' /\ ImagesBetween' /\ AimsSettled'
<1>1. /\ LeasesCounted /\ ProofsVerified /\ ImagesBetween /\ AimsSettled
      /\ document \in Nat /\ signed \in Nat /\ looked[c] \in Nat /\ shown[c] \in Nat
  BY DEF VisualInvariant, VisualTypes
<1>2. /\ document' = document /\ given' = given /\ dawn' = dawn
      /\ stands[c] = "signs" /\ signed' = signed + 1 /\ signed + 1 \in 1..MaxProofs
      /\ proofs'[signed + 1] = [lease |-> under[c], document |-> looked[c], shown |-> shown[c]]
      /\ \A n \in 1..MaxProofs : n # signed + 1 => proofs'[n] = proofs[n]
      /\ \A d \in Calls : d # c =>
           UNCHANGED <<stands[d], doing[d], under[d], looked[d], shown[d], from[d], to[d], late[d]>>
      /\ stands'[c] = "idle" /\ looked'[c] = 0 /\ shown'[c] = 0
  BY SignsEffect
<1>3. ASSUME NEW n, Signed(n) PROVE Signed(n)' /\ proofs'[n] = proofs[n]
  BY <1>1, <1>2, <1>3, BoundAssumption DEF Signed, LeasesCounted
<1>4. ASSUME NEW d \in Calls, d # c, HasFrom(d)
      PROVE  HasFrom(d)' /\ proofs'[from[d]] = proofs[from[d]]
  BY <1>2, <1>3, <1>4 DEF HasFrom
<1>5. ASSUME NEW d \in Calls, d # c, HasTo(d)
      PROVE  HasTo(d)' /\ proofs'[to[d]] = proofs[to[d]]
  BY <1>2, <1>3, <1>5 DEF HasTo
<1>6. ProofsVerified'
  BY <1>1, <1>2, <1>4, <1>5 DEF ProofsVerified, LookedAt, Settled
<1>7. ImagesBetween'
  <2>1. \A d \in Calls : /\ looked'[d] <= document' /\ shown'[d] <= document'
                         /\ stands'[d] \in {"compares", "recompares", "signs"}
                              => looked'[d] <= shown'[d]
    BY <1>1, <1>2 DEF ImagesBetween
  <2>2. ASSUME NEW n \in 1..MaxProofs
        PROVE  proofs'[n].document <= proofs'[n].shown /\ proofs'[n].shown <= document'
    BY <1>1, <1>2 DEF ImagesBetween
  <2> QED
    BY <2>1, <2>2 DEF ImagesBetween
<1>8. AimsSettled'
  <2> SUFFICES ASSUME NEW d \in Calls, d # c
               PROVE  /\ stands'[d] \in LookedAt => proofs'[from'[d]].shown = looked'[d]
                      /\ stands'[d] = "looks_to" => proofs'[to'[d]].document = looked'[d]
                      /\ stands'[d] \in Settled /\ doing'[d] = "drag"
                           => proofs'[to'[d]].shown = looked'[d]
    BY <1>2 DEF AimsSettled, LookedAt, Settled
  <2>1. UNCHANGED <<stands[d], doing[d], looked[d], from[d], to[d]>>
    BY <1>2
  <2>2. ASSUME stands[d] \in LookedAt PROVE proofs'[from[d]] = proofs[from[d]]
    BY <1>1, <1>4, <2>2 DEF ProofsVerified
  <2>3. ASSUME stands[d] = "looks_to" \/ (stands[d] \in Settled /\ doing[d] = "drag")
        PROVE  proofs'[to[d]] = proofs[to[d]]
    BY <1>1, <1>5, <2>3 DEF ProofsVerified
  <2>4. stands'[d] \in LookedAt => proofs'[from'[d]].shown = looked'[d]
    BY <1>1, <2>1, <2>2 DEF AimsSettled
  <2>5. stands'[d] = "looks_to" => proofs'[to'[d]].document = looked'[d]
    BY <1>1, <2>1, <2>3 DEF AimsSettled, ProofsVerified
  <2>6. stands'[d] \in Settled /\ doing'[d] = "drag" => proofs'[to'[d]].shown = looked'[d]
    BY <1>1, <2>1, <2>3 DEF AimsSettled
  <2> QED
    BY <2>4, <2>5, <2>6
<1> QED
  BY <1>6, <1>7, <1>8

LEMMA LooksKeeps ==
    ASSUME VisualInvariant, NEW c \in Calls, Visual!Looks(c) \/ Visual!LooksTo(c)
    PROVE  ImagesBetween' /\ AimsSettled'
<1>1. /\ LeasesCounted /\ ProofsVerified /\ ImagesBetween /\ AimsSettled
      /\ document \in Nat /\ signed \in Nat /\ proofs \in [1..MaxProofs -> ProofRange]
  BY DEF VisualInvariant, VisualTypes
<1>2. /\ UNCHANGED <<document, proofs, signed, doing, under, shown, from, to, late, inputs>>
      /\ looked'[c] = document /\ stands'[c] \in {"spends", "verifies_to"}
      /\ \A d \in Calls : d # c => UNCHANGED <<stands[d], looked[d]>>
      /\ stands[c] = "looks_to" => document = proofs[to[c]].document
      /\ stands[c] = "looks" => document = proofs[from[c]].document
      /\ stands[c] = "looks" => (doing[c] = "drag") = (stands'[c] = "verifies_to")
      /\ stands[c] \in {"looks", "looks_to"}
  BY LooksEffect
<1>3. ImagesBetween'
  BY <1>1, <1>2 DEF ImagesBetween
<1>4. ASSUME NEW n, Signed(n), document = proofs[n].document PROVE document = proofs[n].shown
  <2>1. /\ n \in 1..MaxProofs /\ proofs[n].shown \in Nat
        /\ proofs[n].document <= proofs[n].shown /\ proofs[n].shown <= document
    BY <1>1, <1>4, BoundAssumption DEF Signed, LeasesCounted, ImagesBetween, ProofRange
  <2> QED
    BY <1>1, <1>4, <2>1
<1>5. proofs[from[c]].shown = document
  <2>1. CASE stands[c] = "looks"
    BY <1>1, <1>2, <1>4, <2>1 DEF ProofsVerified, HasFrom
  <2>2. CASE stands[c] = "looks_to"
    BY <1>1, <1>2, <2>2 DEF AimsSettled, LookedAt
  <2> QED
    BY <1>2, <2>1, <2>2
<1>6. ASSUME stands[c] = "looks_to", doing[c] = "drag" PROVE proofs[to[c]].shown = document
  BY <1>1, <1>2, <1>4, <1>6 DEF ProofsVerified, HasTo
<1>7. AimsSettled'
  BY <1>1, <1>2, <1>5, <1>6 DEF AimsSettled, LookedAt, Settled
<1> QED
  BY <1>3, <1>7

\* No lease is given twice, and this broker's are newer than those of earlier ones.
LEMMA LeasesStep == ASSUME VisualInvariant, Visual!Next PROVE LeasesCounted'
<1> USE DEF VisualInvariant, VisualTypes, LeasesCounted, ProofRange, Visual!Goes, Visual!Sees,
      Visual!Drop, Visual!StepOver, Visual!Leaves, Visual!leaseVars, Visual!proofVars,
      Visual!lookVars, Visual!stepVars
<1>1. CASE Visual!Navigates
  BY <1>1 DEF Visual!Navigates, Visual!Upset
<1>2. CASE Visual!LosesLease
  BY <1>2 DEF Visual!LosesLease, Visual!Upset
<1>3. CASE Visual!Expires
  BY <1>3 DEF Visual!Expires
<1>4. CASE Visual!Reserves
  <2>1. /\ given' = given + 1 /\ leased' = given + 1
        /\ UNCHANGED <<dawn, under, stands, signed, proofs>>
    BY <1>4 DEF Visual!Reserves
  <2>2. \A n \in 1..MaxProofs : proofs[n].lease \in Nat
    OBVIOUS
  <2>3. dawn' <= given' /\ leased' <= given' /\ dawn' < leased'
    BY <2>1
  <2>4. /\ \A c \in Calls : under'[c] <= given'
        /\ \A n \in 1..MaxProofs : proofs'[n].lease <= given'
    BY <2>1, <2>2
  <2> QED
    BY <2>1, <2>3, <2>4
<1>5. CASE Visual!Restarts
  BY <1>5 DEF Visual!Restarts, Visual!Upset, Visual!AtExtension
<1>6. ASSUME NEW c \in Calls, Visual!AsksToLook(c) PROVE LeasesCounted'
  BY <1>6 DEF Visual!AsksToLook, Visual!Inspections
<1>7. ASSUME NEW c \in Calls, Visual!Begins(c) PROVE LeasesCounted'
  BY <1>7 DEF Visual!Begins, Visual!Acts
<1>8. ASSUME NEW c \in Calls, Visual!Inspects(c) PROVE LeasesCounted'
  BY <1>8 DEF Visual!Inspects, Visual!Held
<1>9. ASSUME NEW c \in Calls, Visual!Captures(c) PROVE LeasesCounted'
  BY <1>9 DEF Visual!Captures, Visual!Held
<1>10. ASSUME NEW c \in Calls, Visual!Compares(c) PROVE LeasesCounted'
  BY <1>10 DEF Visual!Compares, Visual!Held
<1>11. ASSUME NEW c \in Calls, Visual!Signs(c) PROVE LeasesCounted'
  BY <1>11, BoundAssumption, SMTT(30) DEF Visual!Signs
<1>12. ASSUME NEW c \in Calls, Visual!Reads(c) PROVE LeasesCounted'
  BY <1>12 DEF Visual!Reads, Visual!Held
<1>13. ASSUME NEW c \in Calls, Visual!Verifies(c) PROVE LeasesCounted'
  BY <1>13 DEF Visual!Verifies, Visual!Proofs, Visual!Verified
<1>14. ASSUME NEW c \in Calls, Visual!VerifiesTo(c) PROVE LeasesCounted'
  BY <1>14 DEF Visual!VerifiesTo, Visual!Proofs, Visual!Verified
<1>15. ASSUME NEW c \in Calls, Visual!Looks(c) PROVE LeasesCounted'
  BY <1>15 DEF Visual!Looks, Visual!SameDocument, Visual!Held
<1>16. ASSUME NEW c \in Calls, Visual!LooksTo(c) PROVE LeasesCounted'
  BY <1>16 DEF Visual!LooksTo, Visual!SameDocument, Visual!Held
<1>17. ASSUME NEW c \in Calls, Visual!Spends(c) PROVE LeasesCounted'
  BY <1>17 DEF Visual!Spends, Visual!Used, Visual!Spent, Visual!After
<1>18. ASSUME NEW c \in Calls, Visual!Dispatches(c) PROVE LeasesCounted'
  BY <1>18 DEF Visual!Dispatches, Visual!Held
<1>19. ASSUME NEW c \in Calls, Visual!Guards(c) PROVE LeasesCounted'
  BY <1>19 DEF Visual!Guards
<1>20. ASSUME NEW c \in Calls, Visual!Inputs(c) PROVE LeasesCounted'
  BY <1>20 DEF Visual!Inputs, Visual!Used
<1>21. ASSUME NEW c \in Calls, Visual!Ends(c) PROVE LeasesCounted'
  BY <1>21 DEF Visual!Ends
<1> QED
  BY <1>1, <1>2, <1>3, <1>4, <1>5, <1>6, <1>7, <1>8, <1>9, <1>10, <1>11, <1>12, <1>13,
      <1>14, <1>15, <1>16, <1>17, <1>18, <1>19, <1>20, <1>21 DEF Visual!Next

\* What a step verified stays its own until the step is over.
LEMMA ProofsStep == ASSUME VisualInvariant, Visual!Next PROVE ProofsVerified'
<1> USE DEF VisualInvariant, VisualTypes, LeasesCounted, ProofsVerified, ProofRange, HasFrom,
      HasTo, Signed, LookedAt, Settled, Visual!Goes, Visual!Sees, Visual!Drop, Visual!StepOver,
      Visual!Leaves, Visual!leaseVars, Visual!proofVars, Visual!lookVars, Visual!stepVars
<1>1. CASE Visual!Navigates \/ Visual!Reserves \/ Visual!LosesLease \/ Visual!Expires
  <2>1. UNCHANGED <<stands, doing, from, to, signed, proofs, under>>
    BY <1>1 DEF Visual!Navigates, Visual!Reserves, Visual!LosesLease, Visual!Expires
  <2> QED
    BY <2>1
<1>2. CASE Visual!Restarts
  BY <1>2 DEF Visual!Restarts, Visual!Upset, Visual!AtExtension
<1>3. ASSUME NEW c \in Calls, Visual!AsksToLook(c) PROVE ProofsVerified'
  BY <1>3 DEF Visual!AsksToLook, Visual!Inspections
<1>4. ASSUME NEW c \in Calls, Visual!Begins(c) PROVE ProofsVerified'
  BY <1>4 DEF Visual!Begins, Visual!Acts
<1>5. ASSUME NEW c \in Calls, Visual!Inspects(c) PROVE ProofsVerified'
  BY <1>5 DEF Visual!Inspects, Visual!Held
<1>6. ASSUME NEW c \in Calls, Visual!Captures(c) PROVE ProofsVerified'
  BY <1>6 DEF Visual!Captures, Visual!Held
<1>7. ASSUME NEW c \in Calls, Visual!Compares(c) PROVE ProofsVerified'
  BY <1>7 DEF Visual!Compares, Visual!Held
<1>8. ASSUME NEW c \in Calls, Visual!Signs(c) PROVE ProofsVerified'
  BY <1>8, SignsKeeps
<1>9. ASSUME NEW c \in Calls, Visual!Reads(c) PROVE ProofsVerified'
  BY <1>9 DEF Visual!Reads, Visual!Held
<1>10. ASSUME NEW c \in Calls, Visual!Verifies(c) PROVE ProofsVerified'
  BY <1>10 DEF Visual!Verifies, Visual!Proofs, Visual!Verified
<1>11. ASSUME NEW c \in Calls, Visual!Looks(c) PROVE ProofsVerified'
  BY <1>11 DEF Visual!Looks, Visual!SameDocument, Visual!Held
<1>12. ASSUME NEW c \in Calls, Visual!LooksTo(c) PROVE ProofsVerified'
  BY <1>12 DEF Visual!LooksTo, Visual!SameDocument, Visual!Held
<1>13. ASSUME NEW c \in Calls, Visual!VerifiesTo(c) PROVE ProofsVerified'
  BY <1>13, SMTT(30) DEF Visual!VerifiesTo, Visual!Proofs, Visual!Verified
<1>14. ASSUME NEW c \in Calls, Visual!Spends(c) PROVE ProofsVerified'
  BY <1>14 DEF Visual!Spends, Visual!Used, Visual!Spent, Visual!After
<1>15. ASSUME NEW c \in Calls, Visual!Dispatches(c) PROVE ProofsVerified'
  BY <1>15 DEF Visual!Dispatches, Visual!Held
<1>16. ASSUME NEW c \in Calls, Visual!Guards(c) PROVE ProofsVerified'
  BY <1>16 DEF Visual!Guards
<1>17. ASSUME NEW c \in Calls, Visual!Inputs(c) PROVE ProofsVerified'
  BY <1>17 DEF Visual!Inputs, Visual!Used
<1>18. ASSUME NEW c \in Calls, Visual!Ends(c) PROVE ProofsVerified'
  BY <1>18 DEF Visual!Ends
<1> QED
  BY <1>1, <1>2, <1>3, <1>4, <1>5, <1>6, <1>7, <1>8, <1>9, <1>10, <1>11, <1>12, <1>13,
      <1>14, <1>15, <1>16, <1>17, <1>18 DEF Visual!Next

\* Another document only comes later.
LEMMA ImagesStep == ASSUME VisualInvariant, Visual!Next PROVE ImagesBetween'
<1> USE DEF VisualInvariant, VisualTypes, LeasesCounted, ImagesBetween, ProofRange, Visual!Goes,
      Visual!Sees, Visual!Drop, Visual!StepOver, Visual!Leaves, Visual!leaseVars,
      Visual!proofVars, Visual!lookVars, Visual!stepVars
<1>1. CASE Visual!Navigates
  <2>1. document' = document + 1 /\ UNCHANGED <<stands, looked, shown, proofs>>
    BY <1>1 DEF Visual!Navigates, Visual!lookVars, Visual!proofVars
  <2>2. \A n \in 1..MaxProofs : proofs[n].shown \in Nat
    OBVIOUS
  <2> QED
    BY <2>1, <2>2, SMTT(30)
<1>2. CASE Visual!Reserves
  BY <1>2 DEF Visual!Reserves
<1>3. CASE Visual!LosesLease
  BY <1>3 DEF Visual!LosesLease, Visual!Upset
<1>4. CASE Visual!Expires
  BY <1>4 DEF Visual!Expires
<1>5. CASE Visual!Restarts
  BY <1>5 DEF Visual!Restarts, Visual!Upset, Visual!AtExtension
<1>6. ASSUME NEW c \in Calls, Visual!AsksToLook(c) PROVE ImagesBetween'
  BY <1>6 DEF Visual!AsksToLook, Visual!Inspections
<1>7. ASSUME NEW c \in Calls, Visual!Begins(c) PROVE ImagesBetween'
  BY <1>7 DEF Visual!Begins, Visual!Acts
<1>8. ASSUME NEW c \in Calls, Visual!Inspects(c) PROVE ImagesBetween'
  BY <1>8 DEF Visual!Inspects, Visual!Held
<1>9. ASSUME NEW c \in Calls, Visual!Captures(c) PROVE ImagesBetween'
  BY <1>9 DEF Visual!Captures, Visual!Held
<1>10. ASSUME NEW c \in Calls, Visual!Compares(c) PROVE ImagesBetween'
  BY <1>10 DEF Visual!Compares, Visual!Held
<1>11. ASSUME NEW c \in Calls, Visual!Signs(c) PROVE ImagesBetween'
  BY <1>11, SignsKeeps
<1>12. ASSUME NEW c \in Calls, Visual!Reads(c) PROVE ImagesBetween'
  BY <1>12 DEF Visual!Reads, Visual!Held
<1>13. ASSUME NEW c \in Calls, Visual!Verifies(c) PROVE ImagesBetween'
  BY <1>13 DEF Visual!Verifies, Visual!Proofs, Visual!Verified
<1>14. ASSUME NEW c \in Calls, Visual!VerifiesTo(c) PROVE ImagesBetween'
  BY <1>14 DEF Visual!VerifiesTo, Visual!Proofs, Visual!Verified
<1>15. ASSUME NEW c \in Calls, Visual!Looks(c) PROVE ImagesBetween'
  BY <1>15, LooksKeeps
<1>16. ASSUME NEW c \in Calls, Visual!LooksTo(c) PROVE ImagesBetween'
  BY <1>16, LooksKeeps
<1>17. ASSUME NEW c \in Calls, Visual!Spends(c) PROVE ImagesBetween'
  BY <1>17 DEF Visual!Spends, Visual!Used, Visual!Spent, Visual!After
<1>18. ASSUME NEW c \in Calls, Visual!Dispatches(c) PROVE ImagesBetween'
  BY <1>18 DEF Visual!Dispatches, Visual!Held
<1>19. ASSUME NEW c \in Calls, Visual!Guards(c) PROVE ImagesBetween'
  BY <1>19 DEF Visual!Guards
<1>20. ASSUME NEW c \in Calls, Visual!Inputs(c) PROVE ImagesBetween'
  BY <1>20 DEF Visual!Inputs, Visual!Used
<1>21. ASSUME NEW c \in Calls, Visual!Ends(c) PROVE ImagesBetween'
  BY <1>21 DEF Visual!Ends
<1> QED
  BY <1>1, <1>2, <1>3, <1>4, <1>5, <1>6, <1>7, <1>8, <1>9, <1>10, <1>11, <1>12, <1>13,
      <1>14, <1>15, <1>16, <1>17, <1>18, <1>19, <1>20, <1>21 DEF Visual!Next

\* What a call last saw stays what its proofs show.
LEMMA AimsStep == ASSUME VisualInvariant, Visual!Next PROVE AimsSettled'
<1> USE DEF VisualInvariant, VisualTypes, LeasesCounted, ProofsVerified, AimsSettled, HasFrom,
      HasTo, Signed, LookedAt, Settled, Visual!Goes, Visual!Sees, Visual!Drop, Visual!StepOver,
      Visual!Leaves, Visual!leaseVars, Visual!proofVars, Visual!lookVars, Visual!stepVars
<1>1. CASE Visual!Navigates \/ Visual!Reserves \/ Visual!LosesLease \/ Visual!Expires
  <2>1. UNCHANGED <<stands, doing, from, to, looked, proofs>>
    BY <1>1 DEF Visual!Navigates, Visual!Reserves, Visual!LosesLease, Visual!Expires
  <2> QED
    BY <2>1
<1>2. CASE Visual!Restarts
  BY <1>2 DEF Visual!Restarts, Visual!Upset, Visual!AtExtension
<1>3. ASSUME NEW c \in Calls, Visual!AsksToLook(c) PROVE AimsSettled'
  BY <1>3 DEF Visual!AsksToLook, Visual!Inspections
<1>4. ASSUME NEW c \in Calls, Visual!Begins(c) PROVE AimsSettled'
  BY <1>4 DEF Visual!Begins, Visual!Acts
<1>5. ASSUME NEW c \in Calls, Visual!Inspects(c) PROVE AimsSettled'
  BY <1>5 DEF Visual!Inspects, Visual!Held
<1>6. ASSUME NEW c \in Calls, Visual!Captures(c) PROVE AimsSettled'
  BY <1>6 DEF Visual!Captures, Visual!Held
<1>7. ASSUME NEW c \in Calls, Visual!Compares(c) PROVE AimsSettled'
  BY <1>7 DEF Visual!Compares, Visual!Held
<1>8. ASSUME NEW c \in Calls, Visual!Signs(c) PROVE AimsSettled'
  BY <1>8, SignsKeeps
<1>9. ASSUME NEW c \in Calls, Visual!Reads(c) PROVE AimsSettled'
  BY <1>9 DEF Visual!Reads, Visual!Held
<1>10. ASSUME NEW c \in Calls, Visual!Verifies(c) PROVE AimsSettled'
  BY <1>10 DEF Visual!Verifies, Visual!Proofs, Visual!Verified
<1>11. ASSUME NEW c \in Calls, Visual!VerifiesTo(c) PROVE AimsSettled'
  BY <1>11 DEF Visual!VerifiesTo, Visual!Proofs, Visual!Verified
<1>12. ASSUME NEW c \in Calls, Visual!Looks(c) PROVE AimsSettled'
  BY <1>12, LooksKeeps
<1>13. ASSUME NEW c \in Calls, Visual!LooksTo(c) PROVE AimsSettled'
  BY <1>13, LooksKeeps
<1>14. ASSUME NEW c \in Calls, Visual!Spends(c) PROVE AimsSettled'
  BY <1>14 DEF Visual!Spends, Visual!Used, Visual!Spent, Visual!After
<1>15. ASSUME NEW c \in Calls, Visual!Dispatches(c) PROVE AimsSettled'
  BY <1>15 DEF Visual!Dispatches, Visual!Held
<1>16. ASSUME NEW c \in Calls, Visual!Guards(c) PROVE AimsSettled'
  BY <1>16 DEF Visual!Guards
<1>17. ASSUME NEW c \in Calls, Visual!Inputs(c) PROVE AimsSettled'
  BY <1>17 DEF Visual!Inputs, Visual!Used
<1>18. ASSUME NEW c \in Calls, Visual!Ends(c) PROVE AimsSettled'
  BY <1>18 DEF Visual!Ends
<1> QED
  BY <1>1, <1>2, <1>3, <1>4, <1>5, <1>6, <1>7, <1>8, <1>9, <1>10, <1>11, <1>12, <1>13,
      <1>14, <1>15, <1>16, <1>17, <1>18 DEF Visual!Next

\* What a call has spent, and an input has used, was signed.
LEMMA ClaimsSigned ==
    ASSUME VisualInvariant, NEW c \in Calls, NEW n \in Claim(c) PROVE Signed(n)
BY DEF VisualInvariant, ProofsVerified, HasFrom, HasTo, Claim, Claimed, LookedAt, Settled,
       Visual!Used

LEMMA WarrantsSigned ==
    ASSUME VisualInvariant, NEW i \in DOMAIN inputs, NEW n \in Visual!Warrant(i) PROVE Signed(n)
BY DEF VisualInvariant, InputsAimed, Visual!Warrant

\* Nothing that was spent is forgotten while it could still be verified.
LEMMA MemoryStep ==
    ASSUME VisualInvariant, Visual!Next, NEW n, Signed(n), Remembered(n) PROVE Remembered(n)'
<1> USE DEF Remembered, Visual!leaseVars, Visual!proofVars
<1>1. n \in 1..MaxProofs /\ proofs[n].lease <= given
  BY BoundAssumption DEF VisualInvariant, VisualTypes, LeasesCounted, Signed
<1>2. CASE Visual!Restarts
  BY <1>1, <1>2 DEF Visual!Restarts
<1>3. CASE Visual!Expires
  BY <1>3 DEF Visual!Expires
<1>4. ASSUME NEW c \in Calls, Visual!Spends(c) PROVE Remembered(n)'
  BY <1>4 DEF Visual!Spends, Visual!After
<1>5. ASSUME NEW c \in Calls, Visual!Signs(c) PROVE Remembered(n)'
  <2>1. proofs'[n] = proofs[n] /\ UNCHANGED <<dawn, spent, expired>>
    <3>1. /\ UNCHANGED <<dawn, spent, expired>>
          /\ \A m \in 1..MaxProofs : m # signed + 1 => proofs'[m] = proofs[m]
      BY <1>5, SignsEffect
    <3>2. n # signed + 1
      BY DEF Signed, VisualInvariant, VisualTypes
    <3> QED
      BY <1>1, <3>1, <3>2
  <2> QED
    BY <2>1
<1>6. CASE UNCHANGED <<dawn, proofs, spent, expired>>
  BY <1>6
<1>7. \/ Visual!Restarts \/ Visual!Expires \/ UNCHANGED <<dawn, proofs, spent, expired>>
      \/ \E c \in Calls : Visual!Spends(c) \/ Visual!Signs(c)
  <2>1. CASE Visual!Navigates \/ Visual!Reserves \/ Visual!LosesLease
    BY <2>1 DEF Visual!Navigates, Visual!Reserves, Visual!LosesLease
  <2>2. ASSUME NEW c \in Calls,
               \/ Visual!AsksToLook(c) \/ Visual!Inspects(c) \/ Visual!Captures(c) \/ Visual!Compares(c)
               \/ Visual!Begins(c) \/ Visual!Reads(c) \/ Visual!Verifies(c) \/ Visual!Looks(c)
        PROVE  UNCHANGED <<dawn, proofs, spent, expired>>
    BY <2>2 DEF Visual!AsksToLook, Visual!Inspects, Visual!Captures, Visual!Compares, Visual!Begins,
                Visual!Reads, Visual!Verifies, Visual!Looks
  <2>3. ASSUME NEW c \in Calls,
               \/ Visual!VerifiesTo(c) \/ Visual!LooksTo(c) \/ Visual!Dispatches(c)
               \/ Visual!Guards(c) \/ Visual!Inputs(c) \/ Visual!Ends(c)
        PROVE  UNCHANGED <<dawn, proofs, spent, expired>>
    BY <2>3 DEF Visual!VerifiesTo, Visual!LooksTo, Visual!Dispatches, Visual!Guards,
                Visual!Inputs, Visual!Ends
  <2> QED
    BY <2>1, <2>2, <2>3 DEF Visual!Next
<1> QED
  BY <1>2, <1>3, <1>4, <1>5, <1>6, <1>7

\* Every other step than those two sends nothing, and no call gets a claim.
SpendsOrInputs == \E c \in Calls : Visual!Spends(c) \/ Visual!Inputs(c)

LEMMA ClaimsStep ==
    ASSUME VisualInvariant, Visual!Next, ~SpendsOrInputs
    PROVE  inputs' = inputs /\ \A d \in Calls : Claim(d)' \subseteq Claim(d)
<1> USE DEF VisualInvariant, VisualTypes, Claim, Claimed, Visual!Used, Visual!Goes, Visual!Sees,
            Visual!Drop, Visual!StepOver, Visual!Leaves, Visual!leaseVars, Visual!proofVars,
            Visual!lookVars, Visual!stepVars
<1>1. ASSUME Visual!Navigates
      PROVE  inputs' = inputs /\ \A d \in Calls : Claim(d)' \subseteq Claim(d)
  BY <1>1 DEF Visual!Navigates, Visual!Upset
<1>2. ASSUME Visual!Reserves
      PROVE  inputs' = inputs /\ \A d \in Calls : Claim(d)' \subseteq Claim(d)
  BY <1>2 DEF Visual!Reserves
<1>3. ASSUME Visual!LosesLease
      PROVE  inputs' = inputs /\ \A d \in Calls : Claim(d)' \subseteq Claim(d)
  BY <1>3 DEF Visual!LosesLease, Visual!Upset
<1>4. ASSUME Visual!Expires
      PROVE  inputs' = inputs /\ \A d \in Calls : Claim(d)' \subseteq Claim(d)
  BY <1>4 DEF Visual!Expires
<1>5. ASSUME Visual!Restarts
      PROVE  inputs' = inputs /\ \A d \in Calls : Claim(d)' \subseteq Claim(d)
  BY <1>5 DEF Visual!Restarts, Visual!AtExtension
<1>6. ASSUME NEW c \in Calls, Visual!AsksToLook(c)
      PROVE  inputs' = inputs /\ \A d \in Calls : Claim(d)' \subseteq Claim(d)
  BY <1>6 DEF Visual!AsksToLook
<1>7. ASSUME NEW c \in Calls, Visual!Inspects(c)
      PROVE  inputs' = inputs /\ \A d \in Calls : Claim(d)' \subseteq Claim(d)
  BY <1>7 DEF Visual!Inspects
<1>8. ASSUME NEW c \in Calls, Visual!Captures(c)
      PROVE  inputs' = inputs /\ \A d \in Calls : Claim(d)' \subseteq Claim(d)
  BY <1>8 DEF Visual!Captures
<1>9. ASSUME NEW c \in Calls, Visual!Compares(c)
      PROVE  inputs' = inputs /\ \A d \in Calls : Claim(d)' \subseteq Claim(d)
  BY <1>9 DEF Visual!Compares
<1>10. ASSUME NEW c \in Calls, Visual!Signs(c)
      PROVE  inputs' = inputs /\ \A d \in Calls : Claim(d)' \subseteq Claim(d)
  BY <1>10 DEF Visual!Signs
<1>11. ASSUME NEW c \in Calls, Visual!Begins(c)
      PROVE  inputs' = inputs /\ \A d \in Calls : Claim(d)' \subseteq Claim(d)
  BY <1>11 DEF Visual!Begins
<1>12. ASSUME NEW c \in Calls, Visual!Reads(c)
      PROVE  inputs' = inputs /\ \A d \in Calls : Claim(d)' \subseteq Claim(d)
  BY <1>12 DEF Visual!Reads
<1>13. ASSUME NEW c \in Calls, Visual!Verifies(c)
      PROVE  inputs' = inputs /\ \A d \in Calls : Claim(d)' \subseteq Claim(d)
  BY <1>13 DEF Visual!Verifies
<1>14. ASSUME NEW c \in Calls, Visual!Looks(c)
      PROVE  inputs' = inputs /\ \A d \in Calls : Claim(d)' \subseteq Claim(d)
  BY <1>14 DEF Visual!Looks
<1>15. ASSUME NEW c \in Calls, Visual!VerifiesTo(c)
      PROVE  inputs' = inputs /\ \A d \in Calls : Claim(d)' \subseteq Claim(d)
  BY <1>15 DEF Visual!VerifiesTo
<1>16. ASSUME NEW c \in Calls, Visual!LooksTo(c)
      PROVE  inputs' = inputs /\ \A d \in Calls : Claim(d)' \subseteq Claim(d)
  BY <1>16 DEF Visual!LooksTo
<1>17. ASSUME NEW c \in Calls, Visual!Dispatches(c)
      PROVE  inputs' = inputs /\ \A d \in Calls : Claim(d)' \subseteq Claim(d)
  BY <1>17 DEF Visual!Dispatches
<1>18. ASSUME NEW c \in Calls, Visual!Guards(c)
      PROVE  inputs' = inputs /\ \A d \in Calls : Claim(d)' \subseteq Claim(d)
  BY <1>18 DEF Visual!Guards
<1>19. ASSUME NEW c \in Calls, Visual!Ends(c)
      PROVE  inputs' = inputs /\ \A d \in Calls : Claim(d)' \subseteq Claim(d)
  BY <1>19 DEF Visual!Ends
<1> QED
  BY <1>1, <1>2, <1>3, <1>4, <1>5, <1>6, <1>7, <1>8, <1>9, <1>10, <1>11, <1>12,
     <1>13, <1>14, <1>15, <1>16, <1>17, <1>18, <1>19 DEF Visual!Next, SpendsOrInputs

LEMMA InputsStep == ASSUME VisualInvariant, Visual!Next PROVE InputsAimed'
<1>1. VisualTypes /\ LeasesCounted /\ ProofsVerified /\ AimsSettled /\ InputsAimed
  BY DEF VisualInvariant
<1>2. ASSUME NEW c \in Calls, Visual!Inputs(c) PROVE InputsAimed'
  <2>1. /\ inputs' = Append(inputs, [by |-> Visual!Used(c), late |-> late[c], seen |-> looked[c]])
        /\ stands[c] = "inputs" /\ UNCHANGED <<proofs, signed>>
    BY <1>2 DEF Visual!Inputs, Visual!proofVars
  <2>2. \A n \in Visual!Used(c) : Signed(n) /\ proofs[n].shown = looked[c]
    BY <1>1, <2>1 DEF ProofsVerified, AimsSettled, HasFrom, HasTo, LookedAt, Settled, Visual!Used
  <2>3. inputs \in Seq(InputRange) /\ Len(inputs') = Len(inputs) + 1
    BY <1>1, <2>1 DEF VisualTypes
  <2> SUFFICES ASSUME NEW i \in DOMAIN inputs', NEW n \in inputs'[i].by
               PROVE  Signed(n) /\ proofs[n].shown = inputs'[i].seen
    BY <2>1 DEF InputsAimed, Signed
  <2>4. CASE i = Len(inputs) + 1
    BY <2>1, <2>2, <2>3, <2>4
  <2>5. CASE i \in DOMAIN inputs
    BY <1>1, <2>1, <2>3, <2>5 DEF InputsAimed
  <2> QED
    BY <2>1, <2>3, <2>4, <2>5
<1>3. ASSUME NEW c \in Calls, Visual!Signs(c) PROVE InputsAimed'
  <2>1. /\ inputs' = inputs /\ signed' = signed + 1 /\ signed \in Nat
        /\ \A n \in 1..MaxProofs : n # signed + 1 => proofs'[n] = proofs[n]
    BY <1>1, <1>3, SignsEffect DEF VisualTypes
  <2>2. ASSUME NEW n, Signed(n) PROVE Signed(n)' /\ proofs'[n] = proofs[n]
    BY <1>1, <2>1, <2>2, BoundAssumption DEF Signed, LeasesCounted
  <2> QED
    BY <1>1, <2>1, <2>2 DEF InputsAimed
<1>4. ASSUME NEW c \in Calls, Visual!Spends(c) PROVE UNCHANGED <<inputs, proofs, signed>>
  BY <1>4 DEF Visual!Spends
<1>5. ASSUME ~SpendsOrInputs, \A c \in Calls : ~Visual!Signs(c)
      PROVE  UNCHANGED <<inputs, proofs, signed>>
  <2>1. inputs' = inputs
    BY <1>5, ClaimsStep
  <2>2. UNCHANGED <<proofs, signed>>
    BY <1>5 DEF SpendsOrInputs, Visual!Next, Visual!proofVars, Visual!Navigates,
         Visual!Reserves, Visual!LosesLease, Visual!Expires, Visual!Restarts, Visual!AsksToLook,
         Visual!Inspects, Visual!Captures, Visual!Compares, Visual!Begins, Visual!Reads,
         Visual!Verifies, Visual!Looks, Visual!VerifiesTo, Visual!LooksTo, Visual!Dispatches,
         Visual!Guards, Visual!Ends
  <2> QED
    BY <2>1, <2>2
<1>6. CASE UNCHANGED <<inputs, proofs, signed>>
  BY <1>1, <1>6 DEF InputsAimed, Signed
<1> QED
  BY <1>2, <1>3, <1>4, <1>5, <1>6 DEF SpendsOrInputs

\* A step that verified its proofs spends what no input has had while it was fresh.
LEMMA SpendingStep ==
    ASSUME VisualInvariant, Visual!Next, NEW c \in Calls, Visual!Spends(c) PROVE SpentOnce'
<1>1. /\ LeasesCounted /\ ProofsVerified /\ SpentOnce /\ DOMAIN stands = Calls
      /\ late \in [Calls -> SUBSET Nat]
      /\ given \in Nat /\ dawn \in Nat /\ under \in [Calls -> Nat]
  BY DEF VisualInvariant, VisualTypes
<1>2. /\ stands[c] = "spends" /\ UNCHANGED <<inputs, expired, dawn, proofs, from, to, doing>>
      /\ late' = [late EXCEPT ![c] = Visual!Used(c) \intersect expired]
      /\ \A d \in Calls : d # c => stands'[d] = stands[d]
  <2>1. /\ stands[c] = "spends" /\ UNCHANGED <<inputs, expired, dawn, proofs, from, to, doing>>
        /\ late' = [late EXCEPT ![c] = Visual!Used(c) \intersect expired]
    BY DEF Visual!Spends, Visual!leaseVars
  <2>2. PICK step : Visual!Goes(c, step)
    BY DEF Visual!Spends
  <2> QED
    BY <1>1, <2>1, <2>2 DEF Visual!Goes
<1>3. ASSUME NEW d \in Calls, d # c PROVE Claim(d)' = Claim(d)
  BY <1>1, <1>2, <1>3 DEF Claim, Visual!Used
<1>4. ASSUME NEW n \in Claim(c)' PROVE n \in spent' /\ ~Remembered(n)
  <2>1. stands'[c] \in Claimed /\ n \in Visual!Used(c) /\ n \notin expired
    BY <1>1, <1>2, <1>4 DEF Claim, Visual!Used
  <2>2. /\ n \notin spent
        /\ n \in spent'
    BY <1>1, <2>1 DEF Visual!Spends, Visual!Used, Visual!Spent, Visual!After, Visual!Goes, Claimed
  <2>3. proofs[n].lease = under[c] /\ dawn < under[c]
    BY <1>1, <1>2, <2>1 DEF ProofsVerified, LeasesCounted, HasFrom, HasTo, LookedAt, Settled,
                            Visual!Used
  <2> QED
    BY <1>1, <2>1, <2>2, <2>3 DEF Remembered
<1>5. \A i \in DOMAIN inputs : Visual!Warrant(i)' = Visual!Warrant(i)
  BY <1>2 DEF Visual!Warrant
<1>6. \A d \in Calls : \A n \in Claim(d)' : Remembered(n)'
  <2>1. ASSUME NEW d \in Calls, d # c, NEW n \in Claim(d)' PROVE Remembered(n)'
    BY <1>1, <1>3, <2>1, ClaimsSigned, MemoryStep DEF SpentOnce
  <2> QED
    BY <1>4, <2>1 DEF Remembered
<1>7. \A i \in DOMAIN inputs : \A n \in Visual!Warrant(i)' : Remembered(n)'
  BY <1>1, <1>5, WarrantsSigned, MemoryStep DEF SpentOnce
<1>8. \A d, e \in Calls : d # e => Claim(d)' \intersect Claim(e)' = {}
  BY <1>1, <1>3, <1>4 DEF SpentOnce
<1>9. \A d \in Calls : \A i \in DOMAIN inputs : Claim(d)' \intersect Visual!Warrant(i)' = {}
  BY <1>1, <1>3, <1>4, <1>5 DEF SpentOnce
<1> QED
  BY <1>1, <1>2, <1>5, <1>6, <1>7, <1>8, <1>9 DEF SpentOnce

\* An input takes over its call's claim.
LEMMA InputtingStep ==
    ASSUME VisualInvariant, Visual!Next, NEW c \in Calls, Visual!Inputs(c) PROVE SpentOnce'
<1>1. /\ SpentOnce /\ DOMAIN stands = Calls /\ inputs \in Seq(InputRange)
      /\ from \in [Calls -> Nat] /\ to \in [Calls -> Nat] /\ late \in [Calls -> SUBSET Nat]
  BY DEF VisualInvariant, VisualTypes
<1>2. /\ stands[c] = "inputs" /\ UNCHANGED <<proofs, spent, expired, dawn, doing>>
      /\ inputs' = Append(inputs, [by |-> Visual!Used(c), late |-> late[c], seen |-> looked[c]])
      /\ stands'[c] = "reads"
      /\ \A d \in Calls : d # c => UNCHANGED <<stands[d], from[d], to[d], late[d]>>
  BY <1>1 DEF Visual!Inputs, Visual!StepOver, Visual!Drop, Visual!Goes, Visual!proofVars,
              Visual!leaseVars
<1>3. Claim(c)' = {} /\ \A d \in Calls : d # c => Claim(d)' = Claim(d)
  BY <1>2 DEF Claim, Claimed, Visual!Used
<1>4. PICK last : last = Len(inputs) + 1
  OBVIOUS
<1>5. DOMAIN inputs' = DOMAIN inputs \union {last} /\ last \notin DOMAIN inputs
  BY <1>1, <1>2, <1>4
<1>6. Visual!Warrant(last)' = Claim(c)
  BY <1>1, <1>2, <1>4 DEF Visual!Warrant, Claim, Claimed
<1>7. \A i \in DOMAIN inputs : Visual!Warrant(i)' = Visual!Warrant(i)
  BY <1>1, <1>2 DEF Visual!Warrant
<1>8. \A n : Remembered(n)' = Remembered(n)
  BY <1>2 DEF Remembered
<1>9. /\ \A d \in Calls : \A n \in Claim(d)' : Remembered(n)'
      /\ \A i \in DOMAIN inputs' : \A n \in Visual!Warrant(i)' : Remembered(n)'
  <2>1. ASSUME NEW d \in Calls, NEW n \in Claim(d)' PROVE Remembered(n)'
    BY <1>1, <1>3, <1>8, <2>1 DEF SpentOnce
  <2>2. ASSUME NEW i \in DOMAIN inputs', NEW n \in Visual!Warrant(i)' PROVE Remembered(n)'
    BY <1>1, <1>5, <1>6, <1>7, <1>8, <2>2 DEF SpentOnce
  <2> QED
    BY <2>1, <2>2
<1>10. /\ \A d, e \in Calls : d # e => Claim(d)' \intersect Claim(e)' = {}
       /\ \A d \in Calls : \A i \in DOMAIN inputs' : Claim(d)' \intersect Visual!Warrant(i)' = {}
  BY <1>1, <1>3, <1>5, <1>6, <1>7 DEF SpentOnce
<1>11. \A i, j \in DOMAIN inputs' : i # j => Visual!Warrant(i)' \intersect Visual!Warrant(j)' = {}
  BY <1>1, <1>5, <1>6, <1>7 DEF SpentOnce
<1> QED
  BY <1>9, <1>10, <1>11 DEF SpentOnce

LEMMA SpentStep == ASSUME VisualInvariant, Visual!Next PROVE SpentOnce'
<1>1. CASE ~SpendsOrInputs
  <2>1. inputs' = inputs /\ \A d \in Calls : Claim(d)' \subseteq Claim(d)
    BY <1>1, ClaimsStep
  <2>2. \A i \in DOMAIN inputs : Visual!Warrant(i)' = Visual!Warrant(i)
    BY <2>1 DEF Visual!Warrant
  <2>3. SpentOnce
    BY DEF VisualInvariant
  <2>4. /\ \A d \in Calls : \A n \in Claim(d)' : Remembered(n)'
        /\ \A i \in DOMAIN inputs : \A n \in Visual!Warrant(i)' : Remembered(n)'
    BY <2>1, <2>2, <2>3, ClaimsSigned, WarrantsSigned, MemoryStep DEF SpentOnce
  <2>5. /\ \A d, e \in Calls : d # e => Claim(d)' \intersect Claim(e)' = {}
        /\ \A d \in Calls : \A i \in DOMAIN inputs : Claim(d)' \intersect Visual!Warrant(i)' = {}
        /\ \A i, j \in DOMAIN inputs :
             i # j => Visual!Warrant(i)' \intersect Visual!Warrant(j)' = {}
    BY <2>1, <2>2, <2>3 DEF SpentOnce
  <2> QED
    BY <2>1, <2>4, <2>5 DEF SpentOnce
<1> QED
  BY <1>1, SpendingStep, InputtingStep DEF SpendsOrInputs

LEMMA AlwaysVisualInvariant == Visual!Spec => []VisualInvariant
<1>1. ASSUME VisualInvariant, Visual!Next PROVE VisualInvariant'
  BY <1>1, VisualTypesStep, LeasesStep, ProofsStep, SpentStep, ImagesStep, AimsStep, InputsStep
     DEF VisualInvariant
<1>2. ASSUME VisualInvariant, UNCHANGED Visual!vars PROVE VisualInvariant'
  BY <1>2 DEF Visual!vars, Visual!leaseVars, Visual!proofVars, Visual!lookVars, Visual!stepVars,
     VisualInvariant, VisualTypes, LeasesCounted, ProofsVerified, SpentOnce, ImagesBetween,
     AimsSettled, InputsAimed, HasFrom, HasTo, Signed, Claim, Remembered, Visual!Used,
     Visual!Warrant
<1> QED
  BY <1>1, <1>2, VisualInit, PTL DEF Visual!Spec

\* A signed proof serves one input until it expires (#verifyVisualTargetProof and
\* #consumeVisualTargetProof): whatever number of transactions verified it together, a drag that
\* names it twice, entries that are pruned and brokers that restart do not make it two.
THEOREM OneInputPerProof == Visual!Spec => []OneInputWhileFresh
<1>1. VisualInvariant => OneInputWhileFresh
  BY DEF VisualInvariant, SpentOnce, OneInputWhileFresh, Visual!OneInputWhileFresh
<1> QED
  BY <1>1, AlwaysVisualInvariant, PTL

\* The document that an input was last aimed at is the one on the image of each of its proofs,
\* for points too, whose image the broker does not compare with the page (#inspectVisualPoint).
THEOREM InputsAreAimed == Visual!Spec => []AimedAtTheImage
<1>1. VisualInvariant => AimedAtTheImage
  BY DEF VisualInvariant, InputsAimed, AimedAtTheImage, Visual!AimedAtTheImage
<1> QED
  BY <1>1, AlwaysVisualInvariant, PTL
=============================================================================
