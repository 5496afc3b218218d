----------------------- MODULE DispatchEffects_proofs -----------------------
(***************************************************************************)
(* Theorems about what the operations of OperationDispatch did, for any    *)
(* number of requests, tabs, keys, connections and restarts: no key is     *)
(* sent twice, and what the ledger and the answers say about an effect is  *)
(* what happened in the browser.                                           *)
(*                                                                         *)
(* Two requests with one key pass ledger.prepare with one fingerprint, so  *)
(* they name one lease, hence one tab, hence they wait in one queue        *)
(* (LeaseInv and KeyInv on top of QueueInv).  The jobs in the ledger's     *)
(* chain tell the truth about the browser, and a settled answer leaves no  *)
(* job that could take it back (EffectInv).                                *)
(***************************************************************************)
EXTENDS OperationDispatch_proofs

USE DEF clientVars, profileVars, requestVars, queueVars, ledgerVars, browserVars

-----------------------------------------------------------------------------
(* Leases                                                                  *)

\* A lease id is granted once, for one tab: a request's lease tells its tab.
LeaseInv ==
    /\ \A t \in Tabs : lease[t].id <= leases
    /\ \A t, u \in Tabs : lease[t].id = lease[u].id /\ lease[t].id # 0 => t = u
    /\ \A r \in Requests : reqLease[r] <= leases
    /\ \A r \in Requests : pc[r] # "idle" => reqLease[r] # 0
    /\ \A r \in Requests, t \in Tabs : lease[t].id = reqLease[r] /\ reqLease[r] # 0 => t = TabOf[r]
    /\ \A r, s \in Requests : reqLease[r] = reqLease[s] /\ reqLease[r] # 0 => TabOf[r] = TabOf[s]

\* Leases end (#releaseLease, a disconnect, a lost profile, a restart).
LEMMA LeasesEnd ==
    ASSUME IInv, LeaseInv,
           \A t \in Tabs : lease'[t] = lease[t] \/ lease'[t] = NoLease,
           UNCHANGED <<leases, reqLease>>,
           \A r \in Requests : pc'[r] # "idle" => pc[r] # "idle"
    PROVE  LeaseInv'
<1>1. NoLease.id = 0 /\ leases \in Nat
  BY DispatchAssumption DEF NoLease, IInv, TypeOK
<1>2. \A r \in Requests : reqLease[r] \in Nat
  BY DispatchAssumption DEF IInv, TypeOK
<1>3. \A t \in Tabs : lease'[t].id = lease[t].id \/ lease'[t].id = 0
  BY <1>1
<1>4. \A t \in Tabs : lease'[t].id <= leases'
  BY <1>1, <1>3 DEF LeaseInv
<1>5. \A t, u \in Tabs : lease'[t].id = lease'[u].id /\ lease'[t].id # 0 => t = u
  BY <1>3 DEF LeaseInv
<1>6. \A r \in Requests : \A t \in Tabs :
        lease'[t].id = reqLease'[r] /\ reqLease'[r] # 0 => t = TabOf[r]
  BY <1>3 DEF LeaseInv
<1> QED
  BY <1>4, <1>5, <1>6 DEF LeaseInv

\* A new lease has a new id.
LEMMA AcquireLeaseKeepsLeases ==
    ASSUME IInv, LeaseInv, NEW c \in Clients, NEW t \in Tabs, AcquireLease(c, t)
    PROVE  LeaseInv'
<1>1. /\ leases' = leases + 1 /\ leases \in Nat
      /\ \A u \in Tabs : lease'[u].id = IF u = t THEN leases + 1 ELSE lease[u].id
      /\ UNCHANGED <<reqLease, pc>>
  BY DispatchAssumption DEF AcquireLease, IInv, TypeOK
<1>2. /\ \A u \in Tabs : lease[u].id \in Nat
      /\ \A r \in Requests : reqLease[r] \in Nat
  BY DispatchAssumption DEF IInv, TypeOK, LeaseRecords, NoLease
<1>3. \A u \in Tabs : lease'[u].id <= leases'
  BY <1>1, <1>2 DEF LeaseInv
<1>4. \A u, v \in Tabs : lease'[u].id = lease'[v].id /\ lease'[u].id # 0 => u = v
  BY <1>1, <1>2 DEF LeaseInv
<1>5. \A r \in Requests : \A u \in Tabs :
        lease'[u].id = reqLease'[r] /\ reqLease'[r] # 0 => u = TabOf[r]
  BY <1>1, <1>2 DEF LeaseInv
<1>6. \A r \in Requests : reqLease'[r] <= leases'
  BY <1>1, <1>2 DEF LeaseInv
<1> QED
  BY <1>1, <1>3, <1>4, <1>5, <1>6 DEF LeaseInv

\* An accepted request names the lease its tab has.
LEMMA SubmittedKeepsLeases ==
    ASSUME IInv, LeaseInv, NEW r \in Requests, Submitted(r)
    PROVE  LeaseInv'
<1> DEFINE t == TabOf[r]
<1>1. t \in Tabs /\ lease[t].id # 0 /\ lease[t].id \in Nat
  <2>1. t \in Tabs /\ ClientOf[r] \in Clients
    BY DispatchAssumption
  <2>2. lease[t] # NoLease /\ lease[t] \in LeaseRecords
    BY <2>1, DispatchAssumption DEF Submitted, NoLease, IInv, TypeOK
  <2> QED
    BY <2>1, <2>2, DispatchAssumption DEF LeaseRecords
<1>2. /\ UNCHANGED <<lease, leases>>
      /\ \A s \in Requests : /\ reqLease'[s] = IF s = r THEN lease[t].id ELSE reqLease[s]
                             /\ s # r => pc'[s] = pc[s]
  BY DEF Submitted, IInv, TypeOK
<1>3. \A s \in Requests : reqLease[s] = lease[t].id => TabOf[s] = t
  BY <1>1 DEF LeaseInv
<1>4. /\ \A s \in Requests : reqLease'[s] <= leases'
      /\ \A s \in Requests : pc'[s] # "idle" => reqLease'[s] # 0
  BY <1>1, <1>2 DEF LeaseInv
<1>5. \A s \in Requests : \A u \in Tabs :
        lease'[u].id = reqLease'[s] /\ reqLease'[s] # 0 => u = TabOf[s]
  BY <1>1, <1>2 DEF LeaseInv
<1>6. \A s, q \in Requests :
        reqLease'[s] = reqLease'[q] /\ reqLease'[s] # 0 => TabOf[s] = TabOf[q]
  <2> SUFFICES ASSUME NEW s \in Requests, NEW q \in Requests,
                      reqLease'[s] = reqLease'[q], reqLease'[s] # 0
               PROVE  TabOf[s] = TabOf[q]
    OBVIOUS
  <2>1. CASE s # r /\ q # r
    BY <1>2, <2>1 DEF LeaseInv
  <2>2. CASE s = r \/ q = r
    BY <1>2, <1>3, <2>2
  <2> QED
    BY <2>1, <2>2
<1>7. /\ \A u \in Tabs : lease'[u].id <= leases'
      /\ \A u, v \in Tabs : lease'[u].id = lease'[v].id /\ lease'[u].id # 0 => u = v
  BY <1>2 DEF LeaseInv
<1> QED
  BY <1>4, <1>5, <1>6, <1>7 DEF LeaseInv

-----------------------------------------------------------------------------
(* The invariant                                                           *)

\* The handler stands behind an entry of its own fingerprint; or its command
\* is over, as far as sending goes.
Held == {"queued", "reserving", "abandoning", "sent"}
Over == {"sent", "answered", "lost"}
Refusals == {"no_dispatch", "duplicate", "conflict", "error"}

Holds(e, fp) == e.state # "absent" /\ e.fp = fp

Truthful(j) ==
    /\ j.kind \in Settlements => cmd[j.req] = "delivered" /\ op[j.req] = "settling"
    /\ j.kind \in {"apply", "reconcile"} => effect[j.req]
    /\ j.kind \in {"refuse", "disprove"} => ~effect[j.req]

\* The jobs the chain may hold.
LegalJobs ==
    {j \in OurJobs : /\ j.fp = reqLease[j.req]
                     /\ pc[j.req] # "idle"
                     /\ j.kind # "prepare" => Holds(led.mem[j.key], j.fp)
                     /\ Truthful(j)}

JobsInv == Ready(led, LegalJobs) /\ Once(led.jobs)

KeyInv ==
    /\ \A k \in Keys : disk[k].state # "absent" => Holds(led.mem[k], disk[k].fp)
    /\ \A r \in Requests : pc[r] \in Held => Holds(led.mem[KeyOf[r]], reqLease[r])
    /\ \A r \in Requests : WasSent(r) => disk[KeyOf[r]].fp = reqLease[r] /\ pc[r] \in Over
    /\ \A r, s \in Requests : r # s /\ KeyOf[r] = KeyOf[s] /\ pc[r] = "reserving" => ~WasSent(s)
    /\ SentOncePerKey

\* Keys whose command came back having changed the browser, or not.
Yes == {k \in Keys : \E r \in Requests : KeyOf[r] = k /\ cmd[r] = "delivered" /\ effect[r]}
No == {k \in Keys : \E r \in Requests : KeyOf[r] = k /\ cmd[r] = "delivered" /\ ~effect[r]}

Honest(e, yes, no) == /\ e.effect = "known_effect" => yes
                      /\ e.effect = "known_no_effect" => no

\* What a request was told, and what its command did.
Told(r) ==
    /\ effect[r] => cmd[r] \notin {"none", "sent"}
    /\ cmd[r] = "ok" => effect[r]
    /\ cmd[r] = "no_effect" => ~effect[r]
    /\ op[r] # "none" => WasSent(r)
    /\ answer[r] = "none" <=> pc[r] # "answered"
    /\ answer[r] = "ok" => /\ led.mem[KeyOf[r]].state = "applied"
                           /\ disk[KeyOf[r]].state = "applied"
                           /\ effect[r]
                           /\ cmd[r] = "delivered"
                           /\ op[r] = "closed"
    /\ answer[r] = "known_no_effect" => ~effect[r] /\ cmd[r] = "delivered"
    /\ answer[r] \in Refusals => ~WasSent(r)

EffectInv ==
    /\ \A k \in Keys : Honest(led.mem[k], k \in Yes, k \in No)
    /\ \A k \in Keys : Honest(disk[k], k \in Yes, k \in No)
    /\ \A r \in Requests : Told(r)

DInv == IInv /\ QueueInv /\ LeaseInv /\ JobsInv /\ KeyInv /\ EffectInv

-----------------------------------------------------------------------------
(* The ledger moves                                                        *)

\* The jobs that are legal after a step, of an entry as it was before.
NewJobs ==
    {j \in OurJobs : /\ j.fp = reqLease'[j.req]
                     /\ pc'[j.req] # "idle"
                     /\ j.kind # "prepare" => Holds(led.mem[j.key], j.fp)
                     /\ Truthful(j)'}

\* No step takes back what a request named or what its command did.
Stable(r) ==
    /\ pc[r] # "idle" => pc'[r] # "idle" /\ reqLease'[r] = reqLease[r]
    /\ cmd[r] = "delivered" => cmd'[r] = "delivered" /\ effect'[r] = effect[r]
    /\ pc[r] \in Over => pc'[r] \in Over

LedgerMoves ==
    /\ Ready(led', NewJobs)
    /\ Once(led'.jobs)
    /\ Runs(led, led', NewJobs)
    /\ \A k \in Keys : disk'[k] = disk[k] \/ disk'[k] = led.mem[k]

\* A job stays legal unless it settles a command that is settled.
LEMMA JobStaysLegal ==
    ASSUME DInv, \A r \in Requests : Stable(r), NEW j \in LegalJobs,
           j.kind \in Settlements => (op[j.req] = "settling" => op'[j.req] = "settling")
    PROVE  j \in NewJobs
<1>1. j \in OurJobs /\ j.req \in Requests
  BY DEF LegalJobs, OurJobs, Job
<1>2. Truthful(j)
  BY DEF LegalJobs
<1>3. Stable(j.req)
  BY <1>1
<1>4. Truthful(j)'
  BY <1>2, <1>3 DEF Truthful, Stable, Settlements
<1> QED
  BY <1>1, <1>3, <1>4 DEF LegalJobs, NewJobs, Stable

LEMMA JobsStayLegal ==
    ASSUME DInv, \A r \in Requests : Stable(r),
           \A r \in Requests : op[r] = "settling" => op'[r] = "settling"
    PROVE  led.jobs \in Seq(NewJobs)
<1>1. led.jobs \in Seq(LegalJobs)
  BY DEF DInv, JobsInv, Ready
<1>2. LegalJobs \subseteq NewJobs
  BY JobStaysLegal DEF LegalJobs, OurJobs, Job
<1> QED
  BY <1>1, <1>2

\* A request that stands behind its entry asks for a transition of it.
LEMMA AskedJobIsLegal ==
    ASSUME DInv, \A r \in Requests : Stable(r),
           NEW r \in Requests, pc[r] \in Held, NEW kind \in {"reserve", "abandon", "expire"}
    PROVE  JobFor(kind, r) \in NewJobs /\ JobFor(kind, r).kind \notin Settlements
<1>0. PICK j \in OurJobs : j = JobFor(kind, r)
  BY JobForIsOurs DEF DInv, JobKinds
<1>1. j.kind = kind /\ j.key = KeyOf[r] /\ j.req = r /\ j.fp = reqLease[r]
  BY <1>0 DEF JobFor
<1>2. Holds(led.mem[j.key], j.fp)
  BY <1>1 DEF DInv, KeyInv
<1>3. Stable(r) /\ pc[r] # "idle"
  BY DEF Held
<1>4. Truthful(j)' /\ j.kind \notin Settlements
  BY <1>1 DEF Truthful, Settlements
<1>5. j \in NewJobs
  BY <1>1, <1>2, <1>3, <1>4 DEF NewJobs, Stable
<1> QED
  BY <1>0, <1>4, <1>5

\* A step that leaves the ledger alone.
LEMMA LedgerRests ==
    ASSUME DInv, \A r \in Requests : Stable(r),
           \A r \in Requests : op[r] = "settling" => op'[r] = "settling",
           UNCHANGED <<led, disk>>
    PROVE  LedgerMoves
<1>1. Ready(led', NewJobs)
  BY JobsStayLegal DEF DInv, JobsInv, Ready, Shows
<1> QED
  BY <1>1, RunsItself DEF DInv, JobsInv, LedgerMoves

\* A step that only asks.
LEMMA LedgerTakes ==
    ASSUME DInv, \A r \in Requests : Stable(r),
           \A r \in Requests : op[r] = "settling" => op'[r] = "settling",
           NEW js \in Seq(NewJobs), led' = SubmitAll(led, js), disk' = disk,
           \/ \A i \in DOMAIN js : js[i].kind \notin Settlements
           \/ /\ Len(js) = 1
              /\ op[js[1].req] # "settling"
    PROVE  LedgerMoves
<1>1. NewJobs \in SUBSET Job /\ js \in Seq(Job) /\ led \in Ledger /\ led.jobs \in Seq(Job)
  BY DEF NewJobs, OurJobs, DInv, IInv, TypeOK, Ledger
<1>2. Ready(led, NewJobs)
  BY JobsStayLegal DEF DInv, JobsInv, Ready
<1>3. Ready(led', NewJobs) /\ Runs(led, led', NewJobs)
  BY <1>1, <1>2, SubmitAllRuns
<1>4. led'.jobs = led.jobs \o js
  BY <1>1, SubmitAllJobs
<1>5. \A i \in DOMAIN led.jobs :
        led.jobs[i].kind \in Settlements => op[led.jobs[i].req] = "settling"
  <2>1. led.jobs \in Seq(LegalJobs)
    BY DEF DInv, JobsInv, Ready
  <2>2. \A i \in DOMAIN led.jobs : led.jobs[i] \in LegalJobs
    BY <2>1
  <2> QED
    BY <2>2 DEF LegalJobs, Truthful
<1>6. Once(led.jobs \o js)
  <2>1. Once(led.jobs)
    BY DEF DInv, JobsInv
  <2>2. Len(js) = 1 /\ op[js[1].req] # "settling" =>
          \A i \in DOMAIN led.jobs : led.jobs[i].kind \in Settlements => led.jobs[i].req # js[1].req
    BY <1>5
  <2> QED
    BY <1>1, <2>1, <2>2, ConcatOnce
<1> QED
  BY <1>3, <1>4, <1>6 DEF LedgerMoves

LEMMA SeqNarrows ==
    ASSUME NEW A, NEW B, NEW s \in Seq(A), \A i \in DOMAIN s : s[i] \in B
    PROVE  s \in Seq(B)
<1>1. Len(s) \in Nat /\ s \in [1 .. Len(s) -> A] /\ DOMAIN s = 1 .. Len(s)
  OBVIOUS
<1>2. s \in [1 .. Len(s) -> B]
  BY <1>1
<1> QED
  BY <1>1, <1>2

LEMMA BothOf ==
    ASSUME NEW A, NEW s \in Seq(A), NEW t \in Seq(A),
           \A i \in DOMAIN s : s[i].kind \notin Settlements,
           \A i \in DOMAIN t : t[i].kind \notin Settlements
    PROVE  s \o t \in Seq(A) /\ \A i \in DOMAIN (s \o t) : (s \o t)[i].kind \notin Settlements
<1>1. /\ s \o t \in Seq(A) /\ Len(s) \in Nat /\ Len(t) \in Nat
      /\ DOMAIN s = 1 .. Len(s) /\ DOMAIN t = 1 .. Len(t)
      /\ DOMAIN (s \o t) = 1 .. (Len(s) + Len(t))
      /\ \A i \in DOMAIN (s \o t) : (s \o t)[i] = IF i <= Len(s) THEN s[i] ELSE t[i - Len(s)]
  BY ConcatProperties
<1> QED
  BY <1>1

\* The running job settles; the step may ask for one more that settles nothing.
LEMMA LedgerPops ==
    ASSUME DInv, \A r \in Requests : Stable(r),
           NEW kinds \in SUBSET JobKinds, NEW q \in Requests, NEW out \in Outcomes,
           JobEnds(kinds, q, out),
           \A r \in Requests : op[r] = "settling" /\ ~(r = q /\ kinds \subseteq Settlements)
                                  => op'[r] = "settling",
           \/ led' = Popped(out)
           \/ \E j \in NewJobs : j.kind \notin Settlements /\ led' = Submit(Popped(out), j)
    PROVE  LedgerMoves
<1> DEFINE s == led.jobs
<1>1. /\ led \in Ledger /\ s \in Seq(Job) /\ s \in Seq(LegalJobs) /\ s # <<>> /\ Once(s)
      /\ Head(s).req = q /\ Head(s).kind \in kinds /\ (out = "io_error") \in BOOLEAN
  BY DEF JobEnds, DInv, JobsInv, Ready, IInv, TypeOK, Ledger
<1>2. Tail(s) \in Seq(NewJobs)
  <2>1. Tail(s) \in Seq(LegalJobs) /\ Tail(s) \in Seq(Job)
    BY <1>1, HeadTailProperties
  <2>2. \A i \in DOMAIN Tail(s) : Tail(s)[i] \in NewJobs
    <3> SUFFICES ASSUME NEW i \in DOMAIN Tail(s), NEW j, j = Tail(s)[i] PROVE j \in NewJobs
      OBVIOUS
    <3>1. j \in LegalJobs
      BY <2>1
    <3>2. j.req \in Requests
      BY <3>1 DEF LegalJobs, OurJobs, Job
    <3>3. j.kind \in Settlements /\ j.req = q => ~(kinds \subseteq Settlements)
      BY <1>1, TailOnce
    <3> QED
      BY <3>1, <3>2, <3>3, JobStaysLegal
  <2> QED
    BY <2>1, <2>2, SeqNarrows
<1>3. NewJobs \in SUBSET Job
  BY DEF NewJobs, OurJobs
<1>4. Popped(out) = Pop(led, out = "io_error")
  BY DEF Popped
<1>5. Ready(Popped(out), NewJobs) /\ Runs(led, Popped(out), NewJobs) /\ Popped(out).jobs = Tail(s)
  BY <1>1, <1>2, <1>3, <1>4, PopRuns, PopJobs
<1>6. Once(Tail(s)) /\ Tail(s) \in Seq(Job)
  BY <1>1, TailOnce, HeadTailProperties
<1>7. \A k \in Keys : disk'[k] = disk[k] \/ disk'[k] = led.mem[k]
  <2>1. disk' = disk \/ disk' = Flushed
    BY DEF JobEnds
  <2>2. Flushed = [disk EXCEPT ![Head(s).key] = led.mem[Head(s).key]]
    BY DEF Flushed
  <2>3. disk \in [Keys -> Entry]
    BY DEF DInv, IInv, TypeOK
  <2> QED
    BY <2>1, <2>2, <2>3
<1>8. CASE led' = Popped(out)
  BY <1>5, <1>6, <1>7, <1>8 DEF LedgerMoves
<1>9. CASE \E j \in NewJobs : j.kind \notin Settlements /\ led' = Submit(Popped(out), j)
  <2>1. PICK j \in NewJobs : j.kind \notin Settlements /\ led' = Submit(Popped(out), j)
    BY <1>9
  <2>2. Ready(led', NewJobs) /\ Runs(Popped(out), led', NewJobs)
    BY <1>3, <1>5, <2>1, SubmitRuns
  <2>3. Runs(led, led', NewJobs)
    BY <1>5, <2>2, RunsTwice
  <2>4. <<j>> \in Seq(Job) /\ \A i \in DOMAIN <<j>> : <<j>>[i].kind \notin Settlements
    BY <1>3, <2>1
  <2>5. led'.jobs = Tail(s) \o <<j>>
    <3>1. Popped(out) \in Ledger
      BY <1>5 DEF Ready
    <3> QED
      BY <1>5, <2>1, <2>4, <3>1, SubmitAllJobs DEF Submit
  <2>6. Once(led'.jobs)
    BY <1>6, <2>4, <2>5, ConcatOnce
  <2> QED
    BY <1>7, <2>2, <2>3, <2>6 DEF LedgerMoves
<1> QED
  BY <1>8, <1>9

-----------------------------------------------------------------------------
(* What the moves of the ledger keep                                       *)

\* An entry keeps its fingerprint, whatever runs.
LEMMA FingerprintsStay ==
    ASSUME DInv, LedgerMoves, NEW k \in Keys, led.mem[k].state # "absent"
    PROVE  Holds(led'.mem[k], led.mem[k].fp)
<1> DEFINE H == [q \in Keys |->
                   {e \in Entry : led.mem[q].state # "absent" => Holds(e, led.mem[q].fp)}]
<1>1. H \in [Keys -> SUBSET Entry] /\ \A q \in Keys : led.mem[q] \in H[q]
  BY DEF DInv, IInv, TypeOK, Ledger, Holds
<1>2. Closed(H, NewJobs)
  <2> SUFFICES ASSUME NEW j \in NewJobs, NEW e \in H[j.key], Accepts(e, j)
               PROVE  After(e, j) \in H[j.key]
    BY DEF Closed
  <2>1. j \in Job /\ j.key \in Keys /\ j.kind \in JobKinds
    BY DEF NewJobs, OurJobs, Job
  <2>2. e \in Entry /\ After(e, j) \in Entry
    BY <2>1, AfterIsEntry
  <2>3. ASSUME led.mem[j.key].state # "absent" PROVE Holds(After(e, j), led.mem[j.key].fp)
    <3>1. Holds(e, led.mem[j.key].fp)
      BY <2>1, <2>3
    <3>2. j.kind # "prepare" => j.fp = led.mem[j.key].fp
      BY DEF NewJobs, Holds
    <3>3. CASE j.kind = "prepare"
      BY <3>1, <3>3 DEF After, Prepared, Holds
    <3>4. CASE j.kind = "reserve"
      BY <3>2, <3>4 DEF After, Reserved, Holds
    <3>5. CASE j.kind \in JobKinds \ {"prepare", "reserve"}
      BY <2>2, <3>1, <3>5 DEF After, Holds, Entry, JobKinds
    <3> QED
      BY <2>1, <3>3, <3>4, <3>5
  <2> QED
    BY <2>1, <2>2, <2>3
<1> HIDE DEF H
<1>3. led'.mem[k] \in H[k]
  BY <1>1, <1>2 DEF LedgerMoves, Runs
<1> QED
  BY <1>3 DEF H

\* The chain holds legal jobs again.
LEMMA JobsKept ==
    ASSUME DInv, LedgerMoves
    PROVE  JobsInv'
<1>1. NewJobs \subseteq LegalJobs'
  <2> SUFFICES ASSUME NEW j \in NewJobs PROVE j \in LegalJobs'
    OBVIOUS
  <2>1. j.key \in Keys
    BY DEF NewJobs, OurJobs, Job
  <2>2. j.kind # "prepare" => Holds(led'.mem[j.key], j.fp)
    BY <2>1, FingerprintsStay DEF NewJobs, Holds
  <2> QED
    BY <2>2 DEF NewJobs, LegalJobs, OurJobs
<1>2. Ready(led', NewJobs) /\ Once(led'.jobs)
  BY DEF LedgerMoves
<1> QED
  BY <1>1, <1>2 DEF JobsInv, Ready

\* Handlers keep their entries, and what was sent stays the only one.
LEMMA KeysKeptBySender ==
    ASSUME DInv, LedgerMoves, IInv', \A r \in Requests : Stable(r),
           \A r \in Requests : WasSent(r)' =>
               WasSent(r) \/ (disk'[KeyOf[r]].fp = reqLease'[r] /\ pc'[r] \in Over),
           \A r \in Requests : pc'[r] \in Held =>
               pc[r] \in Held \/ Holds(led.mem[KeyOf[r]], reqLease'[r]),
           \A r, s \in Requests :
               r # s /\ KeyOf[r] = KeyOf[s] /\ pc'[r] = "reserving" => ~WasSent(s)',
           SentOncePerKey'
    PROVE  KeyInv'
<1>0. \A r \in Requests : KeyOf[r] \in Keys
  BY DispatchAssumption
<1>1. \A k \in Keys : disk'[k].state # "absent" => Holds(led'.mem[k], disk'[k].fp)
  <2> SUFFICES ASSUME NEW k \in Keys, disk'[k].state # "absent"
               PROVE  Holds(led'.mem[k], disk'[k].fp)
    OBVIOUS
  <2>1. Holds(led.mem[k], disk'[k].fp)
    BY DEF LedgerMoves, DInv, KeyInv, Holds
  <2> QED
    BY <2>1, FingerprintsStay DEF Holds
<1>2. \A r \in Requests : pc'[r] \in Held => Holds(led'.mem[KeyOf[r]], reqLease'[r])
  <2> SUFFICES ASSUME NEW r \in Requests, pc'[r] \in Held
               PROVE  Holds(led'.mem[KeyOf[r]], reqLease'[r])
    OBVIOUS
  <2>1. pc[r] \in Held => pc[r] # "idle"
    BY DEF Held
  <2>2. Holds(led.mem[KeyOf[r]], reqLease'[r])
    BY <2>1 DEF DInv, KeyInv, Stable
  <2> QED
    BY <1>0, <2>2, FingerprintsStay DEF Holds
<1>3. \A r \in Requests : WasSent(r)' => disk'[KeyOf[r]].fp = reqLease'[r] /\ pc'[r] \in Over
  <2> SUFFICES ASSUME NEW r \in Requests, WasSent(r)
               PROVE  disk'[KeyOf[r]].fp = reqLease'[r] /\ pc'[r] \in Over
    OBVIOUS
  <2>1. disk[KeyOf[r]].fp = reqLease[r] /\ pc[r] \in Over
    BY DEF DInv, KeyInv
  <2>2. disk[KeyOf[r]].state # "absent"
    BY DEF DInv, IInv, DurableBeforeSend
  <2>3. Holds(led.mem[KeyOf[r]], disk[KeyOf[r]].fp)
    BY <1>0, <2>2 DEF DInv, KeyInv
  <2>4. pc'[r] \in Over /\ reqLease'[r] = reqLease[r]
    BY <2>1 DEF Stable, Over
  <2> QED
    BY <1>0, <2>1, <2>3, <2>4 DEF LedgerMoves, Holds
<1> QED
  BY <1>1, <1>2, <1>3 DEF KeyInv

LEMMA KeysKept ==
    ASSUME DInv, LedgerMoves, IInv', \A r \in Requests : Stable(r),
           \A r \in Requests : WasSent(r)' => WasSent(r),
           \A r \in Requests : pc'[r] \in Held =>
               pc[r] \in Held \/ Holds(led.mem[KeyOf[r]], reqLease'[r]),
           \A r, s \in Requests :
               r # s /\ KeyOf[r] = KeyOf[s] /\ pc'[r] = "reserving" => ~WasSent(s)
    PROVE  KeyInv'
<1>1. SentOncePerKey'
  BY DEF DInv, KeyInv, SentOncePerKey
<1> QED
  BY <1>1, KeysKeptBySender

\* What came back stays told.
LEMMA YesStays ==
    ASSUME \A r \in Requests : Stable(r), NEW k \in Keys
    PROVE  /\ k \in Yes => k \in Yes'
           /\ k \in No => k \in No'
BY DEF Yes, No, Stable

\* The jobs of the chain write what came back.
LEMMA EntriesStayHonest ==
    ASSUME DInv, LedgerMoves, \A r \in Requests : Stable(r), NEW k \in Keys
    PROVE  Honest(led'.mem[k], k \in Yes', k \in No')
<1> DEFINE H == [q \in Keys |-> {e \in Entry : Honest(e, q \in Yes', q \in No')}]
<1>1. \A q \in Keys : led.mem[q] \in H[q]
  BY YesStays DEF DInv, IInv, TypeOK, Ledger, EffectInv, Honest
<1>2. Closed(H, NewJobs)
  <2> SUFFICES ASSUME NEW j \in NewJobs, NEW e \in H[j.key], Accepts(e, j)
               PROVE  After(e, j) \in H[j.key]
    BY DEF Closed
  <2>1. j \in Job /\ j.key \in Keys /\ j.kind \in JobKinds /\ j.req \in Requests
        /\ j.key = KeyOf[j.req]
    BY DEF NewJobs, OurJobs, Job
  <2>2. e \in Entry /\ After(e, j) \in Entry /\ Honest(e, j.key \in Yes', j.key \in No')
    BY <2>1, AfterIsEntry
  <2>3. /\ j.kind \in {"apply", "reconcile"} => j.key \in Yes'
        /\ j.kind \in {"refuse", "disprove"} => j.key \in No'
    BY <2>1 DEF NewJobs, Truthful, Settlements, Yes, No
  <2>4. Honest(After(e, j), j.key \in Yes', j.key \in No')
    <3>1. CASE j.kind \in {"prepare", "reserve"}
      BY <2>2, <3>1 DEF After, Prepared, Reserved, Absent, Honest
    <3>2. CASE j.kind \in {"abandon", "expire", "fail"}
      BY <2>2, <3>2 DEF After, Honest, Entry
    <3>3. CASE j.kind \in {"apply", "reconcile", "refuse", "disprove"}
      BY <2>2, <2>3, <3>3 DEF After, Honest, Entry
    <3> QED
      BY <2>1, <3>1, <3>2, <3>3 DEF JobKinds
  <2> QED
    BY <2>1, <2>2, <2>4
<1>3. H \in [Keys -> SUBSET Entry]
  OBVIOUS
<1> HIDE DEF H
<1>4. led'.mem[k] \in H[k]
  BY <1>1, <1>2, <1>3 DEF LedgerMoves, Runs
<1> QED
  BY <1>4 DEF H

\* Once the operation that applied an entry is closed, nothing settles it again.
LEMMA AppliedStays ==
    ASSUME DInv, LedgerMoves, SentOncePerKey', NEW r \in Requests,
           led.mem[KeyOf[r]].state = "applied", WasSent(r)', op'[r] # "settling"
    PROVE  led'.mem[KeyOf[r]].state = "applied"
<1> DEFINE H == [q \in Keys |-> {e \in Entry : q = KeyOf[r] => e.state = "applied"}]
<1>0. KeyOf[r] \in Keys
  BY DispatchAssumption
<1>1. \A q \in Keys : led.mem[q] \in H[q]
  BY DEF DInv, IInv, TypeOK, Ledger
<1>2. Closed(H, NewJobs)
  <2> SUFFICES ASSUME NEW j \in NewJobs, NEW e \in H[j.key], Accepts(e, j)
               PROVE  After(e, j) \in H[j.key]
    BY DEF Closed
  <2>1. j \in Job /\ j.key \in Keys /\ j.kind \in JobKinds /\ j.req \in Requests
        /\ j.key = KeyOf[j.req]
    BY DEF NewJobs, OurJobs, Job
  <2>2. e \in Entry /\ After(e, j) \in Entry
    BY <2>1, AfterIsEntry
  <2>3. ASSUME j.key = KeyOf[r] PROVE After(e, j).state = "applied"
    <3>1. e.state = "applied"
      BY <2>1, <2>3
    <3>2. j.kind # "reconcile"
      <4>1. ASSUME j.kind = "reconcile" PROVE cmd'[j.req] = "delivered" /\ op'[j.req] = "settling"
        BY <4>1 DEF NewJobs, Truthful, Settlements
      <4> QED
        BY <2>1, <2>3, <4>1 DEF SentOncePerKey, WasSent
    <3>3. j.kind \in {"prepare", "apply"}
      BY <2>1, <3>1, <3>2 DEF Accepts, Allowed, Target, JobKinds
    <3> QED
      BY <2>2, <3>1, <3>3 DEF After, Prepared, Entry
  <2> QED
    BY <2>1, <2>2, <2>3
<1>3. H \in [Keys -> SUBSET Entry]
  OBVIOUS
<1> HIDE DEF H
<1>4. led'.mem[KeyOf[r]] \in H[KeyOf[r]]
  BY <1>0, <1>1, <1>2, <1>3 DEF LedgerMoves, Runs
<1> QED
  BY <1>0, <1>4 DEF H

\* What a step may tell the caller of r.
Tells(r) ==
    \/ /\ answer'[r] = answer[r]
       /\ pc'[r] = "answered" <=> pc[r] = "answered"
    \/ /\ pc'[r] = "answered"
       /\ \/ answer'[r] = "unknown_effect"
          \/ answer'[r] \in Refusals /\ ~WasSent(r)'
          \/ /\ answer'[r] = "known_no_effect"
             /\ cmd[r] = "delivered"
             /\ ~effect[r]
          \/ /\ answer'[r] = "ok"
             /\ cmd[r] = "delivered"
             /\ effect[r]
             /\ led.mem[KeyOf[r]].state = "applied"
             /\ disk'[KeyOf[r]].state = "applied"
             /\ op'[r] = "closed"

\* What a step may do to the command of r.
Acts(r) ==
    /\ effect'[r] => cmd'[r] \notin {"none", "sent"}
    /\ cmd'[r] = "ok" => effect'[r]
    /\ cmd'[r] = "no_effect" => ~effect'[r]
    /\ WasSent(r)' => WasSent(r) \/ pc[r] = "reserving"
    /\ op'[r] # "none" => WasSent(r)'

\* What is told stays true.
LEMMA EffectsKept ==
    ASSUME DInv, LedgerMoves, SentOncePerKey', \A r \in Requests : Stable(r),
           \A r \in Requests : Tells(r) /\ Acts(r),
           \A r \in Requests : op[r] = "closed" => op'[r] = "closed"
    PROVE  EffectInv'
<1>1. \A k \in Keys : Honest(led'.mem[k], k \in Yes', k \in No')
  BY EntriesStayHonest
<1>2. \A k \in Keys : Honest(disk'[k], k \in Yes', k \in No')
  <2> SUFFICES ASSUME NEW k \in Keys PROVE Honest(disk'[k], k \in Yes', k \in No')
    OBVIOUS
  <2>1. Honest(disk'[k], k \in Yes, k \in No)
    BY DEF LedgerMoves, DInv, EffectInv
  <2> QED
    BY <2>1, YesStays DEF Honest
<1>3. ASSUME NEW r \in Requests PROVE Told(r)'
  <2>0. Told(r) /\ Tells(r) /\ Acts(r) /\ Stable(r) /\ KeyOf[r] \in Keys
    BY DispatchAssumption DEF DInv, EffectInv
  <2>1. ASSUME answer'[r] = "ok"
        PROVE  /\ led'.mem[KeyOf[r]].state = "applied"
               /\ disk'[KeyOf[r]].state = "applied"
               /\ effect'[r] /\ cmd'[r] = "delivered" /\ op'[r] = "closed"
    <3>1. /\ led.mem[KeyOf[r]].state = "applied" /\ cmd[r] = "delivered" /\ effect[r]
          /\ op'[r] = "closed"
      BY <2>0, <2>1 DEF Told, Tells, Refusals
    <3>2. cmd'[r] = "delivered" /\ effect'[r] = effect[r]
      BY <2>0, <3>1 DEF Stable
    <3>3. led'.mem[KeyOf[r]].state = "applied"
      BY <3>1, <3>2, AppliedStays DEF WasSent
    <3>4. disk'[KeyOf[r]].state = "applied"
      BY <2>0, <2>1, <3>1 DEF Told, Tells, Refusals, LedgerMoves
    <3> QED
      BY <3>1, <3>2, <3>3, <3>4
  <2>2. answer'[r] = "none" <=> pc'[r] # "answered"
    BY <2>0 DEF Told, Tells, Refusals
  <2>3. answer'[r] = "known_no_effect" => ~effect'[r] /\ cmd'[r] = "delivered"
    BY <2>0 DEF Told, Tells, Stable, Refusals
  <2>4. answer'[r] \in Refusals => ~WasSent(r)'
    <3>1. answer[r] \in Refusals => pc[r] # "reserving"
      BY <2>0 DEF Told, Refusals
    <3> QED
      BY <2>0, <3>1 DEF Told, Tells, Acts, Refusals
  <2> QED
    BY <2>0, <2>1, <2>2, <2>3, <2>4 DEF Told, Acts
<1> QED
  BY <1>1, <1>2, <1>3 DEF EffectInv

-----------------------------------------------------------------------------
(* Most steps send nothing, execute nothing and settle nothing             *)

\* Such a step leaves the command alone, gives nobody a reservation, and
\* tells callers that a request was refused or that its effect is unknown.
Calm(r) ==
    /\ Stable(r)
    /\ op[r] \in {"settling", "closed"} => op'[r] = op[r]
    /\ op[r] = "none" => op'[r] = "none"
    /\ pc'[r] \in Held => pc[r] \in Held
    /\ pc'[r] = "reserving" => pc[r] = "reserving"
    /\ cmd'[r] = cmd[r] /\ effect'[r] = effect[r]
    /\ \/ answer'[r] = answer[r] /\ (pc'[r] = "answered" <=> pc[r] = "answered")
       \/ /\ pc'[r] = "answered"
          /\ answer'[r] = "unknown_effect" \/ (answer'[r] \in Refusals /\ ~WasSent(r))

LEMMA CalmKeeps ==
    ASSUME DInv, IInv', LedgerMoves, \A r \in Requests : Calm(r)
    PROVE  JobsInv' /\ KeyInv' /\ EffectInv'
<1>1. \A r \in Requests : Stable(r) /\ (WasSent(r)' <=> WasSent(r))
  BY DEF Calm, WasSent
<1>2. JobsInv'
  BY JobsKept
<1>3. KeyInv'
  BY <1>1, KeysKept DEF Calm, DInv, KeyInv
<1>4. \A r \in Requests : Tells(r)
  BY <1>1 DEF Calm, Tells
<1>5. \A r \in Requests : Acts(r)
  BY <1>1 DEF Calm, Acts, DInv, EffectInv, Told
<1> QED
  BY <1>1, <1>2, <1>3, <1>4, <1>5, EffectsKept DEF Calm, KeyInv

Rest == JobsInv /\ KeyInv /\ EffectInv

\* Jobs asked for together, in any order.
LEMMA AskedJobsAreLegal ==
    ASSUME DInv, \A r \in Requests : Stable(r),
           NEW S \in SUBSET Requests, \A r \in S : pc[r] \in Held,
           NEW s \in Orders(S), NEW kind \in {"reserve", "abandon", "expire"}
    PROVE  /\ JobsFor(kind, s) \in Seq(NewJobs)
           /\ \A i \in DOMAIN JobsFor(kind, s) : JobsFor(kind, s)[i].kind \notin Settlements
<1>1. IsFiniteSet(S) /\ Cardinality(S) \in Nat
  BY DispatchAssumption, FS_Subset, FS_CardinalityType
<1>2. s \in [1 .. Cardinality(S) -> S]
  BY DEF Orders
<1>3. \A i \in 1 .. Cardinality(S) :
        JobFor(kind, s[i]) \in NewJobs /\ JobFor(kind, s[i]).kind \notin Settlements
  BY <1>2, AskedJobIsLegal
<1>4. JobsFor(kind, s) = [i \in 1 .. Cardinality(S) |-> JobFor(kind, s[i])]
  BY <1>2 DEF JobsFor
<1> QED
  BY <1>1, <1>3, <1>4

\* Nothing happens to any handler, its command or its answer.
LEMMA QuietIsCalm ==
    ASSUME UNCHANGED <<pc, reqLease, answer, cmd, effect>>,
           \A r \in Requests : op[r] \in {"none", "settling", "closed"} => op'[r] = op[r]
    PROVE  \A r \in Requests : Calm(r)
BY DEF Calm, Stable

LEMMA CalmRests ==
    ASSUME DInv, IInv', \A r \in Requests : Calm(r), UNCHANGED <<led, disk>>
    PROVE  Rest'
<1>1. LedgerMoves
  BY LedgerRests DEF Calm
<1> QED
  BY <1>1, CalmKeeps DEF Rest

LEMMA OutsideKeeps ==
    ASSUME DInv, IInv',
           \/ UNCHANGED vars
           \/ \E c \in Clients, t \in Tabs : AcquireLease(c, t)
           \/ \E t \in Tabs : LoseLease(t)
           \/ Registered
           \/ \E r \in Requests : ForgetTombstone(r)
    PROVE  Rest'
<1>1. UNCHANGED <<pc, reqLease, answer, cmd, effect, led, disk>>
  BY DEF vars, AcquireLease, LoseLease, Registered, ForgetTombstone
<1>2. \A r \in Requests : op[r] \in {"none", "settling", "closed"} => op'[r] = op[r]
  BY DEF vars, AcquireLease, LoseLease, Registered, ForgetTombstone, DInv, IInv, TypeOK
<1> QED
  BY <1>1, <1>2, QuietIsCalm, CalmRests

\* #recordNotDispatched by a handler that has not sent.
LEMMA AbandonIsCalm ==
    ASSUME DInv, NEW r \in Requests, pc[r] \in {"queued", "reserving"},
           NEW l, NEW reserved, Abandon(r, l, reserved), UNCHANGED <<reqLease, cmd, effect, op>>
    PROVE  /\ \A s \in Requests : Calm(s)
           /\ \/ led' = l
              \/ \E j \in NewJobs : j.kind \notin Settlements /\ led' = Submit(l, j)
<1>1. ~WasSent(r)
  BY DEF DInv, KeyInv, Over
<1>2. \A s \in Requests : /\ s # r => pc'[s] = pc[s] /\ answer'[s] = answer[s]
                          /\ op'[s] = op[s] /\ cmd'[s] = cmd[s] /\ effect'[s] = effect[s]
                          /\ reqLease'[s] = reqLease[s]
  BY DEF Abandon, Says, DInv, IInv, TypeOK
<1>3. \/ pc'[r] = "abandoning" /\ answer'[r] = answer[r]
      \/ pc'[r] = "answered" /\ answer'[r] = "error"
  BY DEF Abandon, Says, DInv, IInv, TypeOK
<1>4. Calm(r)
  BY <1>1, <1>2, <1>3 DEF Calm, Stable, Held, Over, Refusals
<1>5. \A s \in Requests : Calm(s)
  BY <1>2, <1>4 DEF Calm, Stable
<1>6. JobFor("abandon", r) \in NewJobs /\ JobFor("abandon", r).kind \notin Settlements
  BY <1>5, AskedJobIsLegal DEF Calm, Held
<1> QED
  BY <1>5, <1>6 DEF Abandon

\* One more job joins the chain.
LEMMA LedgerTakesOne ==
    ASSUME DInv, \A r \in Requests : Calm(r),
           NEW j \in NewJobs, j.kind \notin Settlements, led' = Submit(led, j), disk' = disk
    PROVE  LedgerMoves
<1>1. <<j>> \in Seq(NewJobs) /\ \A i \in DOMAIN <<j>> : <<j>>[i].kind \notin Settlements
  OBVIOUS
<1> QED
  BY <1>1, LedgerTakes DEF Submit, Calm

LEMMA CancelKeeps ==
    ASSUME DInv, IInv', NEW r \in Requests, Cancel(r)
    PROVE  Rest'
<1>1. UNCHANGED <<reqLease, cmd, effect, op, disk>>
  BY DEF Cancel
<1>2. CASE pc[r] = "queued"
  <2>1. Abandon(r, led, FALSE)
    BY <1>2 DEF Cancel
  <2>2. /\ \A s \in Requests : Calm(s)
        /\ led' = led \/ \E j \in NewJobs : j.kind \notin Settlements /\ led' = Submit(led, j)
    BY <1>1, <1>2, <2>1, AbandonIsCalm
  <2>3. LedgerMoves
    BY <1>1, <2>2, LedgerRests, LedgerTakesOne DEF Calm
  <2> QED
    BY <2>2, <2>3, CalmKeeps DEF Rest
<1>3. CASE pc[r] # "queued"
  BY <1>1, <1>3, QuietIsCalm, CalmRests DEF Cancel
<1> QED
  BY <1>2, <1>3

LEMMA ScheduleKeeps ==
    ASSUME DInv, IInv', NEW r \in Requests, Schedule(r)
    PROVE  Rest'
<1>1. UNCHANGED <<reqLease, cmd, effect, op, disk>>
  BY DEF Schedule
<1>2. CASE UNCHANGED <<led, pc, answer>>
  BY <1>1, <1>2, QuietIsCalm, CalmRests
<1>3. CASE ~UNCHANGED <<led, pc, answer>>
  <2>1. Abandon(r, led, FALSE) /\ ~aborted[r] /\ Turn(r) /\ ~InLane(r)
    BY <1>3 DEF Schedule
  <2>2. Queued(r)
    BY <2>1, TurnIsQueued DEF DInv
  <2>3. pc[r] = "queued"
    BY <2>1, <2>2 DEF DInv, QueueInv, StandsRight, InLane, IInv, TypeOK
  <2>4. /\ \A s \in Requests : Calm(s)
        /\ led' = led \/ \E j \in NewJobs : j.kind \notin Settlements /\ led' = Submit(led, j)
    BY <1>1, <2>1, <2>3, AbandonIsCalm
  <2>5. LedgerMoves
    BY <1>1, <2>4, LedgerRests, LedgerTakesOne DEF Calm
  <2> QED
    BY <2>4, <2>5, CalmKeeps DEF Rest
<1> QED
  BY <1>2, <1>3

\* Operations that are pending, and requests that are queued.
LEMMA PendingWasSent ==
    ASSUME DInv, NEW r \in Requests
    PROVE  /\ op[r] = "pending" => pc[r] = "sent"
           /\ pc[r] = "queued" => ~WasSent(r)
           /\ pc[r] = "queued" => op[r] # "pending"
BY DEF DInv, QueueInv, StandsRight, KeyInv, Over

LEMMA TimeoutKeeps ==
    ASSUME DInv, IInv', NEW r \in Requests, Timeout(r)
    PROVE  Rest'
<1>1. /\ op[r] = "pending" /\ pc[r] = "sent"
      /\ UNCHANGED <<reqLease, cmd, effect, disk>>
      /\ led' = SubmitAll(led, <<JobFor("expire", r)>>)
  BY PendingWasSent DEF Timeout, Interrupt
<1>2. \A s \in Requests : /\ op'[s] = IF s = r THEN "tombstone" ELSE op[s]
                          /\ pc'[s] = IF s = r THEN "answered" ELSE pc[s]
                          /\ answer'[s] = IF s = r THEN "unknown_effect" ELSE answer[s]
  BY DEF Timeout, Interrupt, Says, DInv, IInv, TypeOK
<1>3. \A s \in Requests : Calm(s)
  BY <1>1, <1>2 DEF Calm, Stable, Held, Over
<1>4. PICK j \in NewJobs : j = JobFor("expire", r) /\ j.kind \notin Settlements
  BY <1>1, <1>3, AskedJobIsLegal DEF Calm, Held
<1>5. LedgerMoves
  BY <1>1, <1>3, <1>4, LedgerTakesOne DEF Submit
<1> QED
  BY <1>3, <1>5, CalmKeeps DEF Rest

LEMMA DisconnectKeeps ==
    ASSUME DInv, IInv', NEW c \in Clients, DisconnectClient(c)
    PROVE  Rest'
<1> DEFINE mine    == {r \in Requests : ClientOf[r] = c}
           pending == {r \in mine : op[r] = "pending"}
           queued  == {r \in mine : pc[r] = "queued"}
           undone  == {r \in queued : NeedsAbandon(led, r, FALSE)}
<1>1. UNCHANGED <<reqLease, cmd, effect, disk>>
  BY DEF DisconnectClient
<1>2. \A r \in Requests :
        /\ op'[r] = IF r \in pending THEN "tombstone" ELSE op[r]
        /\ pc'[r] = IF r \in undone THEN "abandoning"
                    ELSE IF r \in pending \union queued THEN "answered" ELSE pc[r]
        /\ answer'[r] = IF r \in pending THEN "unknown_effect"
                        ELSE IF r \in queued \ undone THEN "error" ELSE answer[r]
  BY DEF DisconnectClient, Interrupt
<1>3. \A r \in Requests : /\ r \in pending => op[r] = "pending" /\ pc[r] = "sent"
                          /\ r \in queued => pc[r] = "queued" /\ ~WasSent(r)
                          /\ r \in undone => r \in queued
                          /\ ~(r \in queued /\ r \in pending)
  BY PendingWasSent
<1>4. PICK s \in Orders(pending), u \in Orders(undone) :
        led' = SubmitAll(led, JobsFor("expire", s) \o JobsFor("abandon", u))
  BY DEF DisconnectClient, Interrupt
<1>5. pending \in SUBSET Requests /\ undone \in SUBSET Requests
  OBVIOUS
<1> HIDE DEF mine, pending, queued, undone
<1>6. \A r \in Requests : Calm(r)
  BY <1>1, <1>2, <1>3 DEF Calm, Stable, Held, Over, Refusals
<1>7. /\ \A r \in Requests : Stable(r)
      /\ \A r \in Requests : op[r] = "settling" => op'[r] = "settling"
  BY <1>6 DEF Calm
<1> DEFINE a == JobsFor("expire", s)
           b == JobsFor("abandon", u)
<1>8. /\ a \in Seq(NewJobs) /\ \A i \in DOMAIN a : a[i].kind \notin Settlements
      /\ b \in Seq(NewJobs) /\ \A i \in DOMAIN b : b[i].kind \notin Settlements
  <2>1. (\A r \in pending : pc[r] \in Held) /\ (\A r \in undone : pc[r] \in Held)
    BY <1>3, <1>5 DEF Held
  <2> QED
    BY <1>5, <1>7, <2>1, AskedJobsAreLegal
<1>9. led' = SubmitAll(led, a \o b)
  BY <1>4
<1> HIDE DEF a, b
<1>10. a \o b \in Seq(NewJobs) /\ \A i \in DOMAIN (a \o b) : (a \o b)[i].kind \notin Settlements
  BY <1>8, BothOf
<1>11. LedgerMoves
  BY <1>1, <1>7, <1>9, <1>10, LedgerTakes
<1> QED
  BY <1>6, <1>11, CalmKeeps DEF Rest

LEMMA InvalidateKeeps ==
    ASSUME DInv, IInv', Invalidate, UNCHANGED <<reqLease, cmd, effect, disk>>
    PROVE  Rest'
<1> DEFINE pending == {r \in Requests : op[r] = "pending"}
<1>1. \A r \in Requests :
        /\ op'[r] = IF op[r] \in {"pending", "tombstone"} THEN "closed" ELSE op[r]
        /\ pc'[r] = IF r \in pending THEN "answered" ELSE pc[r]
        /\ answer'[r] = IF r \in pending THEN "unknown_effect" ELSE answer[r]
  BY DEF Invalidate
<1>2. PICK s \in Orders(pending) : led' = SubmitAll(led, JobsFor("expire", s))
  BY DEF Invalidate
<1>3. pending \in SUBSET Requests /\ \A r \in pending : pc[r] = "sent"
  BY PendingWasSent
<1>4. \A r \in Requests : Calm(r)
  BY <1>1, <1>3 DEF Calm, Stable, Held, Over
<1> HIDE DEF pending
<1>5. /\ \A r \in Requests : Stable(r)
      /\ \A r \in Requests : op[r] = "settling" => op'[r] = "settling"
  BY <1>4 DEF Calm
<1>6. /\ JobsFor("expire", s) \in Seq(NewJobs)
      /\ \A i \in DOMAIN JobsFor("expire", s) : JobsFor("expire", s)[i].kind \notin Settlements
  BY <1>3, <1>5, AskedJobsAreLegal DEF Held
<1>7. LedgerMoves
  BY <1>2, <1>5, <1>6, LedgerTakes
<1> QED
  BY <1>4, <1>7, CalmKeeps DEF Rest

-----------------------------------------------------------------------------
(* Jobs that settle without a command                                      *)

LEMMA ExpireDoneKeeps ==
    ASSUME DInv, IInv', NEW r \in Requests, NEW out \in Outcomes, ExpireDone(r, out)
    PROVE  Rest'
<1>1. /\ UNCHANGED <<pc, reqLease, answer, cmd, effect, op>>
      /\ JobEnds({"expire"}, r, out) /\ {"expire"} \in SUBSET JobKinds
      /\ led' = Popped(out)
  BY DEF ExpireDone, JobKinds
<1>2. \A s \in Requests : Calm(s)
  BY <1>1, QuietIsCalm
<1>3. LedgerMoves
  BY <1>1, <1>2, LedgerPops DEF Calm
<1> QED
  BY <1>2, <1>3, CalmKeeps DEF Rest

LEMMA AbandonDoneKeeps ==
    ASSUME DInv, IInv', NEW r \in Requests, NEW out \in Outcomes, AbandonDone(r, out)
    PROVE  Rest'
<1>1. /\ UNCHANGED <<reqLease, cmd, effect, op>>
      /\ JobEnds({"abandon"}, r, out) /\ {"abandon"} \in SUBSET JobKinds
      /\ led' = Popped(out) /\ pc[r] = "abandoning"
  BY DEF AbandonDone, JobKinds
<1>2. ~WasSent(r)
  BY <1>1 DEF DInv, KeyInv, Over
<1>3. /\ \A s \in Requests : pc'[s] = IF s = r THEN "answered" ELSE pc[s]
      /\ \A s \in Requests : s # r => answer'[s] = answer[s]
      /\ answer'[r] \in Refusals
  BY DEF AbandonDone, Says, DInv, IInv, TypeOK, Refusals
<1>4. \A s \in Requests : Calm(s)
  BY <1>1, <1>2, <1>3 DEF Calm, Stable, Held, Over
<1>5. LedgerMoves
  BY <1>1, <1>4, LedgerPops DEF Calm
<1> QED
  BY <1>4, <1>5, CalmKeeps DEF Rest

\* A new request asks ledger.prepare for its own key.
LEMMA SubmittedKeeps ==
    ASSUME DInv, IInv', LeaseInv', NEW r \in Requests, Submitted(r)
    PROVE  Rest'
<1>1. /\ pc[r] = "idle"
      /\ UNCHANGED <<answer, cmd, effect, op, disk>>
      /\ \A s \in Requests : pc'[s] = IF s = r THEN "preparing" ELSE pc[s]
      /\ \A s \in Requests : s # r => reqLease'[s] = reqLease[s]
      /\ reqLease'[r] = lease[TabOf[r]].id
  BY DEF Submitted, DInv, IInv, TypeOK
<1>2. \A s \in Requests : Calm(s)
  BY <1>1 DEF Calm, Stable, Held, Over
<1>3. PICK j : j = [kind |-> "prepare", key |-> KeyOf[r], req |-> r, fp |-> lease[TabOf[r]].id]
  OBVIOUS
<1>4. j.kind = "prepare" /\ j.key = KeyOf[r] /\ j.req = r /\ j.fp = reqLease'[r]
  BY <1>1, <1>3
<1>5. j \in OurJobs
  <2>0. TabOf[r] \in Tabs /\ lease \in [Tabs -> LeaseRecords]
    BY DispatchAssumption DEF DInv, IInv, TypeOK
  <2>1. lease[TabOf[r]].id \in Fingerprints
    BY <2>0, DispatchAssumption DEF LeaseRecords, NoLease
  <2> QED
    BY <1>3, <2>1, DispatchAssumption DEF OurJobs, Job, JobKinds
<1>6. j \in NewJobs /\ j.kind \notin Settlements
  BY <1>1, <1>4, <1>5 DEF NewJobs, Truthful, Settlements
<1>7. led' = Submit(led, j)
  BY <1>3 DEF Submitted
<1>8. LedgerMoves
  BY <1>1, <1>2, <1>6, <1>7, LedgerTakesOne
<1> QED
  BY <1>2, <1>8, CalmKeeps DEF Rest

\* The slot is granted: a reservation is asked for while the entry still says
\* prepared, so nothing with this key was sent.
LEMMA BeginKeeps ==
    ASSUME DInv, IInv', NEW r \in Requests, Begin(r)
    PROVE  Rest'
<1>1. UNCHANGED <<reqLease, cmd, effect, op, disk>> /\ r \in lane.active /\ ~admitted[r]
  BY DEF Begin
<1>2. CASE aborted[r]
  <2>1. UNCHANGED <<led, pc, answer>>
    BY <1>2 DEF Begin
  <2> QED
    BY <1>1, <2>1, QuietIsCalm, CalmRests
<1>3. CASE ~aborted[r]
  <2>1. Queued(r)
    BY <1>1, TurnIsQueued DEF DInv, QueueInv, InLane
  <2>2. pc[r] = "queued"
    BY <1>1, <1>3, <2>1 DEF DInv, QueueInv, StandsRight
  <2>3. CASE Abandon(r, led, FALSE)
    <3>1. /\ \A s \in Requests : Calm(s)
          /\ led' = led \/ \E j \in NewJobs : j.kind \notin Settlements /\ led' = Submit(led, j)
      BY <1>1, <2>2, <2>3, AbandonIsCalm
    <3>2. LedgerMoves
      BY <1>1, <3>1, LedgerRests, LedgerTakesOne DEF Calm
    <3> QED
      BY <3>1, <3>2, CalmKeeps DEF Rest
  <2>4. CASE Says(r, "duplicate") /\ UNCHANGED led
    <3>1. \A s \in Requests : /\ pc'[s] = IF s = r THEN "answered" ELSE pc[s]
                              /\ answer'[s] = IF s = r THEN "duplicate" ELSE answer[s]
      BY <2>4 DEF Says, DInv, IInv, TypeOK
    <3>2. \A s \in Requests : Calm(s)
      BY <1>1, <2>2, <3>1, PendingWasSent DEF Calm, Stable, Held, Over, Refusals
    <3> QED
      BY <1>1, <2>4, <3>2, CalmRests
  <2>5. CASE /\ led.mem[KeyOf[r]].state = "prepared"
             /\ led' = Submit(led, JobFor("reserve", r))
             /\ pc' = [pc EXCEPT ![r] = "reserving"]
             /\ UNCHANGED answer
    <3>1. \A s \in Requests : pc'[s] = IF s = r THEN "reserving" ELSE pc[s]
      BY <2>5 DEF DInv, IInv, TypeOK
    <3>2. \A s \in Requests : Stable(s)
      BY <1>1, <2>2, <3>1 DEF Stable, Over
    <3>3. PICK j \in NewJobs : j = JobFor("reserve", r) /\ j.kind \notin Settlements
      BY <2>2, <3>2, AskedJobIsLegal DEF Held
    <3>4. LedgerMoves
      <4>1. <<j>> \in Seq(NewJobs) /\ \A i \in DOMAIN <<j>> : <<j>>[i].kind \notin Settlements
        BY <3>3
      <4> QED
        BY <1>1, <2>5, <3>2, <3>3, <4>1, LedgerTakes DEF Submit
    <3>5. \A s \in Requests : KeyOf[s] = KeyOf[r] => ~WasSent(s)
      BY <2>5, DispatchAssumption DEF DInv, IInv, DiskBehind, DurableBeforeSend, MaySend
    <3>6. \A q, s \in Requests :
            q # s /\ KeyOf[q] = KeyOf[s] /\ pc'[q] = "reserving" => ~WasSent(s)
      BY <3>1, <3>5 DEF DInv, KeyInv
    <3>7. \A s \in Requests : pc'[s] \in Held => pc[s] \in Held
      BY <2>2, <3>1 DEF Held
    <3>8. \A s \in Requests : (WasSent(s)' <=> WasSent(s))
      BY <1>1 DEF WasSent
    <3>9. KeyInv'
      BY <3>2, <3>4, <3>6, <3>7, <3>8, KeysKept
    <3>10. \A s \in Requests : Tells(s)
      BY <2>2, <2>5, <3>1 DEF Tells
    <3>11. \A s \in Requests : Acts(s)
      BY <1>1, <3>8 DEF Acts, DInv, EffectInv, Told
    <3> QED
      BY <1>1, <3>2, <3>4, <3>9, <3>10, <3>11, JobsKept, EffectsKept DEF Rest, KeyInv
  <2> QED
    BY <1>3, <2>3, <2>4, <2>5 DEF Begin
<1> QED
  BY <1>2, <1>3

\* The extension changes the browser, or not, before it answers.
LEMMA ExecuteKeeps ==
    ASSUME DInv, IInv', NEW r \in Requests, Execute(r)
    PROVE  Rest'
<1>1. /\ UNCHANGED <<pc, reqLease, answer, op, led, disk>>
      /\ cmd[r] = "sent"
      /\ \A s \in Requests : s # r => cmd'[s] = cmd[s] /\ effect'[s] = effect[s]
  BY DEF Execute, DInv, IInv, TypeOK
<1>2. /\ cmd'[r] \in Results
      /\ cmd'[r] = "ok" => effect'[r]
      /\ cmd'[r] = "no_effect" => ~effect'[r]
  BY DEF Execute, DInv, IInv, TypeOK
<1>3. \A s \in Requests : Stable(s) /\ Tells(s) /\ (WasSent(s)' <=> WasSent(s))
  BY <1>1, <1>2 DEF Stable, Tells, WasSent, Results
<1>4. \A s \in Requests : Acts(s)
  BY <1>1, <1>2, <1>3 DEF Acts, DInv, EffectInv, Told, Results
<1>5. LedgerMoves
  BY <1>1, <1>3, LedgerRests
<1>6. KeyInv'
  BY <1>1, <1>3, <1>5, KeysKept DEF DInv, KeyInv
<1> QED
  BY <1>1, <1>3, <1>4, <1>5, <1>6, JobsKept, EffectsKept DEF Rest, KeyInv

\* A result is accepted: the job that settles it says what the browser did.
LEMMA DeliverKeeps ==
    ASSUME DInv, IInv', NEW r \in Requests, Deliver(r)
    PROVE  Rest'
<1>1. /\ UNCHANGED <<pc, reqLease, answer, effect, disk>>
      /\ cmd[r] \in Results
      /\ \A s \in Requests : cmd'[s] = IF s = r THEN "delivered" ELSE cmd[s]
  BY DEF Deliver, DInv, IInv, TypeOK
<1>2. \A s \in Requests : Stable(s) /\ Tells(s) /\ (WasSent(s)' <=> WasSent(s))
  BY <1>1 DEF Stable, Tells, WasSent, Results
<1>3. \A s \in Requests : Acts(s)
  <2>1. \A s \in Requests : op'[s] = op[s] \/ s = r
    BY DEF Deliver, DInv, IInv, TypeOK
  <2> QED
    BY <1>1, <1>2, <2>1 DEF Acts, DInv, EffectInv, Told, Results, WasSent
<1>4. LedgerMoves /\ \A s \in Requests : op[s] \in {"settling", "closed"} => op'[s] = op[s]
  <2>1. CASE UNCHANGED <<op, led>>
    BY <1>1, <1>2, <2>1, LedgerRests
  <2>2. CASE /\ op[r] \in {"pending", "tombstone"}
             /\ op' = [op EXCEPT ![r] = "settling"]
             /\ led' = Submit(led, CompletionJob(r))
    <3>1. \A s \in Requests : op'[s] = IF s = r THEN "settling" ELSE op[s]
      BY <2>2 DEF DInv, IInv, TypeOK
    <3>2. PICK kind \in Settlements :
            /\ CompletionJob(r) = JobFor(kind, r)
            /\ kind \in {"apply", "reconcile"} => cmd[r] = "ok"
            /\ kind \in {"refuse", "disprove"} => cmd[r] = "no_effect"
      <4>1. CASE cmd[r] = "ok"
        BY <4>1 DEF CompletionJob, Settlements
      <4>2. CASE cmd[r] = "no_effect"
        BY <4>2 DEF CompletionJob, Settlements
      <4>3. CASE cmd[r] \notin {"ok", "no_effect"}
        BY <4>3 DEF CompletionJob, Settlements
      <4> QED
        BY <4>1, <4>2, <4>3
    <3>3. PICK j \in OurJobs : j = JobFor(kind, r)
      BY JobForIsOurs DEF DInv, Settlements, JobKinds
    <3>4. j.kind = kind /\ j.key = KeyOf[r] /\ j.req = r /\ j.fp = reqLease[r]
      BY <3>3 DEF JobFor
    <3>5. Truthful(j)'
      BY <1>1, <3>1, <3>2, <3>4 DEF Truthful, DInv, EffectInv, Told
    <3>6. Holds(led.mem[j.key], j.fp) /\ pc[r] # "idle"
      <4>1. WasSent(r) /\ KeyOf[r] \in Keys
        BY <1>1, DispatchAssumption DEF WasSent, Results
      <4>2. disk[KeyOf[r]].fp = reqLease[r] /\ pc[r] \in Over
        BY <4>1 DEF DInv, KeyInv
      <4>3. disk[KeyOf[r]].state # "absent"
        BY <4>1 DEF DInv, IInv, DurableBeforeSend
      <4> QED
        BY <3>4, <4>1, <4>2, <4>3 DEF DInv, KeyInv, Over
    <3>7. j \in NewJobs
      BY <1>1, <3>4, <3>5, <3>6 DEF NewJobs
    <3>8. LedgerMoves
      <4>1. <<j>> \in Seq(NewJobs) /\ Len(<<j>>) = 1 /\ <<j>>[1] = j
        BY <3>7
      <4>2. led' = SubmitAll(led, <<j>>)
        BY <2>2, <3>2, <3>3 DEF Submit
      <4>3. op[<<j>>[1].req] # "settling"
        BY <2>2, <3>4, <4>1
      <4>4. \A s \in Requests : op[s] = "settling" => op'[s] = "settling"
        BY <3>1
      <4> QED
        BY <1>1, <1>2, <4>1, <4>2, <4>3, <4>4, LedgerTakes
    <3> QED
      BY <2>2, <3>1, <3>8
  <2> QED
    BY <2>1, <2>2 DEF Deliver
<1>5. KeyInv'
  BY <1>1, <1>2, <1>4, KeysKept DEF DInv, KeyInv
<1> QED
  BY <1>2, <1>3, <1>4, <1>5, JobsKept, EffectsKept DEF Rest, KeyInv

-----------------------------------------------------------------------------
(* Jobs a handler waits for                                                *)

\* prepare returns: the request stands behind the entry it was given.
LEMMA PrepareDoneKeeps ==
    ASSUME DInv, IInv', NEW r \in Requests, NEW out \in Outcomes, PrepareDone(r, out)
    PROVE  Rest'
<1> DEFINE j == Head(led.jobs)
<1>1. /\ UNCHANGED <<reqLease, cmd, effect, op>>
      /\ JobEnds({"prepare"}, r, out) /\ {"prepare"} \in SUBSET JobKinds
      /\ pc[r] = "preparing"
  BY DEF PrepareDone, JobKinds
<1>2. ~WasSent(r)
  BY <1>1 DEF DInv, KeyInv, Over
<1>3. \/ led' = Popped(out)
      \/ /\ led' = Submit(Popped(out), JobFor("abandon", r))
         /\ out = "kept"
  BY DEF PrepareDone, Abandon
<1>4. /\ \A s \in Requests : s # r => pc'[s] = pc[s] /\ answer'[s] = answer[s]
      /\ \/ pc'[r] \in {"queued", "abandoning"} /\ answer'[r] = answer[r] /\ out = "kept"
         \/ pc'[r] = "answered" /\ answer'[r] \in Refusals
  <2>1. \/ /\ \/ pc' = [pc EXCEPT ![r] = "queued"]
              \/ pc' = [pc EXCEPT ![r] = "abandoning"]
           /\ answer' = answer /\ out = "kept"
        \/ Says(r, "error") \/ Says(r, "duplicate") \/ Says(r, "conflict")
    BY DEF PrepareDone, Abandon
  <2>2. pc \in [Requests -> PcStates] /\ answer \in [Requests -> Answers]
    BY DEF DInv, IInv, TypeOK
  <2>3. CASE answer' = answer
    BY <2>1, <2>2, <2>3 DEF Says, Refusals
  <2>4. CASE Says(r, "error") \/ Says(r, "duplicate") \/ Says(r, "conflict")
    BY <2>2, <2>4 DEF Says, Refusals
  <2> QED
    BY <2>1, <2>3, <2>4
<1>5. \A s \in Requests : Stable(s)
  BY <1>1, <1>4 DEF Stable, Over
<1>6. out = "kept" => Holds(led.mem[KeyOf[r]], reqLease[r])
  <2> SUFFICES ASSUME out = "kept" PROVE Holds(led.mem[KeyOf[r]], reqLease[r])
    OBVIOUS
  <2>1. led.jobs # <<>> /\ led.ok /\ j.kind = "prepare" /\ j.req = r
    BY <1>1 DEF JobEnds
  <2>2. led.jobs \in Seq(LegalJobs) /\ Shows(led)
    BY DEF DInv, JobsInv, Ready
  <2>3. j \in LegalJobs
    BY <2>1, <2>2, HeadTailProperties
  <2>4. j.key = KeyOf[r] /\ j.fp = reqLease[r]
    BY <2>1, <2>3 DEF LegalJobs, OurJobs
  <2>5. PICK e \in Entry : Accepts(e, j) /\ led.mem[j.key] = After(e, j)
    BY <2>1, <2>2 DEF Shows
  <2>6. Holds(After(e, j), j.fp)
    BY <2>1, <2>5 DEF Accepts, After, Prepared, Absent, Holds
  <2> QED
    BY <2>4, <2>5, <2>6
<1>7. LedgerMoves
  <2>1. CASE led' = Popped(out)
    BY <1>1, <1>5, <2>1, LedgerPops
  <2>2. CASE led' = Submit(Popped(out), JobFor("abandon", r)) /\ out = "kept"
    <3>1. PICK a \in OurJobs : a = JobFor("abandon", r)
      BY JobForIsOurs DEF DInv, JobKinds
    <3>2. a.kind = "abandon" /\ a.key = KeyOf[r] /\ a.req = r /\ a.fp = reqLease[r]
      BY <3>1 DEF JobFor
    <3>3. Truthful(a)' /\ a.kind \notin Settlements
      BY <3>2 DEF Truthful, Settlements
    <3>4. a \in NewJobs
      BY <1>1, <1>4, <1>6, <2>2, <3>2, <3>3 DEF NewJobs
    <3> QED
      BY <1>1, <1>5, <2>2, <3>1, <3>3, <3>4, LedgerPops
  <2> QED
    BY <1>3, <2>1, <2>2
<1>8. \A s \in Requests :
        pc'[s] \in Held => pc[s] \in Held \/ Holds(led.mem[KeyOf[s]], reqLease'[s])
  BY <1>1, <1>4, <1>6 DEF Held
<1>9. \A s \in Requests : /\ pc'[s] = "reserving" => pc[s] = "reserving"
                          /\ WasSent(s)' <=> WasSent(s)
  BY <1>1, <1>4 DEF WasSent
<1>10. KeyInv'
  BY <1>5, <1>7, <1>8, <1>9, KeysKept DEF DInv, KeyInv
<1>11. \A s \in Requests : Tells(s)
  BY <1>1, <1>2, <1>4, <1>9 DEF Tells
<1>12. \A s \in Requests : Acts(s)
  BY <1>1, <1>9 DEF Acts, DInv, EffectInv, Told
<1> QED
  BY <1>1, <1>5, <1>7, <1>10, <1>11, <1>12, JobsKept, EffectsKept DEF Rest, KeyInv

\* The reservation is durable: the command is sent, and no other with its key
\* was, since both requests would be first in the queue of one tab.
LEMMA ReserveDoneKeeps ==
    ASSUME DInv, IInv', NEW r \in Requests, NEW out \in Outcomes, ReserveDone(r, out)
    PROVE  Rest'
<1>1. /\ UNCHANGED <<reqLease, effect>> /\ pc[r] = "reserving"
      /\ JobEnds({"reserve"}, r, out) /\ {"reserve"} \in SUBSET JobKinds
  BY DEF ReserveDone, JobKinds
<1>2. CASE out = "kept" /\ StillMayDispatch(r)
  <2>1. /\ led' = Popped(out)
        /\ UNCHANGED answer
        /\ \A s \in Requests : /\ pc'[s] = IF s = r THEN "sent" ELSE pc[s]
                               /\ op'[s] = IF s = r THEN "pending" ELSE op[s]
                               /\ cmd'[s] = IF s = r THEN "sent" ELSE cmd[s]
    BY <1>2 DEF ReserveDone, DInv, IInv, TypeOK
  <2>2. ~WasSent(r) /\ cmd[r] = "none"
    BY <1>1 DEF DInv, KeyInv, Over, WasSent
  <2>3. \A s \in Requests : Stable(s) /\ (s # r => (WasSent(s)' <=> WasSent(s)))
    BY <1>1, <2>1, <2>2 DEF Stable, Over, WasSent
  <2>4. LedgerMoves
    <3>1. \A s \in Requests :
            op[s] = "settling" /\ ~(s = r /\ {"reserve"} \subseteq Settlements)
              => op'[s] = "settling"
      <4>1. op[r] # "settling"
        BY <1>1, <2>2 DEF DInv, EffectInv, Told, WasSent
      <4> QED
        BY <2>1, <4>1
    <3> QED
      BY <1>1, <2>1, <2>3, <3>1, LedgerPops
  <2>5. disk'[KeyOf[r]].fp = reqLease'[r]
    <3> DEFINE j == Head(led.jobs)
    <3>1. led.jobs \in Seq(OurJobs) /\ led.jobs # <<>> /\ j.req = r /\ disk' = Flushed
      BY <1>1, <1>2 DEF JobEnds, DInv, IInv, Sound
    <3>2. j \in OurJobs
      BY <3>1, HeadTailProperties
    <3>3. j.key = KeyOf[r] /\ j.key \in Keys
      BY <3>1, <3>2 DEF OurJobs, Job
    <3>4. disk'[KeyOf[r]] = led.mem[KeyOf[r]]
      BY <3>1, <3>3 DEF Flushed, DInv, IInv, TypeOK
    <3>5. Holds(led.mem[KeyOf[r]], reqLease[r])
      BY <1>1 DEF DInv, KeyInv, Held
    <3> QED
      BY <1>1, <3>4, <3>5 DEF Holds
  <2>6. \A s \in Requests : s # r /\ KeyOf[s] = KeyOf[r] => ~WasSent(s) /\ pc[s] # "reserving"
    <3> SUFFICES ASSUME NEW s \in Requests, s # r, KeyOf[s] = KeyOf[r]
                 PROVE  ~WasSent(s) /\ pc[s] # "reserving"
      OBVIOUS
    <3>1. ~WasSent(s)
      BY <1>1 DEF DInv, KeyInv
    <3>2. ASSUME pc[s] = "reserving" PROVE FALSE
      <4>1. Holds(led.mem[KeyOf[r]], reqLease[r]) /\ Holds(led.mem[KeyOf[s]], reqLease[s])
        BY <1>1, <3>2 DEF DInv, KeyInv, Held
      <4>2. TabOf[r] = TabOf[s]
        BY <1>1, <4>1 DEF Holds, DInv, LeaseInv
      <4>3. Turn(r) /\ Turn(s)
        BY <1>1, <3>2 DEF DInv, QueueInv, StandsRight, InLane
      <4> QED
        BY <4>2, <4>3 DEF Turn
    <3> QED
      BY <3>1, <3>2
  <2>7. KeyInv'
    <3>1. SentOncePerKey'
      BY <2>3, <2>6 DEF SentOncePerKey, DInv, KeyInv
    <3>2. \A q, s \in Requests :
            q # s /\ KeyOf[q] = KeyOf[s] /\ pc'[q] = "reserving" => ~WasSent(s)'
      BY <2>1, <2>3, <2>6 DEF DInv, KeyInv
    <3>3. \A s \in Requests : WasSent(s)' =>
            WasSent(s) \/ (disk'[KeyOf[s]].fp = reqLease'[s] /\ pc'[s] \in Over)
      BY <2>1, <2>3, <2>5 DEF Over
    <3>4. \A s \in Requests : pc'[s] \in Held => pc[s] \in Held
      BY <1>1, <2>1 DEF Held
    <3> QED
      BY <2>3, <2>4, <3>1, <3>2, <3>3, <3>4, KeysKeptBySender
  <2>8. \A s \in Requests : Tells(s)
    BY <1>1, <2>1 DEF Tells
  <2>9. \A s \in Requests : Acts(s)
    <3>1. ~effect[r]
      BY <2>2 DEF DInv, EffectInv, Told
    <3> QED
      BY <1>1, <2>1, <2>3, <3>1 DEF Acts, DInv, EffectInv, Told, WasSent
  <2>10. \A s \in Requests : op[s] = "closed" => op'[s] = "closed"
    BY <2>1, <2>2 DEF DInv, EffectInv, Told, WasSent
  <2> QED
    BY <2>3, <2>4, <2>7, <2>8, <2>9, <2>10, JobsKept, EffectsKept DEF Rest, KeyInv
<1>3. CASE ~(out = "kept" /\ StillMayDispatch(r))
  <2>1. Abandon(r, Popped(out), out = "kept") /\ UNCHANGED <<op, cmd>>
    BY <1>3 DEF ReserveDone
  <2>2. /\ \A s \in Requests : Calm(s)
        /\ \/ led' = Popped(out)
           \/ \E j \in NewJobs : j.kind \notin Settlements /\ led' = Submit(Popped(out), j)
    BY <1>1, <2>1, AbandonIsCalm
  <2>3. LedgerMoves
    BY <1>1, <2>2, LedgerPops DEF Calm
  <2> QED
    BY <2>2, <2>3, CalmKeeps DEF Rest
<1> QED
  BY <1>2, <1>3

\* A result is settled: the answer is what the job wrote.
LEMMA SettleDoneKeeps ==
    ASSUME DInv, IInv', NEW r \in Requests, NEW out \in Outcomes, SettleDone(r, out)
    PROVE  Rest'
<1> DEFINE j == Head(led.jobs)
           kinds == {"apply", "refuse", "fail"} \union {"reconcile", "disprove"}
<1>1. /\ UNCHANGED <<reqLease, cmd, effect>> /\ op[r] = "settling"
      /\ JobEnds(kinds, r, out) /\ kinds \in SUBSET JobKinds /\ kinds \subseteq Settlements
      /\ led' = Popped(out)
      /\ \A s \in Requests : op'[s] = IF s = r THEN "closed" ELSE op[s]
  BY DEF SettleDone, JobKinds, Settlements, DInv, IInv, TypeOK
<1>2. j \in LegalJobs /\ j.req = r /\ j.kind \in kinds /\ j.key = KeyOf[r]
  <2>1. led.jobs # <<>> /\ led.jobs \in Seq(LegalJobs)
    BY <1>1 DEF JobEnds, DInv, JobsInv, Ready
  <2>2. j \in LegalJobs
    BY <2>1, HeadTailProperties
  <2> QED
    BY <1>1, <2>2 DEF JobEnds, LegalJobs, OurJobs
<1>3. /\ cmd[r] = "delivered"
      /\ j.kind \in {"apply", "reconcile"} => effect[r]
      /\ j.kind \in {"refuse", "disprove"} => ~effect[r]
  BY <1>1, <1>2 DEF LegalJobs, Truthful
<1>4. \/ UNCHANGED <<pc, answer>>
      \/ /\ out = "kept" /\ pc[r] = "sent"
         /\ Says(r, AnswerFor(j.kind))
  BY DEF SettleDone
<1>5. /\ \A s \in Requests : s # r => pc'[s] = pc[s] /\ answer'[s] = answer[s]
      /\ \/ pc'[r] = pc[r] /\ answer'[r] = answer[r]
         \/ /\ out = "kept" /\ pc[r] = "sent" /\ pc'[r] = "answered"
            /\ answer'[r] = AnswerFor(j.kind)
  <2>1. pc \in [Requests -> PcStates] /\ answer \in [Requests -> Answers]
    BY DEF DInv, IInv, TypeOK
  <2> QED
    BY <1>4, <2>1 DEF Says
<1>6. \A s \in Requests : Stable(s) /\ (WasSent(s)' <=> WasSent(s))
  BY <1>1, <1>5 DEF Stable, Over, WasSent
<1>7. LedgerMoves
  BY <1>1, <1>6, LedgerPops
<1>8. KeyInv'
  BY <1>5, <1>6, <1>7, KeysKept DEF DInv, KeyInv, Held
<1>9. out = "kept" /\ j.kind = "apply" =>
        led.mem[KeyOf[r]].state = "applied" /\ disk'[KeyOf[r]].state = "applied"
  <2> SUFFICES ASSUME out = "kept", j.kind = "apply"
               PROVE  led.mem[KeyOf[r]].state = "applied" /\ disk'[KeyOf[r]].state = "applied"
    OBVIOUS
  <2>1. led.jobs # <<>> /\ led.ok /\ disk' = Flushed
    BY <1>1 DEF JobEnds
  <2>2. PICK e \in Entry : Accepts(e, j) /\ led.mem[j.key] = After(e, j)
    BY <2>1 DEF DInv, JobsInv, Ready, Shows
  <2>3. After(e, j).state = "applied"
    BY DEF After, Entry
  <2>4. disk'[KeyOf[r]] = led.mem[KeyOf[r]]
    BY <1>2, <2>1, DispatchAssumption DEF Flushed, DInv, IInv, TypeOK
  <2> QED
    BY <1>2, <2>2, <2>3, <2>4
<1>10. \A s \in Requests : Tells(s)
  <2>1. CASE pc'[r] = pc[r] /\ answer'[r] = answer[r]
    BY <1>5, <2>1 DEF Tells
  <2>2. CASE out = "kept" /\ pc'[r] = "answered" /\ answer'[r] = AnswerFor(j.kind)
    <3>1. Tells(r)
      BY <1>1, <1>2, <1>3, <1>9, <2>2 DEF Tells, AnswerFor
    <3> QED
      BY <1>5, <3>1 DEF Tells
  <2> QED
    BY <1>5, <2>1, <2>2
<1>11. \A s \in Requests : Acts(s)
  BY <1>1, <1>3, <1>6 DEF Acts, DInv, EffectInv, Told, WasSent
<1> QED
  BY <1>1, <1>6, <1>7, <1>8, <1>10, <1>11, JobsKept, EffectsKept DEF Rest, KeyInv

-----------------------------------------------------------------------------
(* A new broker reads the disk, or what the running job had time to write  *)

LEMMA RestartKeeps ==
    ASSUME DInv, IInv', Restart
    PROVE  Rest'
<1>1. PICK kept \in {disk} \union (IF led.jobs # <<>> /\ led.ok THEN {Flushed} ELSE {}) :
        led' = Opened(kept) /\ disk' = Opened(kept).mem
  BY DEF Restart
<1>2. \A k \in Keys : kept[k] = disk[k] \/ kept[k] = led.mem[k]
  BY <1>1 DEF Flushed, DInv, IInv, TypeOK
<1>3. /\ led'.jobs = <<>>
      /\ \A k \in Keys : led'.mem[k] = Recovered(kept[k]) /\ disk'[k] = Recovered(kept[k])
  BY <1>1 DEF Opened
<1>4. /\ UNCHANGED <<reqLease, cmd, effect, answer>>
      /\ \A r \in Requests : pc'[r] = IF pc[r] \in {"idle", "answered"} THEN pc[r] ELSE "lost"
      /\ \A r \in Requests : op'[r] = IF op[r] = "none" THEN "none" ELSE "closed"
  BY DEF Restart
<1>5. \A e \in Entry : /\ Recovered(e).state = "absent" <=> e.state = "absent"
                       /\ Recovered(e).fp = e.fp
                       /\ e.state = "applied" => Recovered(e).state = "applied"
                       /\ Recovered(e).effect \in {e.effect, "unknown_effect"}
  BY DEF Recovered, Entry
<1>6. \A k \in Keys : disk[k] \in Entry /\ led.mem[k] \in Entry /\ kept[k] \in Entry
  BY <1>2 DEF DInv, IInv, TypeOK, Ledger
<1>7. JobsInv'
  <2>1. led' \in Ledger
    BY DEF IInv, TypeOK
  <2> QED
    BY <1>3, <2>1 DEF JobsInv, Ready, Shows, Once
<1>8. KeyInv'
  <2>1. \A k \in Keys : disk'[k].state # "absent" => Holds(led'.mem[k], disk'[k].fp)
    BY <1>3 DEF Holds
  <2>2. \A r \in Requests : pc'[r] \notin Held
    BY <1>4 DEF Held
  <2>3. \A r \in Requests : WasSent(r)' => disk'[KeyOf[r]].fp = reqLease'[r] /\ pc'[r] \in Over
    <3> SUFFICES ASSUME NEW r \in Requests, WasSent(r)
                 PROVE  disk'[KeyOf[r]].fp = reqLease[r] /\ pc'[r] \in Over
      BY <1>4 DEF WasSent
    <3>1. disk[KeyOf[r]].fp = reqLease[r] /\ pc[r] \in Over /\ KeyOf[r] \in Keys
      BY DispatchAssumption DEF DInv, KeyInv
    <3>2. disk[KeyOf[r]].state # "absent"
      BY DEF DInv, IInv, DurableBeforeSend
    <3>3. led.mem[KeyOf[r]].fp = reqLease[r]
      BY <3>1, <3>2 DEF DInv, KeyInv, Holds
    <3>4. kept[KeyOf[r]].fp = reqLease[r]
      BY <1>2, <3>1, <3>3
    <3> QED
      BY <1>3, <1>4, <1>5, <1>6, <3>1, <3>4 DEF Over
  <2>4. SentOncePerKey'
    BY <1>4 DEF DInv, KeyInv, SentOncePerKey, WasSent
  <2> QED
    BY <2>1, <2>2, <2>3, <2>4 DEF KeyInv, Held
<1>9. \A k \in Keys : /\ Honest(led'.mem[k], k \in Yes', k \in No')
                      /\ Honest(disk'[k], k \in Yes', k \in No')
  <2>1. Yes' = Yes /\ No' = No
    BY <1>4 DEF Yes, No
  <2>2. \A k \in Keys : Honest(kept[k], k \in Yes, k \in No)
    BY <1>2 DEF DInv, EffectInv
  <2> QED
    BY <1>3, <1>5, <1>6, <2>1, <2>2 DEF Honest
<1>10. ASSUME NEW r \in Requests PROVE Told(r)'
  <2>1. Told(r) /\ KeyOf[r] \in Keys
    BY DispatchAssumption DEF DInv, EffectInv
  <2>2. answer[r] = "ok" => /\ led'.mem[KeyOf[r]].state = "applied"
                            /\ disk'[KeyOf[r]].state = "applied"
    BY <1>2, <1>3, <1>5, <1>6, <2>1 DEF Told
  <2> QED
    BY <1>4, <2>1, <2>2 DEF Told, WasSent
<1> QED
  BY <1>7, <1>8, <1>9, <1>10 DEF Rest, EffectInv

-----------------------------------------------------------------------------
(* Theorems                                                                *)

LEMMA InitHasEffects == Init => LeaseInv /\ Rest
<1> SUFFICES ASSUME Init PROVE LeaseInv /\ Rest
  OBVIOUS
<1>1. LeaseInv
  BY DispatchAssumption DEF Init, LeaseInv, NoLease
<1>2. /\ led.jobs = <<>> /\ \A k \in Keys : led.mem[k] = Recovered(disk[k])
      /\ disk = [k \in Keys |-> Absent(0)]
  BY DEF Init, Opened
<1>3. \A k \in Keys : /\ disk[k].state = "absent" /\ disk[k].effect = "no_dispatch"
                      /\ led.mem[k] = disk[k]
  BY <1>2 DEF Recovered, Absent
<1>4. JobsInv
  <2>1. led \in Ledger
    BY InitIsSound DEF IInv, TypeOK
  <2> QED
    BY <1>2, <2>1 DEF JobsInv, Ready, Shows, Once
<1>5. KeyInv
  BY <1>3 DEF Init, KeyInv, Held, WasSent, SentOncePerKey
<1>6. EffectInv
  BY <1>3 DEF Init, EffectInv, Honest, Told, Refusals, WasSent
<1> QED
  BY <1>1, <1>4, <1>5, <1>6 DEF Rest

LEMMA NextKeepsRest ==
    ASSUME DInv, IInv', LeaseInv', [Next]_vars
    PROVE  Rest'
<1>1. CASE \/ UNCHANGED vars
           \/ \E c \in Clients, t \in Tabs : AcquireLease(c, t)
           \/ (\E t \in Tabs : LoseLease(t)) \/ Registered
           \/ \E r \in Requests : ForgetTombstone(r)
  BY <1>1, OutsideKeeps
<1>2. CASE \E c \in Clients : DisconnectClient(c)
  BY <1>2, DisconnectKeeps
<1>3. CASE \E r \in Requests : Submitted(r) \/ Cancel(r) \/ Schedule(r) \/ Begin(r) \/ Timeout(r)
  BY <1>3, SubmittedKeeps, CancelKeeps, ScheduleKeeps, BeginKeeps, TimeoutKeeps
<1>4. CASE \E r \in Requests : Execute(r) \/ Deliver(r)
  BY <1>4, ExecuteKeeps, DeliverKeeps
<1>5. CASE \E r \in Requests : LedgerStep(r)
  BY <1>5, PrepareDoneKeeps, ReserveDoneKeeps, AbandonDoneKeeps, ExpireDoneKeeps, SettleDoneKeeps
  DEF LedgerStep
<1>6. CASE LoseExtension \/ \E kind \in {"transport", "generation"} : Hello(kind)
  BY <1>6, InvalidateKeeps DEF LoseExtension, Hello
<1>7. CASE Restart
  BY <1>7, RestartKeeps
<1> QED
  BY <1>1, <1>2, <1>3, <1>4, <1>5, <1>6, <1>7 DEF Next

\* A handler that has begun has begun: nothing but a call starts one.
LEMMA LeasesRest ==
    ASSUME DInv, UNCHANGED <<lease, leases, reqLease>>,
           \A r \in Requests : pc'[r] # "idle" => pc[r] # "idle"
    PROVE  LeaseInv'
BY LeasesEnd DEF DInv

LEMMA HandlersKeepLeases ==
    ASSUME DInv, NEW r \in Requests,
           Cancel(r) \/ Schedule(r) \/ Begin(r) \/ Timeout(r) \/ LedgerStep(r)
    PROVE  LeaseInv'
<1>1. UNCHANGED <<lease, leases, reqLease>>
  BY DEF Cancel, Schedule, Begin, Timeout, LedgerStep, PrepareDone, ReserveDone, AbandonDone,
         ExpireDone, SettleDone
<1>2. \A s \in Requests : s # r => pc'[s] = pc[s]
  BY ZenonT(30) DEF DInv, IInv, TypeOK, Cancel, Schedule, Begin, Timeout, LedgerStep, PrepareDone,
         ReserveDone, AbandonDone, ExpireDone, SettleDone, Abandon, Says
<1>3. pc[r] # "idle" \/ pc'[r] = pc[r]
  <2>1. CASE Cancel(r)
    BY <2>1 DEF Cancel
  <2>2. CASE Schedule(r)
    <3>1. Queued(r) /\ ~InLane(r)
      BY <2>2, TurnIsQueued DEF Schedule, DInv
    <3>2. CASE aborted[r]
      BY <2>2, <3>2 DEF Schedule
    <3>3. CASE ~aborted[r]
      BY <3>1, <3>3 DEF DInv, QueueInv, StandsRight, InLane, IInv, TypeOK
    <3> QED
      BY <3>2, <3>3
  <2>3. CASE Begin(r)
    <3>1. Queued(r) /\ ~admitted[r]
      BY <2>3, TurnIsQueued DEF Begin, DInv, QueueInv, InLane
    <3>2. CASE aborted[r]
      BY <2>3, <3>2 DEF Begin
    <3>3. CASE ~aborted[r]
      BY <3>1, <3>3 DEF DInv, QueueInv, StandsRight
    <3> QED
      BY <3>2, <3>3
  <2>4. CASE Timeout(r)
    BY <2>4, PendingWasSent DEF Timeout
  <2>5. CASE LedgerStep(r)
    BY <2>5 DEF LedgerStep, PrepareDone, ReserveDone, AbandonDone, ExpireDone, SettleDone
  <2> QED
    BY <2>1, <2>2, <2>3, <2>4, <2>5
<1> QED
  BY <1>1, <1>2, <1>3, LeasesRest

\* A lost client, relay or process ends leases and grants none.
LEMMA LossesKeepLeases ==
    ASSUME DInv, \/ \E c \in Clients : DisconnectClient(c)
                 \/ \E t \in Tabs : LoseLease(t)
                 \/ LoseExtension \/ (\E kind \in {"transport", "generation"} : Hello(kind))
                 \/ Registered \/ Restart
    PROVE  LeaseInv'
<1>1. UNCHANGED <<leases, reqLease>>
  BY DEF DisconnectClient, LoseLease, LoseExtension, Hello, Registered, Restart
<1>2. ASSUME NEW t \in Tabs PROVE lease'[t] = lease[t] \/ lease'[t] = NoLease
  <2>1. CASE \E c \in Clients : DisconnectClient(c)
    BY <2>1 DEF DisconnectClient
  <2>2. CASE \E u \in Tabs : LoseLease(u)
    BY <2>2 DEF LoseLease, DInv, IInv, TypeOK
  <2>3. CASE LoseExtension \/ \E kind \in {"transport", "generation"} : Hello(kind)
    BY <2>3 DEF LoseExtension, Hello, Invalidate
  <2>4. CASE Registered \/ Restart
    BY <2>4 DEF Registered, Restart
  <2> QED
    BY <2>1, <2>2, <2>3, <2>4
<1>3. \A r \in Requests : op[r] = "pending" => pc[r] # "idle"
  BY PendingWasSent
<1>4. ASSUME NEW r \in Requests, pc'[r] # "idle" PROVE pc[r] # "idle"
  <2>1. CASE \E c \in Clients : DisconnectClient(c)
    BY <1>3, <1>4, <2>1, ZenonT(30) DEF DisconnectClient
  <2>2. CASE (\E t \in Tabs : LoseLease(t)) \/ Registered
    BY <1>4, <2>2 DEF LoseLease, Registered
  <2>3. CASE LoseExtension \/ \E kind \in {"transport", "generation"} : Hello(kind)
    BY <1>3, <1>4, <2>3 DEF LoseExtension, Hello, Invalidate
  <2>4. CASE Restart
    BY <1>4, <2>4 DEF Restart
  <2> QED
    BY <2>1, <2>2, <2>3, <2>4
<1> QED
  BY <1>1, <1>2, <1>4, LeasesEnd DEF DInv

LEMMA NextKeepsLeases ==
    ASSUME DInv, [Next]_vars
    PROVE  LeaseInv'
<1>1. CASE \/ UNCHANGED vars
           \/ \E r \in Requests : ForgetTombstone(r) \/ Execute(r) \/ Deliver(r)
  <2>1. UNCHANGED <<lease, leases, reqLease, pc>>
    BY <1>1 DEF vars, ForgetTombstone, Execute, Deliver
  <2> QED
    BY <2>1, LeasesRest
<1>2. CASE \E c \in Clients, t \in Tabs : AcquireLease(c, t)
  BY <1>2, AcquireLeaseKeepsLeases DEF DInv
<1>3. CASE \E r \in Requests : Submitted(r)
  BY <1>3, SubmittedKeepsLeases DEF DInv
<1>4. CASE \E r \in Requests :
             Cancel(r) \/ Schedule(r) \/ Begin(r) \/ Timeout(r) \/ LedgerStep(r)
  BY <1>4, HandlersKeepLeases
<1>5. CASE \/ \E c \in Clients : DisconnectClient(c)
           \/ \E t \in Tabs : LoseLease(t)
           \/ LoseExtension \/ (\E kind \in {"transport", "generation"} : Hello(kind))
           \/ Registered \/ Restart
  BY <1>5, LossesKeepLeases
<1> QED
  BY <1>1, <1>2, <1>3, <1>4, <1>5 DEF Next

\* Leases, jobs, keys and effects agree in every reachable state.
THEOREM EffectsInvariant == Spec => []DInv
<1>1. Init => DInv
  BY InitIsSound, InitHasQueues, InitHasEffects DEF DInv, Rest
<1>2. DInv /\ [Next]_vars => DInv'
  <2> SUFFICES ASSUME DInv, [Next]_vars PROVE DInv'
    OBVIOUS
  <2>1. IInv' /\ QueueInv'
    BY NextIsSound, NextKeepsQueues DEF DInv
  <2>2. LeaseInv'
    BY NextKeepsLeases
  <2>3. Rest'
    BY <2>1, <2>2, NextKeepsRest
  <2> QED
    BY <2>1, <2>2, <2>3 DEF DInv, Rest
<1> QED
  BY <1>1, <1>2, PTL DEF Spec

\* However duplicates, retries, cancellations, timeouts, reconnections and
\* restarts interleave, one idempotency key puts one command on the transport:
\* two requests that passed ledger.prepare with one key wait in one tab's
\* queue, and #sendOperation finds the key used when the second one's turn
\* comes.
THEOREM OneCommandPerKey == Spec => []SentOncePerKey
<1>1. DInv => SentOncePerKey
  BY DEF DInv, KeyInv
<1> QED
  BY <1>1, EffectsInvariant, PTL

\* What #completeOperation wrote into the ledger about an effect, for a result
\* in time or a late one, is what the browser did: no entry claims a change
\* nobody made or denies one that was made, in memory, through restarts too.
THEOREM LedgerKnowsTheEffect == Spec => []KnownEffectsAreTrue
<1>1. DInv => KnownEffectsAreTrue
  <2> SUFFICES ASSUME DInv, NEW k \in Keys
               PROVE  LET changed == \E r \in Requests : KeyOf[r] = k /\ effect[r]
                      IN  /\ led.mem[k].effect = "known_effect" => changed
                          /\ led.mem[k].effect = "known_no_effect" => ~changed
    BY DEF KnownEffectsAreTrue
  <2>1. Honest(led.mem[k], k \in Yes, k \in No)
    BY DEF DInv, EffectInv
  <2>2. ASSUME NEW r \in Requests, KeyOf[r] = k, effect[r], k \in No PROVE FALSE
    <3>1. PICK s \in Requests : KeyOf[s] = k /\ cmd[s] = "delivered" /\ ~effect[s]
      BY <2>2 DEF No
    <3>2. WasSent(s) /\ WasSent(r) /\ r # s
      BY <2>2, <3>1 DEF WasSent, DInv, EffectInv, Told
    <3> QED
      BY <2>2, <3>1, <3>2 DEF DInv, KeyInv, SentOncePerKey
  <2> QED
    BY <2>1, <2>2 DEF Honest, Yes
<1> QED
  BY <1>1, EffectsInvariant, PTL

\* The caller of an operation is told the truth: "ok" means that the browser
\* changed and that the disk says so for good, a no-effect or refused request
\* changed nothing (observedEffectState, #recordNotDispatched).
THEOREM CallersHearTheTruth == Spec => []AnswersAreTrue
<1>1. DInv => AnswersAreTrue
  BY DEF DInv, EffectInv, Told, Refusals, AnswersAreTrue
<1> QED
  BY <1>1, EffectsInvariant, PTL

\* A request that may not be dispatched is not: the check #sendOperation makes
\* once the reservation is durable is the one that counts, whatever happened
\* to the lease, the client, the relay or the caller during the write.
THEOREM NothingIsSentLate == Spec => NoLateSend
<1> DEFINE Late(r) == pc[r] # "idle" /\ ~WasSent(r) /\ ~MayDispatch(r)
           Step == \A r \in Requests : Late(r) => ~WasSent(r)'
<1>1. IInv /\ [Next]_vars => Step
  <2> SUFFICES ASSUME IInv, [Next]_vars, NEW r \in Requests, ~WasSent(r), ~MayDispatch(r)
               PROVE  ~WasSent(r)'
    OBVIOUS
  <2>1. CASE cmd' = cmd
    BY <2>1 DEF WasSent
  <2>2. CASE \E s \in Requests : Execute(s) \/ Deliver(s)
    BY <2>2 DEF Execute, Deliver, WasSent, Results, IInv, TypeOK
  <2>3. CASE \E s \in Requests, out \in Outcomes : ReserveDone(s, out)
    BY <2>3 DEF ReserveDone, StillMayDispatch, WasSent, IInv, TypeOK
  <2>4. CASE UNCHANGED vars
    BY <2>4 DEF vars, WasSent
  <2>5. CASE \/ \E c \in Clients : DisconnectClient(c) \/ \E t \in Tabs : AcquireLease(c, t)
             \/ \E t \in Tabs : LoseLease(t)
             \/ LoseExtension \/ (\E kind \in {"transport", "generation"} : Hello(kind))
             \/ Registered \/ Restart
    <3>1. cmd' = cmd
      BY <2>5 DEF DisconnectClient, AcquireLease, LoseLease, LoseExtension, Hello, Registered,
                  Restart
    <3> QED
      BY <2>1, <3>1
  <2>6. CASE \E s \in Requests : Submitted(s) \/ Cancel(s) \/ Schedule(s) \/ Begin(s)
                                \/ Timeout(s) \/ ForgetTombstone(s)
    <3>1. cmd' = cmd
      BY <2>6 DEF Submitted, Cancel, Schedule, Begin, Timeout, ForgetTombstone
    <3> QED
      BY <2>1, <3>1
  <2>7. CASE \E s \in Requests, out \in Outcomes :
               \/ PrepareDone(s, out) \/ AbandonDone(s, out)
               \/ ExpireDone(s, out) \/ SettleDone(s, out)
    <3>1. cmd' = cmd
      BY <2>7, ZenonT(30) DEF PrepareDone, AbandonDone, ExpireDone, SettleDone
    <3> QED
      BY <2>1, <3>1
  <2> QED
    BY <2>2, <2>3, <2>4, <2>5, <2>6, <2>7 DEF Next, LedgerStep
<1> QED
  BY <1>1, Invariance, PTL DEF Spec, NoLateSend

=============================================================================
