---------------------- MODULE OperationDispatch_proofs ----------------------
(***************************************************************************)
(* Theorems about OperationDispatch, for any number of requests, tabs,     *)
(* keys, connections and restarts.                                         *)
(*                                                                         *)
(* IInv strengthens the type invariant with the occupation of the lane and *)
(* with the relation between the ledger in memory, the job being persisted *)
(* and the disk, from which the write-ahead property follows.  QueueInv    *)
(* does the same for the queues.                                           *)
(***************************************************************************)
EXTENDS OperationDispatch, FiniteSetTheorems, SequenceTheorems, TLAPS

-----------------------------------------------------------------------------
(* The ledger: every job, queueing step and recovery keeps it well formed, *)
(* an entry that left the undispatched states never goes back, and a       *)
(* dispatch stays counted.                                                 *)

\* Every kind of job leaves an entry (TaskOperationLedger.transition, prepare
\* and reconcile write no other field values).
LEMMA AfterIsEntry ==
    ASSUME NEW e \in Entry, NEW j \in Job
    PROVE  After(e, j) \in Entry
<1>1. CASE j.kind = "prepare"
  BY <1>1 DEF After, Prepared, Absent, Entry, Job, EntryStates, EffectStates
<1>2. CASE j.kind = "reserve"
  BY <1>2 DEF After, Reserved, Entry, Job, EntryStates, EffectStates
<1>3. CASE j.kind \in {"abandon", "expire", "fail"}
  BY <1>3 DEF After, Entry, Job, EntryStates, EffectStates
<1>4. CASE j.kind \in {"refuse", "apply", "reconcile", "disprove"}
  BY <1>4 DEF After, Entry, Job, EntryStates, EffectStates
<1> QED
  BY <1>1, <1>2, <1>3, <1>4 DEF Job, JobKinds

\* #queue's head job starting keeps the ledger well formed.
LEMMA StartIsLedger ==
    ASSUME NEW l \in Ledger
    PROVE  Start(l) \in Ledger
<1> DEFINE j == Head(l.jobs)
           e == l.mem[j.key]
<1>1. CASE l.jobs = <<>>
  BY <1>1 DEF Start
<1>2. CASE l.jobs # <<>>
  <2>1. j \in Job
    BY <1>2, HeadTailProperties DEF Ledger
  <2>2. j.key \in Keys /\ e \in Entry
    BY <2>1 DEF Job, Ledger
  <2>3. After(e, j) \in Entry
    BY <2>1, <2>2, AfterIsEntry
  <2> QED
    BY <1>2, <2>2, <2>3 DEF Start, Ledger
<1> QED
  BY <1>1, <1>2

LEMMA SubmitAllIsLedger ==
    ASSUME NEW l \in Ledger, NEW js \in Seq(Job)
    PROVE  SubmitAll(l, js) \in Ledger
<1>1. [l EXCEPT !.jobs = js] \in Ledger
  BY DEF Ledger
<1>2. l.jobs \o js \in Seq(Job)
  BY ConcatProperties DEF Ledger
<1>3. [l EXCEPT !.jobs = @ \o js] \in Ledger
  BY <1>2 DEF Ledger
<1> QED
  BY <1>1, <1>3, StartIsLedger DEF SubmitAll

LEMMA SubmitIsLedger ==
    ASSUME NEW l \in Ledger, NEW j \in Job
    PROVE  Submit(l, j) \in Ledger
<1>1. <<j>> \in Seq(Job)
  OBVIOUS
<1> QED
  BY <1>1, SubmitAllIsLedger DEF Submit

LEMMA PopIsLedger ==
    ASSUME NEW l \in Ledger, l.jobs # <<>>, NEW ioError \in BOOLEAN
    PROVE  Pop(l, ioError) \in Ledger
<1>1. [l EXCEPT !.jobs = Tail(@), !.poisoned = @ \/ ioError] \in Ledger
  BY HeadTailProperties DEF Ledger
<1> QED
  BY <1>1, StartIsLedger DEF Pop

LEMMA OpenedIsLedger ==
    ASSUME NEW d \in [Keys -> Entry]
    PROVE  Opened(d) \in Ledger
<1>1. \A k \in Keys : Recovered(d[k]) \in Entry
  BY DEF Recovered, Entry, EntryStates, EffectStates
<1> QED
  BY <1>1 DEF Opened, Ledger

-----------------------------------------------------------------------------
(* What every reachable ledger keeps, beyond its type.                     *)

\* The entry's command may have been handed to the transport.
MaySend(e) == e.state \notin {"absent", "prepared"}

\* An interrupted entry records its dispatch (classifyInterruptedEffect).
Counted(e) == e.state \in {"dispatched", "unknown_effect"} => e.dispatchCount = 1

\* While a reservation is being persisted its entry already shows it.
ShowsReservation(l) ==
    l.jobs # <<>> /\ l.ok /\ Head(l.jobs).kind = "reserve"
        => MaySend(l.mem[Head(l.jobs).key])

\* A ledger whose jobs all belong to J, with both facts.
Sound(l, J) ==
    /\ l \in Ledger
    /\ l.jobs \in Seq(J)
    /\ \A k \in Keys : Counted(l.mem[k])
    /\ ShowsReservation(l)

\* Ledger m follows l: it is sound and no entry went back to undispatched.
Follows(l, m, J) ==
    /\ Sound(m, J)
    /\ \A k \in Keys : MaySend(l.mem[k]) => MaySend(m.mem[k])

\* An accepted job counts the dispatch it records (reserve) and takes no
\* dispatched entry back (the transition table).
LEMMA AfterIsSound ==
    ASSUME NEW e \in Entry, NEW j \in Job, Accepts(e, j), Counted(e)
    PROVE  /\ Counted(After(e, j))
           /\ MaySend(e) => MaySend(After(e, j))
           /\ j.kind = "reserve" => MaySend(After(e, j))
<1> USE DEF Counted, MaySend, Accepts, After, Entry, Job
<1>1. CASE j.kind = "prepare"
  BY <1>1 DEF Prepared, Absent
<1>2. CASE j.kind = "reserve"
  BY <1>2 DEF Reserved
<1>3. CASE j.kind = "abandon"
  BY <1>3
<1>4. CASE j.kind \in {"expire", "fail"}
  <2>1. "unknown_effect" \in Allowed[e.state]
    BY <1>4 DEF Target
  <2>2. e.state \in {"dispatched", "unknown_effect"}
    BY <2>1 DEF Allowed, EntryStates
  <2> QED
    BY <1>4, <2>2
<1>5. CASE j.kind \in {"refuse", "apply"}
  BY <1>5
<1>6. CASE j.kind \in {"reconcile", "disprove"}
  BY <1>6
<1> QED
  BY <1>1, <1>2, <1>3, <1>4, <1>5, <1>6 DEF JobKinds

\* The head job of a chain starts on a ledger that is sound but for it.
LEMMA StartIsSound ==
    ASSUME NEW J \in SUBSET Job, NEW l \in Ledger, l.jobs \in Seq(J),
           \A k \in Keys : Counted(l.mem[k])
    PROVE  Follows(l, Start(l), J)
<1> DEFINE j == Head(l.jobs)
           e == l.mem[j.key]
<1>1. CASE l.jobs = <<>>
  BY <1>1 DEF Start, Follows, Sound, ShowsReservation
<1>2. CASE l.jobs # <<>>
  <2>1. j \in Job /\ j.key \in Keys /\ e \in Entry
    BY <1>2, HeadTailProperties DEF Ledger, Job
  <2>2. CASE ~l.poisoned /\ Accepts(e, j)
    <3>1. Start(l) = [l EXCEPT !.ok = TRUE, !.mem[j.key] = After(e, j)]
      BY <1>2, <2>2 DEF Start
    <3>2. /\ Counted(After(e, j))
          /\ MaySend(e) => MaySend(After(e, j))
          /\ j.kind = "reserve" => MaySend(After(e, j))
      BY <2>1, <2>2, AfterIsSound
    <3>3. /\ Start(l).jobs = l.jobs
          /\ \A k \in Keys : Start(l).mem[k] = IF k = j.key THEN After(e, j) ELSE l.mem[k]
      BY <3>1, <2>1 DEF Ledger
    <3> QED
      BY <2>1, <3>2, <3>3, StartIsLedger DEF Follows, Sound, ShowsReservation
  <2>3. CASE ~(~l.poisoned /\ Accepts(e, j))
    <3>1. Start(l) = [l EXCEPT !.ok = FALSE]
      BY <1>2, <2>3 DEF Start
    <3>2. Start(l).jobs = l.jobs /\ Start(l).mem = l.mem /\ ~Start(l).ok
      BY <3>1 DEF Ledger
    <3> QED
      BY <3>2, StartIsLedger DEF Follows, Sound, ShowsReservation
  <2> QED
    BY <2>2, <2>3
<1> QED
  BY <1>1, <1>2

\* Calls of the ledger made in a row keep it sound (#queue).
LEMMA SubmitAllIsSound ==
    ASSUME NEW J \in SUBSET Job, NEW l, Sound(l, J), NEW js \in Seq(J)
    PROVE  Follows(l, SubmitAll(l, js), J)
<1>0. l \in Ledger /\ js \in Seq(Job) /\ l.jobs \in Seq(J)
  BY DEF Sound
<1>1. CASE l.jobs = <<>>
  <2> DEFINE m == [l EXCEPT !.jobs = js]
  <2>1. m \in Ledger /\ m.jobs = js /\ m.mem = l.mem
    BY <1>0 DEF Ledger
  <2>2. Follows(m, Start(m), J)
    BY <2>1, StartIsSound DEF Sound
  <2> QED
    BY <1>1, <2>1, <2>2 DEF SubmitAll, Follows
<1>2. CASE l.jobs # <<>>
  <2> DEFINE m == [l EXCEPT !.jobs = @ \o js]
  <2>1. l.jobs \o js \in Seq(J)
    BY <1>0, ConcatProperties
  <2>2. /\ m.jobs = l.jobs \o js
        /\ m.mem = l.mem
        /\ m.ok = l.ok
    BY <1>0 DEF Ledger
  <2>3. m = SubmitAll(l, js)
    BY <1>2 DEF SubmitAll
  <2>4. m \in Ledger
    BY <1>0, <2>3, SubmitAllIsLedger
  <2>5. Len(l.jobs) > 0 /\ Head(l.jobs \o js) = Head(l.jobs)
    BY <1>0, <1>2, EmptySeq, ConcatProperties
  <2> QED
    BY <1>2, <2>1, <2>2, <2>3, <2>4, <2>5 DEF Follows, Sound, ShowsReservation
<1> QED
  BY <1>1, <1>2

\* One call.
LEMMA SubmitIsSound ==
    ASSUME NEW J \in SUBSET Job, NEW l, Sound(l, J), NEW j \in J
    PROVE  Follows(l, Submit(l, j), J)
<1>1. <<j>> \in Seq(J)
  OBVIOUS
<1> QED
  BY <1>1, SubmitAllIsSound DEF Submit

\* The running job settles and its successor starts.
LEMMA PopIsSound ==
    ASSUME NEW J \in SUBSET Job, NEW l, Sound(l, J), l.jobs # <<>>, NEW ioError \in BOOLEAN
    PROVE  Follows(l, Pop(l, ioError), J)
<1> DEFINE m == [l EXCEPT !.jobs = Tail(@), !.poisoned = @ \/ ioError]
<1>1. l \in Ledger /\ l.jobs \in Seq(J) /\ Tail(l.jobs) \in Seq(J)
  BY HeadTailProperties DEF Sound
<1>2. Tail(l.jobs) \in Seq(Job)
  BY <1>1
<1>3. m \in Ledger /\ m.jobs = Tail(l.jobs) /\ m.mem = l.mem
  BY <1>1, <1>2 DEF Ledger
<1>4. Follows(m, Start(m), J)
  BY <1>1, <1>3, StartIsSound DEF Sound
<1> QED
  BY <1>3, <1>4 DEF Pop, Follows

LEMMA FollowsItself ==
    ASSUME NEW J, NEW l, Sound(l, J)
    PROVE  Follows(l, l, J)
BY DEF Follows

LEMMA FollowsTwice ==
    ASSUME NEW J, NEW l, NEW m, NEW n, Follows(l, m, J), Follows(m, n, J)
    PROVE  Follows(l, n, J)
BY DEF Follows

\* #load keeps every dispatched entry dispatched and its count.
LEMMA OpenedIsSound ==
    ASSUME NEW J, NEW d \in [Keys -> Entry], \A k \in Keys : Counted(d[k])
    PROVE  /\ Sound(Opened(d), J)
           /\ \A k \in Keys : MaySend(d[k]) => MaySend(Opened(d).mem[k])
<1>1. \A k \in Keys : /\ Counted(Recovered(d[k]))
                      /\ MaySend(d[k]) => MaySend(Recovered(d[k]))
  BY DEF Recovered, Counted, MaySend, Entry
<1>2. Opened(d).jobs = <<>> /\ \A k \in Keys : Opened(d).mem[k] = Recovered(d[k])
  BY DEF Opened
<1>3. <<>> \in Seq(J)
  OBVIOUS
<1> QED
  BY <1>1, <1>2, <1>3, OpenedIsLedger DEF Sound, ShowsReservation

-----------------------------------------------------------------------------
(* What a chain of jobs can do to the entries: H gives each key the entries *)
(* it may hold, and the jobs of J lead nowhere else.                        *)

Closed(H, J) ==
    \A j \in J : \A e \in H[j.key] : Accepts(e, j) => After(e, j) \in H[j.key]

\* Whatever the jobs of J keep, m has kept since l.
Runs(l, m, J) ==
    \A H \in [Keys -> SUBSET Entry] :
        Closed(H, J) /\ (\A k \in Keys : l.mem[k] \in H[k]) => \A k \in Keys : m.mem[k] \in H[k]

\* The entry of the running job shows what the job did to it.
Shows(l) ==
    l.jobs # <<>> /\ l.ok =>
        \E e \in Entry : /\ Accepts(e, Head(l.jobs))
                         /\ l.mem[Head(l.jobs).key] = After(e, Head(l.jobs))

Ready(l, J) == l \in Ledger /\ l.jobs \in Seq(J) /\ Shows(l)

LEMMA RunsItself ==
    ASSUME NEW J, NEW l, NEW m, m.mem = l.mem
    PROVE  Runs(l, m, J)
BY DEF Runs

LEMMA RunsTwice ==
    ASSUME NEW J, NEW l, NEW m, NEW n, Runs(l, m, J), Runs(m, n, J)
    PROVE  Runs(l, n, J)
BY DEF Runs

\* The head job starts.
LEMMA StartRuns ==
    ASSUME NEW J \in SUBSET Job, NEW l \in Ledger, l.jobs \in Seq(J)
    PROVE  Ready(Start(l), J) /\ Runs(l, Start(l), J)
<1> DEFINE j == Head(l.jobs)
           e == l.mem[j.key]
<1>0. Start(l) \in Ledger
  BY StartIsLedger
<1>1. CASE l.jobs = <<>>
  BY <1>1 DEF Start, Ready, Shows, Runs
<1>2. CASE l.jobs # <<>>
  <2>1. j \in J /\ j \in Job /\ j.key \in Keys /\ e \in Entry
    BY <1>2, HeadTailProperties DEF Ledger, Job
  <2>2. CASE ~l.poisoned /\ Accepts(e, j)
    <3>1. Start(l) = [l EXCEPT !.ok = TRUE, !.mem[j.key] = After(e, j)]
      BY <1>2, <2>2 DEF Start
    <3>2. /\ Start(l).jobs = l.jobs
          /\ \A k \in Keys : Start(l).mem[k] = IF k = j.key THEN After(e, j) ELSE l.mem[k]
      BY <3>1, <2>1 DEF Ledger
    <3>3. Runs(l, Start(l), J)
      BY <2>1, <2>2, <3>2 DEF Runs, Closed
    <3> QED
      BY <1>0, <2>1, <2>2, <3>2, <3>3 DEF Ready, Shows
  <2>3. CASE ~(~l.poisoned /\ Accepts(e, j))
    <3>1. Start(l) = [l EXCEPT !.ok = FALSE]
      BY <1>2, <2>3 DEF Start
    <3>2. Start(l).jobs = l.jobs /\ Start(l).mem = l.mem /\ ~Start(l).ok
      BY <3>1 DEF Ledger
    <3> QED
      BY <1>0, <3>2, RunsItself DEF Ready, Shows
  <2> QED
    BY <2>2, <2>3
<1> QED
  BY <1>1, <1>2

\* Jobs join the chain.
LEMMA SubmitAllRuns ==
    ASSUME NEW J \in SUBSET Job, NEW l, Ready(l, J), NEW js \in Seq(J)
    PROVE  Ready(SubmitAll(l, js), J) /\ Runs(l, SubmitAll(l, js), J)
<1>0. l \in Ledger /\ js \in Seq(Job) /\ l.jobs \in Seq(J)
  BY DEF Ready
<1>1. CASE l.jobs = <<>>
  <2> DEFINE m == [l EXCEPT !.jobs = js]
  <2>1. m \in Ledger /\ m.jobs = js /\ m.mem = l.mem
    BY <1>0 DEF Ledger
  <2>2. Ready(Start(m), J) /\ Runs(m, Start(m), J)
    BY <2>1, StartRuns
  <2> QED
    BY <1>1, <2>1, <2>2 DEF SubmitAll, Runs
<1>2. CASE l.jobs # <<>>
  <2> DEFINE m == [l EXCEPT !.jobs = @ \o js]
  <2>1. l.jobs \o js \in Seq(J)
    BY <1>0, ConcatProperties
  <2>2. m.jobs = l.jobs \o js /\ m.mem = l.mem /\ m.ok = l.ok
    BY <1>0 DEF Ledger
  <2>3. m = SubmitAll(l, js)
    BY <1>2 DEF SubmitAll
  <2>4. m \in Ledger
    BY <1>0, <2>3, SubmitAllIsLedger
  <2>5. Head(l.jobs \o js) = Head(l.jobs)
    BY <1>0, <1>2, EmptySeq, ConcatProperties
  <2> QED
    BY <1>2, <2>1, <2>2, <2>3, <2>4, <2>5, RunsItself DEF Ready, Shows
<1> QED
  BY <1>1, <1>2

LEMMA SubmitRuns ==
    ASSUME NEW J \in SUBSET Job, NEW l, Ready(l, J), NEW j \in J
    PROVE  Ready(Submit(l, j), J) /\ Runs(l, Submit(l, j), J)
<1>1. <<j>> \in Seq(J)
  OBVIOUS
<1> QED
  BY <1>1, SubmitAllRuns DEF Submit

\* The running job settles and the rest of the chain goes on.
LEMMA PopRuns ==
    ASSUME NEW J \in SUBSET Job, NEW l \in Ledger, l.jobs # <<>>, Tail(l.jobs) \in Seq(J),
           NEW ioError \in BOOLEAN
    PROVE  Ready(Pop(l, ioError), J) /\ Runs(l, Pop(l, ioError), J)
<1> DEFINE m == [l EXCEPT !.jobs = Tail(@), !.poisoned = @ \/ ioError]
<1>1. Tail(l.jobs) \in Seq(Job)
  OBVIOUS
<1>2. m \in Ledger /\ m.jobs = Tail(l.jobs) /\ m.mem = l.mem
  BY <1>1 DEF Ledger
<1>3. Ready(Start(m), J) /\ Runs(m, Start(m), J)
  BY <1>2, StartRuns
<1> QED
  BY <1>2, <1>3 DEF Pop, Runs

-----------------------------------------------------------------------------
(* A command's result is settled by one job of the chain.                  *)

Settlements == {"apply", "refuse", "fail", "reconcile", "disprove"}

Once(s) ==
    \A i, j \in DOMAIN s :
        /\ s[i].kind \in Settlements
        /\ s[j].kind \in Settlements
        /\ s[i].req = s[j].req
        => i = j

\* The calls of Submit and SubmitAll join the end of the chain.
LEMMA SubmitAllJobs ==
    ASSUME NEW l \in Ledger, NEW js \in Seq(Job)
    PROVE  SubmitAll(l, js).jobs = l.jobs \o js
<1>1. \A m \in Ledger : Start(m).jobs = m.jobs
  BY DEF Start, Ledger
<1>2. CASE l.jobs = <<>>
  <2>1. [l EXCEPT !.jobs = js] \in Ledger /\ [l EXCEPT !.jobs = js].jobs = js
    BY DEF Ledger
  <2>2. <<>> \o js = js
    BY ConcatProperties
  <2> QED
    BY <1>1, <1>2, <2>1, <2>2 DEF SubmitAll
<1>3. CASE l.jobs # <<>>
  BY <1>3 DEF SubmitAll, Ledger
<1> QED
  BY <1>2, <1>3

LEMMA PopJobs ==
    ASSUME NEW l \in Ledger, l.jobs # <<>>, NEW ioError \in BOOLEAN
    PROVE  Pop(l, ioError).jobs = Tail(l.jobs)
<1> DEFINE m == [l EXCEPT !.jobs = Tail(@), !.poisoned = @ \/ ioError]
<1>1. m \in Ledger /\ m.jobs = Tail(l.jobs)
  BY HeadTailProperties DEF Ledger
<1>2. Start(m).jobs = m.jobs
  BY <1>1 DEF Start, Ledger
<1> QED
  BY <1>1, <1>2 DEF Pop

\* Calls that settle nothing, or settle a result nobody settles yet.
LEMMA ConcatOnce ==
    ASSUME NEW s \in Seq(Job), NEW t \in Seq(Job), Once(s),
           \/ \A i \in DOMAIN t : t[i].kind \notin Settlements
           \/ /\ Len(t) = 1
              /\ \A i \in DOMAIN s : s[i].kind \in Settlements => s[i].req # t[1].req
    PROVE  Once(s \o t)
<1>1. /\ s \o t \in Seq(Job) /\ Len(s \o t) = Len(s) + Len(t)
      /\ Len(s) \in Nat /\ Len(t) \in Nat
      /\ DOMAIN s = 1 .. Len(s) /\ DOMAIN t = 1 .. Len(t) /\ DOMAIN (s \o t) = 1 .. Len(s \o t)
  BY ConcatProperties
<1>2. \A i \in DOMAIN (s \o t) : (s \o t)[i] = IF i <= Len(s) THEN s[i] ELSE t[i - Len(s)]
  BY ConcatProperties, <1>1
<1> SUFFICES ASSUME NEW i \in DOMAIN (s \o t), NEW j \in DOMAIN (s \o t),
                    (s \o t)[i].kind \in Settlements, (s \o t)[j].kind \in Settlements,
                    (s \o t)[i].req = (s \o t)[j].req
             PROVE  i = j
  BY DEF Once
<1>3. i \in Nat /\ j \in Nat /\ 1 <= i /\ 1 <= j /\ i <= Len(s) + Len(t) /\ j <= Len(s) + Len(t)
  BY <1>1
<1>4. CASE \A k \in DOMAIN t : t[k].kind \notin Settlements
  <2>1. i <= Len(s) /\ j <= Len(s)
    BY <1>1, <1>2, <1>3, <1>4
  <2> QED
    BY <1>1, <1>2, <1>3, <2>1 DEF Once
<1>5. CASE /\ Len(t) = 1
           /\ \A k \in DOMAIN s : s[k].kind \in Settlements => s[k].req # t[1].req
  <2>1. CASE i <= Len(s) /\ j <= Len(s)
    BY <1>1, <1>2, <1>3, <2>1 DEF Once
  <2>2. CASE i <= Len(s) /\ ~(j <= Len(s))
    <3>1. j - Len(s) = 1
      BY <1>1, <1>3, <1>5, <2>2, SMTT(30)
    <3>2. (s \o t)[j] = t[1] /\ (s \o t)[i] = s[i] /\ i \in DOMAIN s
      BY <1>1, <1>2, <1>3, <2>2, <3>1
    <3> QED
      BY <1>5, <3>2
  <2>3. CASE ~(i <= Len(s)) /\ j <= Len(s)
    <3>1. i - Len(s) = 1
      BY <1>1, <1>3, <1>5, <2>3
    <3>2. (s \o t)[i] = t[1] /\ (s \o t)[j] = s[j] /\ j \in DOMAIN s
      BY <1>1, <1>2, <1>3, <2>3, <3>1
    <3> QED
      BY <1>5, <3>2
  <2>4. CASE ~(i <= Len(s)) /\ ~(j <= Len(s))
    BY <1>1, <1>3, <1>5, <2>4
  <2> QED
    BY <2>1, <2>2, <2>3, <2>4
<1> QED
  BY <1>4, <1>5

\* When the head settles a result, no job behind it does.
LEMMA TailOnce ==
    ASSUME NEW s \in Seq(Job), s # <<>>, Once(s)
    PROVE  /\ Once(Tail(s))
           /\ \A i \in DOMAIN Tail(s) :
                 Head(s).kind \in Settlements /\ Tail(s)[i].kind \in Settlements
                    => Tail(s)[i].req # Head(s).req
<1>1. /\ Len(s) \in Nat /\ 1 <= Len(s) /\ Head(s) = s[1]
      /\ DOMAIN s = 1 .. Len(s) /\ DOMAIN Tail(s) = 1 .. (Len(s) - 1)
      /\ \A i \in 1 .. (Len(s) - 1) : Tail(s)[i] = s[i + 1]
  BY HeadTailProperties
<1>2. \A i \in DOMAIN Tail(s) : i + 1 \in DOMAIN s /\ Tail(s)[i] = s[i + 1] /\ i + 1 # 1
  BY <1>1
<1>3. 1 \in DOMAIN s
  BY <1>1
<1>4. \A i, j \in DOMAIN Tail(s) : i + 1 = j + 1 => i = j
  BY <1>1
<1> QED
  BY <1>1, <1>2, <1>3, <1>4 DEF Once

-----------------------------------------------------------------------------
(* The whole dispatch.                                                     *)

\* Jobs as the broker builds them: for the key of the request they serve.
OurJobs == {j \in Job : j.key = KeyOf[j.req]}

\* The disk never runs ahead of the memory.
DiskBehind ==
    \A k \in Keys : /\ Counted(disk[k])
                    /\ MaySend(disk[k]) => MaySend(led.mem[k])

IInv ==
    /\ TypeOK
    /\ Cardinality(lane.active) <= Concurrency
    /\ hello # "none" => peer < MaxPeer
    /\ gen <= peer
    /\ Sound(led, OurJobs)
    /\ DiskBehind
    /\ DurableBeforeSend

USE DEF clientVars, profileVars, requestVars, queueVars, ledgerVars, browserVars

-----------------------------------------------------------------------------
(* The lane                                                                *)

\* Waiting work takes free slots only (#drainTargetLane).
LEMMA DrainedIsLane ==
    ASSUME NEW l \in Lane, Cardinality(l.active) <= Concurrency
    PROVE  Drained(l) \in Lane /\ Cardinality(Drained(l).active) <= Concurrency
<1> DEFINE free == Concurrency - Cardinality(l.active)
           n == IF free > Len(l.waiting) THEN Len(l.waiting) ELSE free
           new == {l.waiting[i] : i \in 1 .. n}
<1>1. IsFiniteSet(Requests) /\ Concurrency \in Nat
  BY DispatchAssumption
<1>2. IsFiniteSet(l.active) /\ Cardinality(l.active) \in Nat
  BY <1>1, FS_Subset, FS_CardinalityType DEF Lane
<1>3. l.waiting \in Seq(Requests) /\ Len(l.waiting) \in Nat
  BY DEF Lane
<1>4. n \in Nat /\ n <= Len(l.waiting) /\ n <= free
  BY <1>1, <1>2, <1>3
<1>5. new \subseteq Requests
  BY <1>3, <1>4
<1>6. IsFiniteSet(new) /\ Cardinality(new) <= n
  <2>1. [i \in 1 .. n |-> l.waiting[i]] \in Surjection(1 .. n, new)
    BY DEF Surjection
  <2>2. IsFiniteSet(1 .. n) /\ Cardinality(1 .. n) = n
    BY <1>4, FS_Interval
  <2> QED
    BY <2>1, <2>2, FS_Surjection
<1>7. Cardinality(l.active \union new) <= Concurrency
  <2>1. /\ IsFiniteSet(l.active \union new)
        /\ Cardinality(l.active \union new)
             = Cardinality(l.active) + Cardinality(new) - Cardinality(l.active \intersect new)
    BY <1>2, <1>6, FS_Union
  <2>2. /\ Cardinality(new) \in Nat
        /\ Cardinality(l.active \intersect new) \in Nat
        /\ Cardinality(l.active \union new) \in Nat
    BY <1>2, <1>6, <2>1, FS_Subset, FS_CardinalityType
  <2> QED
    BY <1>1, <1>2, <1>4, <1>6, <2>1, <2>2
<1>8. SubSeq(l.waiting, n + 1, Len(l.waiting)) \in Seq(Requests)
  BY <1>3, <1>4, SubSeqProperties
<1>9. Drained(l) = [waiting |-> SubSeq(l.waiting, n + 1, Len(l.waiting)),
                    active |-> l.active \union new]
  BY DEF Drained
<1> HIDE DEF new, n, free
<1> QED
  BY <1>5, <1>7, <1>8, <1>9 DEF Lane

\* Settling work keeps the queues and the lane well formed.
LEMMA ReleaseIsTyped ==
    ASSUME IInv, NEW S \in SUBSET Requests, Release(S)
    PROVE  /\ tabQueue' \in [Tabs -> Seq(Requests)]
           /\ lane' \in Lane
           /\ Cardinality(lane.active)' <= Concurrency
<1>1. tabQueue' \in [Tabs -> Seq(Requests)]
  <2>1. \A t \in Tabs : tabQueue[t] # <<>> => Tail(tabQueue[t]) \in Seq(Requests)
    BY HeadTailProperties DEF IInv, TypeOK
  <2> QED
    BY <2>1 DEF IInv, TypeOK, Release
<1> DEFINE m == [lane EXCEPT !.active = @ \ S]
<1>2. m \in Lane /\ m.active = lane.active \ S
  BY DEF IInv, TypeOK, Lane
<1>3. Cardinality(m.active) <= Concurrency
  <2>1. IsFiniteSet(lane.active)
    BY DispatchAssumption, FS_Subset DEF IInv, TypeOK, Lane
  <2>2. /\ Cardinality(lane.active) \in Nat
        /\ Cardinality(m.active) \in Nat
        /\ Cardinality(m.active) <= Cardinality(lane.active)
    BY <1>2, <2>1, FS_Subset, FS_CardinalityType
  <2> QED
    BY <2>2, DispatchAssumption DEF IInv
<1>4. lane' = lane \/ lane' = Drained(m)
  BY DEF Release
<1>5. lane' \in Lane /\ Cardinality(lane'.active) <= Concurrency
  BY <1>2, <1>3, <1>4, DrainedIsLane DEF IInv, TypeOK
<1> QED
  BY <1>1, <1>5

-----------------------------------------------------------------------------
(* The ledger                                                              *)

\* Jobs the broker submits are its own.
LEMMA JobForIsOurs ==
    ASSUME IInv, NEW r \in Requests, NEW kind \in JobKinds
    PROVE  JobFor(kind, r) \in OurJobs
BY DispatchAssumption DEF IInv, TypeOK, JobFor, OurJobs, Job

\* So are the jobs for a set of requests, in any order.
LEMMA JobsForAreOurs ==
    ASSUME IInv, NEW S \in SUBSET Requests, NEW s \in Orders(S), NEW kind \in JobKinds
    PROVE  JobsFor(kind, s) \in Seq(OurJobs)
<1>1. IsFiniteSet(S) /\ Cardinality(S) \in Nat
  BY DispatchAssumption, FS_Subset, FS_CardinalityType
<1>2. s \in [1 .. Cardinality(S) -> S]
  BY DEF Orders
<1>3. \A i \in 1 .. Cardinality(S) : JobFor(kind, s[i]) \in OurJobs
  BY <1>2, JobForIsOurs
<1>4. JobsFor(kind, s) = [i \in 1 .. Cardinality(S) |-> JobFor(kind, s[i])]
  BY <1>2 DEF JobsFor
<1> QED
  BY <1>1, <1>3, <1>4

\* A step that leaves the disk alone and sends nothing.
LEMMA DiskUntouched ==
    ASSUME IInv, Follows(led, led', OurJobs), disk' = disk,
           \A r \in Requests : WasSent(r)' => WasSent(r)
    PROVE  Sound(led, OurJobs)' /\ DiskBehind' /\ DurableBeforeSend'
BY DEF IInv, Follows, Sound, ShowsReservation, DiskBehind, DurableBeforeSend, MaySend

\* The running job settles: the disk catches up with the memory or stays.
LEMMA JobEndsWell ==
    ASSUME IInv, NEW kinds \in SUBSET JobKinds, NEW r \in Requests,
           NEW out \in Outcomes, JobEnds(kinds, r, out)
    PROVE  /\ Follows(led, Popped(out), OurJobs)
           /\ Head(led.jobs) \in OurJobs
           /\ disk' \in [Keys -> Entry]
           /\ \A k \in Keys : /\ Counted(disk'[k])
                              /\ MaySend(disk[k]) => MaySend(disk'[k])
                              /\ MaySend(disk'[k]) => MaySend(led.mem[k])
<1> DEFINE j == Head(led.jobs)
<1>1. led.jobs # <<>> /\ led.jobs \in Seq(OurJobs) /\ led \in Ledger
  BY DEF JobEnds, IInv, Sound
<1>2. j \in OurJobs /\ j.key \in Keys
  BY <1>1, HeadTailProperties DEF OurJobs, Job
<1>3. Follows(led, Popped(out), OurJobs)
  <2>1. OurJobs \in SUBSET Job /\ (out = "io_error") \in BOOLEAN
    BY DEF OurJobs
  <2> QED
    BY <1>1, <2>1, PopIsSound DEF Popped, IInv
<1>4. Flushed = [disk EXCEPT ![j.key] = led.mem[j.key]]
  BY DEF Flushed
<1>5. disk' \in {disk, Flushed}
  BY DEF JobEnds
<1>6. \A k \in Keys : disk'[k] \in {disk[k], led.mem[k]}
  BY <1>2, <1>4, <1>5 DEF IInv, TypeOK
<1>7. disk' \in [Keys -> Entry]
  BY <1>1, <1>2, <1>4, <1>5 DEF IInv, TypeOK, Ledger
<1>8. \A k \in Keys : /\ Counted(disk'[k])
                      /\ MaySend(disk[k]) => MaySend(disk'[k])
                      /\ MaySend(disk'[k]) => MaySend(led.mem[k])
  BY <1>6 DEF IInv, DiskBehind, Sound
<1> QED
  BY <1>2, <1>3, <1>7, <1>8

\* A settling job after which nothing is sent, whatever is asked of the
\* ledger next.
LEMMA JobEndsUnsent ==
    ASSUME IInv, NEW kinds \in SUBSET JobKinds, NEW r \in Requests,
           NEW out \in Outcomes, JobEnds(kinds, r, out),
           Follows(Popped(out), led', OurJobs),
           \A s \in Requests : WasSent(s)' => WasSent(s)
    PROVE  Sound(led, OurJobs)' /\ DiskBehind' /\ DurableBeforeSend' /\ disk' \in [Keys -> Entry]
<1>1. Follows(led, led', OurJobs)
  BY JobEndsWell, FollowsTwice
<1>2. /\ disk' \in [Keys -> Entry]
      /\ \A k \in Keys : /\ Counted(disk'[k])
                         /\ MaySend(disk[k]) => MaySend(disk'[k])
                         /\ MaySend(disk'[k]) => MaySend(led.mem[k])
  BY JobEndsWell
<1>3. KeyOf \in [Requests -> Keys]
  BY DispatchAssumption
<1> QED
  BY <1>1, <1>2, <1>3
  DEF IInv, Follows, Sound, ShowsReservation, DiskBehind, DurableBeforeSend, MaySend

\* #recordNotDispatched on a sound ledger.
LEMMA AbandonIsTyped ==
    ASSUME IInv, NEW r \in Requests, NEW l, Sound(l, OurJobs), NEW reserved \in BOOLEAN,
           Abandon(r, l, reserved)
    PROVE  /\ Follows(l, led', OurJobs)
           /\ pc' \in [Requests -> PcStates]
           /\ answer' \in [Requests -> Answers]
<1>1. JobFor("abandon", r) \in OurJobs
  BY JobForIsOurs DEF JobKinds
<1>2. Follows(l, Submit(l, JobFor("abandon", r)), OurJobs) /\ Follows(l, l, OurJobs)
  <2>1. OurJobs \in SUBSET Job
    BY DEF OurJobs
  <2> QED
    BY <1>1, <2>1, SubmitIsSound, FollowsItself
<1> QED
  BY <1>2 DEF Abandon, Says, IInv, TypeOK, PcStates, Answers

-----------------------------------------------------------------------------
(* Each action preserves IInv.  The steps name what the action does to the *)
(* ledger first, because the other conjuncts rest on it.                   *)

LEMMA AcquireLeaseStep ==
    ASSUME IInv, NEW c \in Clients, NEW t \in Tabs, AcquireLease(c, t)
    PROVE  IInv'
<1>1. Follows(led, led', OurJobs)
  BY FollowsItself DEF AcquireLease, IInv
<1>2. lease' \in [Tabs -> LeaseRecords] /\ leases' \in 0 .. MaxLease
  BY DispatchAssumption DEF AcquireLease, IInv, TypeOK, LeaseRecords
<1>3. TypeOK' /\ Cardinality(lane.active)' <= Concurrency
      /\ (hello # "none" => peer < MaxPeer)' /\ gen' <= peer'
  BY <1>2 DEF AcquireLease, IInv, TypeOK
<1> QED
  BY <1>1, <1>3, DiskUntouched DEF AcquireLease, IInv, WasSent

LEMMA LoseLeaseStep ==
    ASSUME IInv, NEW t \in Tabs, LoseLease(t)
    PROVE  IInv'
<1>1. Follows(led, led', OurJobs)
  BY FollowsItself DEF LoseLease, IInv
<1>2. TypeOK' /\ Cardinality(lane.active)' <= Concurrency
      /\ (hello # "none" => peer < MaxPeer)' /\ gen' <= peer'
  BY DEF LoseLease, IInv, TypeOK, LeaseRecords
<1> QED
  BY <1>1, <1>2, DiskUntouched DEF LoseLease, IInv, WasSent

LEMMA SubmittedStep ==
    ASSUME IInv, NEW r \in Requests, Submitted(r)
    PROVE  IInv'
<1> DEFINE j == [kind |-> "prepare", key |-> KeyOf[r], req |-> r, fp |-> lease[TabOf[r]].id]
<1>1. lease[TabOf[r]].id \in 0 .. MaxLease
  BY DispatchAssumption DEF IInv, TypeOK, LeaseRecords, NoLease
<1>2. j \in OurJobs
  BY <1>1, DispatchAssumption DEF OurJobs, Job, JobKinds
<1>3. Follows(led, led', OurJobs)
  <2>1. OurJobs \in SUBSET Job
    BY DEF OurJobs
  <2> QED
    BY <1>2, <2>1, SubmitIsSound DEF Submitted, IInv
<1>4. TypeOK' /\ Cardinality(lane.active)' <= Concurrency
      /\ (hello # "none" => peer < MaxPeer)' /\ gen' <= peer'
  BY <1>1, <1>3 DEF Submitted, IInv, TypeOK, PcStates, Follows, Sound
<1> QED
  BY <1>3, <1>4, DiskUntouched DEF Submitted, IInv, WasSent

LEMMA CancelStep ==
    ASSUME IInv, NEW r \in Requests, Cancel(r)
    PROVE  IInv'
<1>1. /\ Follows(led, led', OurJobs)
      /\ pc' \in [Requests -> PcStates]
      /\ answer' \in [Requests -> Answers]
  <2>1. CASE pc[r] = "queued"
    BY <2>1, AbandonIsTyped DEF Cancel, IInv
  <2>2. CASE pc[r] # "queued"
    BY <2>2, FollowsItself DEF Cancel, IInv, TypeOK
  <2> QED
    BY <2>1, <2>2
<1>2. TypeOK' /\ Cardinality(lane.active)' <= Concurrency
      /\ (hello # "none" => peer < MaxPeer)' /\ gen' <= peer'
  BY <1>1 DEF Cancel, IInv, TypeOK, Follows, Sound
<1> QED
  BY <1>1, <1>2, DiskUntouched DEF Cancel, IInv, WasSent

\* Operations interrupted together.
LEMMA InterruptIsTyped ==
    ASSUME IInv, NEW S \in SUBSET Requests, NEW js \in Seq(OurJobs),
           NEW opState \in OpStates, Interrupt(S, js, opState)
    PROVE  /\ Follows(led, led', OurJobs)
           /\ op' \in [Requests -> OpStates]
           /\ tabQueue' \in [Tabs -> Seq(Requests)]
           /\ lane' \in Lane
           /\ Cardinality(lane.active)' <= Concurrency
<1>1. OurJobs \in SUBSET Job
  BY DEF OurJobs
<1>2. Follows(led, led', OurJobs)
  BY <1>1, SubmitAllIsSound DEF Interrupt, IInv
<1>3. op' \in [Requests -> OpStates]
  BY DEF Interrupt, IInv, TypeOK
<1> QED
  BY <1>2, <1>3, ReleaseIsTyped DEF Interrupt

LEMMA DisconnectClientStep ==
    ASSUME IInv, NEW c \in Clients, DisconnectClient(c)
    PROVE  IInv'
<1> DEFINE mine    == {r \in Requests : ClientOf[r] = c}
           pending == {r \in mine : op[r] = "pending"}
           queued  == {r \in mine : pc[r] = "queued"}
           undone  == {r \in queued : NeedsAbandon(led, r, FALSE)}
<1>1. /\ Follows(led, led', OurJobs)
      /\ op' \in [Requests -> OpStates]
      /\ tabQueue' \in [Tabs -> Seq(Requests)]
      /\ lane' \in Lane
      /\ Cardinality(lane.active)' <= Concurrency
  <2>1. PICK s \in Orders(pending), u \in Orders(undone) :
          Interrupt(pending, JobsFor("expire", s) \o JobsFor("abandon", u), "tombstone")
    BY DEF DisconnectClient
  <2>2. JobsFor("expire", s) \in Seq(OurJobs) /\ JobsFor("abandon", u) \in Seq(OurJobs)
    <3>1. pending \in SUBSET Requests /\ undone \in SUBSET Requests
      OBVIOUS
    <3>2. "expire" \in JobKinds /\ "abandon" \in JobKinds
      BY DEF JobKinds
    <3> HIDE DEF pending, undone
    <3> QED
      BY <3>1, <3>2, JobsForAreOurs
  <2>3. JobsFor("expire", s) \o JobsFor("abandon", u) \in Seq(OurJobs)
    BY <2>2, ConcatProperties
  <2>4. pending \in SUBSET Requests /\ "tombstone" \in OpStates
    BY DEF OpStates
  <2> HIDE DEF pending, undone
  <2> QED
    BY <2>1, <2>3, <2>4, InterruptIsTyped
<1>2. /\ pc' \in [Requests -> PcStates]
      /\ answer' \in [Requests -> Answers]
  BY DEF DisconnectClient, IInv, TypeOK, PcStates, Answers
<1>3. /\ alive' \in [Clients -> BOOLEAN]
      /\ lease' \in [Tabs -> LeaseRecords]
      /\ aborted' \in [Requests -> BOOLEAN]
  BY DEF DisconnectClient, IInv, TypeOK, LeaseRecords
<1>4. TypeOK' /\ Cardinality(lane.active)' <= Concurrency
      /\ (hello # "none" => peer < MaxPeer)' /\ gen' <= peer'
  BY <1>1, <1>2, <1>3 DEF DisconnectClient, IInv, TypeOK, Follows, Sound
<1> QED
  BY <1>1, <1>4, DiskUntouched DEF DisconnectClient, IInv, WasSent

LEMMA PrepareDoneStep ==
    ASSUME IInv, NEW r \in Requests, NEW out \in Outcomes, PrepareDone(r, out)
    PROVE  IInv'
<1>1. JobEnds({"prepare"}, r, out) /\ {"prepare"} \in SUBSET JobKinds
  BY DEF PrepareDone, JobKinds
<1>2. Follows(led, Popped(out), OurJobs)
  BY <1>1, JobEndsWell
<1>3. Sound(Popped(out), OurJobs)
  BY <1>2 DEF Follows
<1>4. /\ Follows(Popped(out), led', OurJobs)
      /\ pc' \in [Requests -> PcStates]
      /\ answer' \in [Requests -> Answers]
  <2>1. CASE out = "kept" /\ led.mem[KeyOf[r]].state = "prepared" /\ aborted[r]
    BY <1>3, <2>1, AbandonIsTyped DEF PrepareDone
  <2>2. CASE ~(out = "kept" /\ led.mem[KeyOf[r]].state = "prepared" /\ aborted[r])
    BY <1>3, <2>2, FollowsItself DEF PrepareDone, Says, IInv, TypeOK, PcStates, Answers
  <2> QED
    BY <2>1, <2>2
<1>5. Sound(led, OurJobs)' /\ DiskBehind' /\ DurableBeforeSend' /\ disk' \in [Keys -> Entry]
  BY <1>1, <1>4, JobEndsUnsent DEF PrepareDone, WasSent
<1>6. Cardinality({s \in Requests : ticket[s] # 0}) + 1 \in Nat
  BY DispatchAssumption, FS_Subset, FS_CardinalityType
<1>7. ticket' \in [Requests -> Nat] /\ tabQueue' \in [Tabs -> Seq(Requests)]
  <2> DEFINE t == TabOf[r]
  <2>1. Append(tabQueue[t], r) \in Seq(Requests)
    BY AppendProperties, DispatchAssumption DEF IInv, TypeOK
  <2>2. tabQueue' = tabQueue \/ tabQueue' = [tabQueue EXCEPT ![t] = Append(tabQueue[t], r)]
    BY DEF PrepareDone
  <2>3. ticket' = ticket
        \/ ticket' = [ticket EXCEPT ![r] = Cardinality({s \in Requests : ticket[s] # 0}) + 1]
    BY DEF PrepareDone
  <2> QED
    BY <1>6, <2>1, <2>2, <2>3 DEF IInv, TypeOK
<1>8. TypeOK' /\ Cardinality(lane.active)' <= Concurrency
      /\ (hello # "none" => peer < MaxPeer)' /\ gen' <= peer'
  BY <1>4, <1>5, <1>7 DEF PrepareDone, IInv, TypeOK, Follows, Sound
<1> QED
  BY <1>5, <1>8 DEF IInv

\* The one action that sends: the reservation it follows is on disk.
LEMMA ReserveDoneStep ==
    ASSUME IInv, NEW r \in Requests, NEW out \in Outcomes, ReserveDone(r, out)
    PROVE  IInv'
<1>1. JobEnds({"reserve"}, r, out) /\ {"reserve"} \in SUBSET JobKinds
  BY DEF ReserveDone, JobKinds
<1>2. Follows(led, Popped(out), OurJobs) /\ Sound(Popped(out), OurJobs)
  BY <1>1, JobEndsWell DEF Follows
<1>3. CASE out = "kept" /\ StillMayDispatch(r)
  <2>1. /\ led' = Popped(out)
        /\ pc' = [pc EXCEPT ![r] = "sent"]
        /\ op' = [op EXCEPT ![r] = "pending"]
        /\ cmd' = [cmd EXCEPT ![r] = "sent"]
        /\ UNCHANGED <<answer, queueVars>>
    BY <1>3 DEF ReserveDone
  <2>2. /\ disk' \in [Keys -> Entry]
        /\ \A k \in Keys : /\ Counted(disk'[k])
                           /\ MaySend(disk[k]) => MaySend(disk'[k])
                           /\ MaySend(disk'[k]) => MaySend(led.mem[k])
    BY <1>1, JobEndsWell
  <2>3. MaySend(disk'[KeyOf[r]])
    <3> DEFINE j == Head(led.jobs)
    <3>1. j \in OurJobs
      BY <1>1, JobEndsWell
    <3>2. /\ led.jobs # <<>> /\ j.kind = "reserve" /\ j.req = r
          /\ led.ok /\ disk' = Flushed
      BY <1>1, <1>3 DEF JobEnds
    <3>3. MaySend(led.mem[j.key])
      BY <3>2 DEF IInv, Sound, ShowsReservation
    <3>4. j.key = KeyOf[r] /\ j.key \in Keys
      BY <3>1, <3>2 DEF OurJobs, Job
    <3>5. disk'[j.key] = led.mem[j.key]
      BY <3>2, <3>4 DEF Flushed, IInv, TypeOK
    <3> QED
      BY <3>3, <3>4, <3>5
  <2>4. DurableBeforeSend'
    BY <2>1, <2>2, <2>3, DispatchAssumption
    DEF IInv, TypeOK, DurableBeforeSend, WasSent, MaySend
  <2>5. DiskBehind' /\ Sound(led, OurJobs)'
    BY <1>2, <2>1, <2>2 DEF DiskBehind, Follows, Sound, ShowsReservation
  <2>6. TypeOK' /\ Cardinality(lane.active)' <= Concurrency
        /\ (hello # "none" => peer < MaxPeer)' /\ gen' <= peer'
    BY <2>1, <2>2, <2>5
    DEF ReserveDone, IInv, TypeOK, Sound, PcStates, OpStates, CmdStates
  <2> QED
    BY <2>4, <2>5, <2>6 DEF IInv
<1>4. CASE ~(out = "kept" /\ StillMayDispatch(r))
  <2>1. /\ Abandon(r, Popped(out), out = "kept")
        /\ UNCHANGED <<op, cmd>>
        /\ UNCHANGED queueVars \/ Release({r})
    BY <1>4 DEF ReserveDone
  <2>2. /\ Follows(Popped(out), led', OurJobs)
        /\ pc' \in [Requests -> PcStates]
        /\ answer' \in [Requests -> Answers]
    BY <1>2, <2>1, AbandonIsTyped
  <2>3. Sound(led, OurJobs)' /\ DiskBehind' /\ DurableBeforeSend' /\ disk' \in [Keys -> Entry]
    BY <1>1, <2>1, <2>2, JobEndsUnsent DEF WasSent
  <2>4. /\ tabQueue' \in [Tabs -> Seq(Requests)]
        /\ lane' \in Lane
        /\ Cardinality(lane.active)' <= Concurrency
    BY <2>1, ReleaseIsTyped DEF IInv, TypeOK
  <2>5. TypeOK' /\ Cardinality(lane.active)' <= Concurrency
        /\ (hello # "none" => peer < MaxPeer)' /\ gen' <= peer'
    BY <2>1, <2>2, <2>3, <2>4 DEF ReserveDone, IInv, TypeOK, Sound
  <2> QED
    BY <2>3, <2>5 DEF IInv
<1> QED
  BY <1>3, <1>4

LEMMA AbandonDoneStep ==
    ASSUME IInv, NEW r \in Requests, NEW out \in Outcomes, AbandonDone(r, out)
    PROVE  IInv'
<1>1. JobEnds({"abandon"}, r, out) /\ {"abandon"} \in SUBSET JobKinds
  BY DEF AbandonDone, JobKinds
<1>2. Follows(Popped(out), led', OurJobs)
  BY <1>1, JobEndsWell, FollowsItself DEF AbandonDone, Follows
<1>3. Sound(led, OurJobs)' /\ DiskBehind' /\ DurableBeforeSend' /\ disk' \in [Keys -> Entry]
  BY <1>1, <1>2, JobEndsUnsent DEF AbandonDone, WasSent
<1>4. /\ tabQueue' \in [Tabs -> Seq(Requests)]
      /\ lane' \in Lane
      /\ Cardinality(lane.active)' <= Concurrency
  <2>1. UNCHANGED queueVars \/ Release({r})
    BY DEF AbandonDone
  <2> QED
    BY <2>1, ReleaseIsTyped DEF IInv, TypeOK
<1>5. TypeOK' /\ Cardinality(lane.active)' <= Concurrency
      /\ (hello # "none" => peer < MaxPeer)' /\ gen' <= peer'
  BY <1>3, <1>4 DEF AbandonDone, Says, IInv, TypeOK, Sound, PcStates, Answers
<1> QED
  BY <1>3, <1>5 DEF IInv

LEMMA ExpireDoneStep ==
    ASSUME IInv, NEW r \in Requests, NEW out \in Outcomes, ExpireDone(r, out)
    PROVE  IInv'
<1>1. JobEnds({"expire"}, r, out) /\ {"expire"} \in SUBSET JobKinds
  BY DEF ExpireDone, JobKinds
<1>2. Follows(Popped(out), led', OurJobs)
  BY <1>1, JobEndsWell, FollowsItself DEF ExpireDone, Follows
<1>3. Sound(led, OurJobs)' /\ DiskBehind' /\ DurableBeforeSend' /\ disk' \in [Keys -> Entry]
  BY <1>1, <1>2, JobEndsUnsent DEF ExpireDone, WasSent
<1>4. TypeOK' /\ Cardinality(lane.active)' <= Concurrency
      /\ (hello # "none" => peer < MaxPeer)' /\ gen' <= peer'
  BY <1>3 DEF ExpireDone, IInv, TypeOK, Sound
<1> QED
  BY <1>3, <1>4 DEF IInv

LEMMA SettleDoneStep ==
    ASSUME IInv, NEW r \in Requests, NEW out \in Outcomes, SettleDone(r, out)
    PROVE  IInv'
<1> DEFINE kinds == {"apply", "refuse", "fail"} \union {"reconcile", "disprove"}
<1>1. JobEnds(kinds, r, out) /\ kinds \in SUBSET JobKinds
  BY DEF SettleDone, JobKinds
<1>2. Follows(Popped(out), led', OurJobs)
  BY <1>1, JobEndsWell, FollowsItself DEF SettleDone, Follows
<1>3. Sound(led, OurJobs)' /\ DiskBehind' /\ DurableBeforeSend' /\ disk' \in [Keys -> Entry]
  BY <1>1, <1>2, JobEndsUnsent DEF SettleDone, WasSent
<1>4. /\ tabQueue' \in [Tabs -> Seq(Requests)]
      /\ lane' \in Lane
      /\ Cardinality(lane.active)' <= Concurrency
  <2>1. UNCHANGED queueVars \/ Release({r})
    BY DEF SettleDone
  <2> QED
    BY <2>1, ReleaseIsTyped DEF IInv, TypeOK
<1>5. AnswerFor(Head(led.jobs).kind) \in Answers
  BY DEF AnswerFor, Answers
<1>6. pc' \in [Requests -> PcStates] /\ answer' \in [Requests -> Answers]
  <2>1. UNCHANGED <<pc, answer>> \/ Says(r, AnswerFor(Head(led.jobs).kind))
    BY DEF SettleDone
  <2> QED
    BY <1>5, <2>1, ZenonT(30) DEF Says, IInv, TypeOK, PcStates
<1>7. TypeOK' /\ Cardinality(lane.active)' <= Concurrency
      /\ (hello # "none" => peer < MaxPeer)' /\ gen' <= peer'
  BY <1>3, <1>4, <1>6 DEF SettleDone, IInv, TypeOK, Sound, OpStates
<1> QED
  BY <1>3, <1>7 DEF IInv

LEMMA ScheduleStep ==
    ASSUME IInv, NEW r \in Requests, Schedule(r)
    PROVE  IInv'
<1> DEFINE t == TabOf[r]
<1>1. /\ Follows(led, led', OurJobs)
      /\ pc' \in [Requests -> PcStates]
      /\ answer' \in [Requests -> Answers]
  <2>1. UNCHANGED <<led, pc, answer>> \/ Abandon(r, led, FALSE)
    BY DEF Schedule
  <2> QED
    BY <2>1, AbandonIsTyped, FollowsItself DEF IInv, TypeOK
<1>2. tabQueue' \in [Tabs -> Seq(Requests)]
  <2>1. tabQueue[t] # <<>> /\ Tail(tabQueue[t]) \in Seq(Requests)
    BY HeadTailProperties, DispatchAssumption DEF Schedule, Turn, IInv, TypeOK
  <2>2. tabQueue' = tabQueue \/ tabQueue' = [tabQueue EXCEPT ![t] = Tail(tabQueue[t])]
    BY DEF Schedule
  <2> QED
    BY <2>1, <2>2 DEF IInv, TypeOK
<1>3. lane' \in Lane /\ Cardinality(lane.active)' <= Concurrency
  <2> DEFINE m == [lane EXCEPT !.waiting = Append(@, r)]
  <2>1. Append(lane.waiting, r) \in Seq(Requests)
    BY AppendProperties DEF IInv, TypeOK, Lane
  <2>2. m \in Lane /\ m.active = lane.active
    BY <2>1 DEF IInv, TypeOK, Lane
  <2>3. lane' = lane \/ lane' = Drained(m)
    BY DEF Schedule
  <2> QED
    BY <2>2, <2>3, DrainedIsLane DEF IInv, TypeOK
<1>4. TypeOK' /\ Cardinality(lane.active)' <= Concurrency
      /\ (hello # "none" => peer < MaxPeer)' /\ gen' <= peer'
  BY <1>1, <1>2, <1>3 DEF Schedule, IInv, TypeOK, Follows, Sound
<1> QED
  BY <1>1, <1>4, DiskUntouched DEF Schedule, IInv, WasSent

LEMMA BeginStep ==
    ASSUME IInv, NEW r \in Requests, Begin(r)
    PROVE  IInv'
<1>1. /\ Follows(led, led', OurJobs)
      /\ pc' \in [Requests -> PcStates]
      /\ answer' \in [Requests -> Answers]
  <2>1. CASE UNCHANGED led /\ (UNCHANGED <<pc, answer>> \/ Says(r, "duplicate"))
    BY <2>1, FollowsItself DEF Says, IInv, TypeOK, PcStates, Answers
  <2>2. CASE Abandon(r, led, FALSE)
    BY <2>2, AbandonIsTyped DEF IInv
  <2>3. CASE /\ led' = Submit(led, JobFor("reserve", r))
             /\ pc' = [pc EXCEPT ![r] = "reserving"]
             /\ UNCHANGED answer
    <3>1. OurJobs \in SUBSET Job
      BY DEF OurJobs
    <3>2. JobFor("reserve", r) \in OurJobs
      BY JobForIsOurs DEF JobKinds
    <3> QED
      BY <2>3, <3>1, <3>2, SubmitIsSound DEF IInv, TypeOK, PcStates
  <2> QED
    BY <2>1, <2>2, <2>3 DEF Begin
<1>2. /\ tabQueue' \in [Tabs -> Seq(Requests)]
      /\ lane' \in Lane
      /\ Cardinality(lane.active)' <= Concurrency
  <2>1. UNCHANGED queueVars \/ Release({r})
    BY DEF Begin
  <2> QED
    BY <2>1, ReleaseIsTyped DEF IInv, TypeOK
<1>3. admitted' \in [Requests -> BOOLEAN]
  BY DEF Begin, IInv, TypeOK
<1>4. TypeOK' /\ Cardinality(lane.active)' <= Concurrency
      /\ (hello # "none" => peer < MaxPeer)' /\ gen' <= peer'
  BY <1>1, <1>2, <1>3 DEF Begin, IInv, TypeOK, Follows, Sound
<1> QED
  BY <1>1, <1>4, DiskUntouched DEF Begin, IInv, WasSent

LEMMA TimeoutStep ==
    ASSUME IInv, NEW r \in Requests, Timeout(r)
    PROVE  IInv'
<1>1. JobFor("expire", r) \in OurJobs
  BY JobForIsOurs DEF JobKinds
<1>2. <<JobFor("expire", r)>> \in Seq(OurJobs) /\ "tombstone" \in OpStates
  BY <1>1 DEF OpStates
<1>3. /\ Follows(led, led', OurJobs)
      /\ op' \in [Requests -> OpStates]
      /\ tabQueue' \in [Tabs -> Seq(Requests)]
      /\ lane' \in Lane
      /\ Cardinality(lane.active)' <= Concurrency
  BY <1>2, InterruptIsTyped DEF Timeout
<1>4. TypeOK' /\ Cardinality(lane.active)' <= Concurrency
      /\ (hello # "none" => peer < MaxPeer)' /\ gen' <= peer'
  BY <1>3 DEF Timeout, Says, IInv, TypeOK, Follows, Sound, PcStates, Answers
<1> QED
  BY <1>3, <1>4, DiskUntouched DEF Timeout, IInv, WasSent

LEMMA ForgetTombstoneStep ==
    ASSUME IInv, NEW r \in Requests, ForgetTombstone(r)
    PROVE  IInv'
<1>1. Follows(led, led', OurJobs)
  BY FollowsItself DEF ForgetTombstone, IInv
<1>2. TypeOK' /\ Cardinality(lane.active)' <= Concurrency
      /\ (hello # "none" => peer < MaxPeer)' /\ gen' <= peer'
  BY DEF ForgetTombstone, IInv, TypeOK, OpStates
<1> QED
  BY <1>1, <1>2, DiskUntouched DEF ForgetTombstone, IInv, WasSent

LEMMA ExecuteStep ==
    ASSUME IInv, NEW r \in Requests, Execute(r)
    PROVE  IInv'
<1>1. Follows(led, led', OurJobs)
  BY FollowsItself DEF Execute, IInv
<1>2. TypeOK' /\ Cardinality(lane.active)' <= Concurrency
      /\ (hello # "none" => peer < MaxPeer)' /\ gen' <= peer'
  BY DEF Execute, IInv, TypeOK, Results, CmdStates
<1>3. \A s \in Requests : WasSent(s)' => WasSent(s)
  BY DEF Execute, WasSent, IInv, TypeOK
<1> QED
  BY <1>1, <1>2, <1>3, DiskUntouched DEF Execute, IInv

LEMMA DeliverStep ==
    ASSUME IInv, NEW r \in Requests, Deliver(r)
    PROVE  IInv'
<1>1. CompletionJob(r) \in OurJobs
  <2>1. PICK kind \in JobKinds : CompletionJob(r) = JobFor(kind, r)
    BY DEF CompletionJob, JobKinds
  <2> QED
    BY <2>1, JobForIsOurs
<1>2. Follows(led, led', OurJobs)
  <2>1. OurJobs \in SUBSET Job
    BY DEF OurJobs
  <2>2. led' = led \/ led' = Submit(led, CompletionJob(r))
    BY DEF Deliver
  <2> QED
    BY <1>1, <2>1, <2>2, SubmitIsSound, FollowsItself DEF IInv
<1>3. TypeOK' /\ Cardinality(lane.active)' <= Concurrency
      /\ (hello # "none" => peer < MaxPeer)' /\ gen' <= peer'
  BY <1>2 DEF Deliver, IInv, TypeOK, OpStates, CmdStates, Follows, Sound
<1>4. \A s \in Requests : WasSent(s)' => WasSent(s)
  BY DEF Deliver, WasSent, Results, IInv, TypeOK
<1> QED
  BY <1>2, <1>3, <1>4, DiskUntouched DEF Deliver, IInv

\* #invalidateProfile, shared by a lost relay and a replacement hello.
LEMMA InvalidateIsTyped ==
    ASSUME IInv, Invalidate
    PROVE  /\ Follows(led, led', OurJobs)
           /\ lease' \in [Tabs -> LeaseRecords]
           /\ pc' \in [Requests -> PcStates]
           /\ answer' \in [Requests -> Answers]
           /\ op' \in [Requests -> OpStates]
           /\ tabQueue' \in [Tabs -> Seq(Requests)]
           /\ lane' \in Lane
           /\ Cardinality(lane.active)' <= Concurrency
<1> DEFINE pending == {r \in Requests : op[r] = "pending"}
<1>1. Follows(led, led', OurJobs)
  <2>1. PICK s \in Orders(pending) : led' = SubmitAll(led, JobsFor("expire", s))
    BY DEF Invalidate
  <2>2. pending \in SUBSET Requests /\ "expire" \in JobKinds /\ OurJobs \in SUBSET Job
    BY DEF JobKinds, OurJobs
  <2> HIDE DEF pending
  <2>3. JobsFor("expire", s) \in Seq(OurJobs)
    BY <2>2, JobsForAreOurs
  <2> QED
    BY <2>1, <2>2, <2>3, SubmitAllIsSound DEF IInv
<1>2. Release(pending)
  BY DEF Invalidate
<1>3. /\ lease' \in [Tabs -> LeaseRecords]
      /\ pc' \in [Requests -> PcStates]
      /\ answer' \in [Requests -> Answers]
      /\ op' \in [Requests -> OpStates]
  BY DEF Invalidate, IInv, TypeOK, LeaseRecords, PcStates, Answers, OpStates
<1> QED
  BY <1>1, <1>2, <1>3, ReleaseIsTyped

LEMMA LoseExtensionStep ==
    ASSUME IInv, LoseExtension
    PROVE  IInv'
<1>1. Invalidate
  BY DEF LoseExtension
<1>2. TypeOK' /\ Cardinality(lane.active)' <= Concurrency
      /\ (hello # "none" => peer < MaxPeer)' /\ gen' <= peer'
  BY <1>1, InvalidateIsTyped DEF LoseExtension, IInv, TypeOK, Follows, Sound
<1> QED
  BY <1>1, <1>2, InvalidateIsTyped, DiskUntouched DEF LoseExtension, IInv, WasSent

LEMMA HelloStep ==
    ASSUME IInv, NEW kind \in {"transport", "generation"}, Hello(kind)
    PROVE  IInv'
<1>1. Invalidate
  BY DEF Hello
<1>2. TypeOK' /\ Cardinality(lane.active)' <= Concurrency
      /\ (hello # "none" => peer < MaxPeer)' /\ gen' <= peer'
  BY <1>1, InvalidateIsTyped DEF Hello, IInv, TypeOK, Follows, Sound
<1> QED
  BY <1>1, <1>2, InvalidateIsTyped, DiskUntouched DEF Hello, IInv, WasSent

LEMMA RegisteredStep ==
    ASSUME IInv, Registered
    PROVE  IInv'
<1>1. Follows(led, led', OurJobs)
  BY FollowsItself DEF Registered, IInv
<1>2. /\ peer' \in 0 .. MaxPeer /\ gen' \in 0 .. MaxPeer /\ gen' <= peer'
      /\ lease' \in [Tabs -> LeaseRecords]
  BY DispatchAssumption DEF Registered, IInv, TypeOK, LeaseRecords
<1>3. TypeOK' /\ Cardinality(lane.active)' <= Concurrency
      /\ (hello # "none" => peer < MaxPeer)' /\ gen' <= peer'
  BY <1>2 DEF Registered, IInv, TypeOK
<1> QED
  BY <1>1, <1>3, DiskUntouched DEF Registered, IInv, WasSent

\* A restart reads a disk that is behind the memory, or what the running job
\* had time to write.
LEMMA RestartStep ==
    ASSUME IInv, Restart
    PROVE  IInv'
<1>1. PICK kept \in {disk} \union (IF led.jobs # <<>> /\ led.ok THEN {Flushed} ELSE {}) :
        led' = Opened(kept) /\ disk' = Opened(kept).mem
  BY DEF Restart
<1>2. /\ kept \in [Keys -> Entry]
      /\ \A k \in Keys : Counted(kept[k]) /\ (MaySend(disk[k]) => MaySend(kept[k]))
  <2>1. CASE kept = disk
    BY <2>1 DEF IInv, TypeOK, DiskBehind
  <2>2. CASE led.jobs # <<>> /\ kept = Flushed
    <3> DEFINE j == Head(led.jobs)
    <3>1. j.key \in Keys
      BY <2>2, HeadTailProperties DEF IInv, Sound, OurJobs, Job
    <3>2. kept = [disk EXCEPT ![j.key] = led.mem[j.key]]
      BY <2>2 DEF Flushed
    <3> QED
      BY <3>1, <3>2 DEF IInv, TypeOK, DiskBehind, Sound, Ledger
  <2> QED
    BY <2>1, <2>2
<1>3. /\ Sound(Opened(kept), OurJobs)
      /\ \A k \in Keys : MaySend(kept[k]) => MaySend(Opened(kept).mem[k])
  BY <1>2, OpenedIsSound
<1>4. Sound(led, OurJobs)' /\ DiskBehind' /\ disk' \in [Keys -> Entry]
  BY <1>1, <1>3 DEF Sound, ShowsReservation, DiskBehind, Ledger
<1>5. DurableBeforeSend'
  BY <1>1, <1>2, <1>3, DispatchAssumption
  DEF Restart, IInv, DurableBeforeSend, WasSent, MaySend
<1>6. lane' \in Lane /\ Cardinality(lane.active)' <= Concurrency
  BY FS_EmptySet, DispatchAssumption DEF Restart, Lane
<1>7. TypeOK' /\ Cardinality(lane.active)' <= Concurrency
      /\ (hello # "none" => peer < MaxPeer)' /\ gen' <= peer'
  <2>1. restarts' \in 0 .. MaxRestart
    BY DispatchAssumption DEF Restart, IInv, TypeOK
  <2>2. /\ alive' \in [Clients -> BOOLEAN]
        /\ lease' \in [Tabs -> LeaseRecords]
        /\ tabQueue' \in [Tabs -> Seq(Requests)]
    BY DEF Restart, LeaseRecords
  <2>3. pc' \in [Requests -> PcStates] /\ op' \in [Requests -> OpStates]
    BY DEF Restart, IInv, TypeOK, PcStates, OpStates
  <2> QED
    BY <1>4, <1>6, <2>1, <2>2, <2>3 DEF Restart, IInv, TypeOK, Sound
<1> QED
  BY <1>4, <1>5, <1>7 DEF IInv

-----------------------------------------------------------------------------
(* Theorems                                                                *)

LEMMA InitIsSound == Init => IInv
<1> SUFFICES ASSUME Init PROVE IInv
  OBVIOUS
<1>1. MaxLease \in Nat /\ Fingerprints = 0 .. MaxLease /\ Concurrency \in Nat
      /\ MaxPeer \in Nat /\ MaxRestart \in Nat
  BY DispatchAssumption
<1>2. Absent(0) \in Entry /\ Counted(Absent(0))
  BY <1>1 DEF Absent, Entry, EntryStates, EffectStates, Counted
<1>3. disk \in [Keys -> Entry] /\ \A k \in Keys : Counted(disk[k]) /\ ~MaySend(disk[k])
  BY <1>2 DEF Init, MaySend, Absent
<1>4. Sound(led, OurJobs)
  BY <1>3, OpenedIsSound DEF Init
<1>5. lane \in Lane /\ Cardinality(lane.active) <= Concurrency
  BY <1>1, FS_EmptySet DEF Init, Lane
<1>6. TypeOK
  <2>0. /\ connected \in BOOLEAN
        /\ alive \in [Clients -> BOOLEAN]
        /\ lease \in [Tabs -> LeaseRecords]
    BY DEF Init, LeaseRecords
  <2>1. /\ peer \in 0 .. MaxPeer
        /\ gen \in 0 .. MaxPeer
        /\ hello \in {"none", "transport", "generation"}
        /\ leases \in 0 .. MaxLease
        /\ restarts \in 0 .. MaxRestart
    BY <1>1 DEF Init
  <2>2. /\ reqLease \in [Requests -> 0 .. MaxLease]
        /\ reqPeer \in [Requests -> 0 .. MaxPeer]
        /\ reqGen \in [Requests -> 0 .. MaxPeer]
        /\ ticket \in [Requests -> Nat]
    BY <1>1 DEF Init
  <2>3. /\ pc \in [Requests -> PcStates] /\ answer \in [Requests -> Answers]
        /\ aborted \in [Requests -> BOOLEAN] /\ admitted \in [Requests -> BOOLEAN]
    BY DEF Init, PcStates, Answers
  <2>4. /\ op \in [Requests -> OpStates] /\ cmd \in [Requests -> CmdStates]
        /\ effect \in [Requests -> BOOLEAN] /\ tabQueue \in [Tabs -> Seq(Requests)]
    BY DEF Init, OpStates, CmdStates
  <2> QED
    BY <1>3, <1>4, <1>5, <2>0, <2>1, <2>2, <2>3, <2>4 DEF TypeOK, Sound
<1>7. DiskBehind /\ DurableBeforeSend
  BY <1>3 DEF DiskBehind, DurableBeforeSend, WasSent, Init
<1> QED
  BY <1>1, <1>4, <1>5, <1>6, <1>7 DEF IInv, Init

LEMMA StutterStep == IInv /\ UNCHANGED vars => IInv'
<1> SUFFICES ASSUME IInv, UNCHANGED vars PROVE IInv'
  OBVIOUS
<1> QED
  BY DEF vars, IInv, TypeOK, Sound, ShowsReservation, DiskBehind, DurableBeforeSend, WasSent

LEMMA NextIsSound == IInv /\ [Next]_vars => IInv'
<1> SUFFICES ASSUME IInv, Next PROVE IInv'
  BY StutterStep
<1>1. CASE \E c \in Clients : DisconnectClient(c) \/ \E t \in Tabs : AcquireLease(c, t)
  BY <1>1, DisconnectClientStep, AcquireLeaseStep
<1>2. CASE \E t \in Tabs : LoseLease(t)
  BY <1>2, LoseLeaseStep
<1>3. CASE \E r \in Requests : Submitted(r) \/ Cancel(r) \/ Schedule(r) \/ Begin(r)
  BY <1>3, SubmittedStep, CancelStep, ScheduleStep, BeginStep
<1>4. CASE \E r \in Requests : LedgerStep(r)
  BY <1>4, PrepareDoneStep, ReserveDoneStep, AbandonDoneStep, ExpireDoneStep, SettleDoneStep
  DEF LedgerStep
<1>5. CASE \E r \in Requests : Timeout(r) \/ ForgetTombstone(r) \/ Execute(r) \/ Deliver(r)
  BY <1>5, TimeoutStep, ForgetTombstoneStep, ExecuteStep, DeliverStep
<1>6. CASE LoseExtension \/ (\E kind \in {"transport", "generation"} : Hello(kind)) \/ Registered
  BY <1>6, LoseExtensionStep, HelloStep, RegisteredStep
<1>7. CASE Restart
  BY <1>7, RestartStep
<1> QED
  BY <1>1, <1>2, <1>3, <1>4, <1>5, <1>6, <1>7 DEF Next

\* The strengthening holds in every reachable state.
THEOREM Invariance == Spec => []IInv
BY InitIsSound, NextIsSound, PTL DEF Spec

\* Every variable of the broker keeps its type, whatever interrupts what.
THEOREM TypeCorrect == Spec => []TypeOK
<1>1. IInv => TypeOK
  BY DEF IInv
<1> QED
  BY <1>1, Invariance, PTL

\* Write-ahead: when a command is on the transport, the disk already says its
\* key may have been dispatched, so no restart hands the key out again
\* (#sendOperation awaits ledger.transition before it sends).
THEOREM WriteAhead == Spec => []DurableBeforeSend
<1>1. IInv => DurableBeforeSend
  BY DEF IInv
<1> QED
  BY <1>1, Invariance, PTL

\* Every interrupted entry a restart can meet has its dispatch counted, so
\* classifyInterruptedEffect quarantines it.
THEOREM CountedDispatch == Spec => []InterruptedWasCounted
<1>1. IInv => InterruptedWasCounted
  BY DEF IInv, DiskBehind, Counted, InterruptedWasCounted
<1> QED
  BY <1>1, Invariance, PTL

-----------------------------------------------------------------------------
(* The queues: the promise chain of a tab and the profile's lane of slots. *)
(* QueueInv says where a request stands in both for every point its        *)
(* handler can be at.  That slots do not leak and that a tab's work runs   *)
(* in the order it was queued follow from it.                              *)

Lists(q, r) == \E i \in DOMAIN q : q[i] = r

Queued(r) == Lists(tabQueue[TabOf[r]], r)

\* Requests that joined a queue at some time.
Taken == {s \in Requests : ticket[s] # 0}

\* Waiting work is listed once and holds no slot.
LaneOK(l) ==
    /\ \A i, j \in DOMAIN l.waiting : l.waiting[i] = l.waiting[j] => i = j
    /\ \A r \in l.active : ~Lists(l.waiting, r)

\* A queue holds work of its own tab, in the order of the tickets.
QueuesOK(q, tk) ==
    \A t \in Tabs : \A i \in DOMAIN q[t] :
        /\ TabOf[q[t][i]] = t
        /\ 0 < tk[q[t][i]]
        /\ \A j \in DOMAIN q[t] : i < j => tk[q[t][i]] < tk[q[t][j]]

\* Where a request stands in the queues, by where its handler stands.
StandsRight(r) ==
    /\ pc[r] \in {"idle", "preparing"} => ticket[r] = 0 /\ ~admitted[r]
    /\ pc[r] = "queued" => Queued(r) /\ ~aborted[r]
    /\ pc[r] \in {"reserving", "sent"} => r \in lane.active /\ admitted[r]
    /\ r \in lane.active /\ admitted[r] => pc[r] \in {"reserving", "abandoning", "sent"}
    /\ Queued(r) /\ admitted[r] => r \in lane.active
    /\ Queued(r) /\ ~admitted[r] /\ ~aborted[r] => pc[r] = "queued"
    /\ op[r] = "pending" => pc[r] = "sent"

QueueInv ==
    /\ LaneOK(lane)
    /\ QueuesOK(tabQueue, ticket)
    /\ \A r \in Requests : ticket[r] <= Cardinality(Taken)
    /\ \A r \in Requests : InLane(r) => Turn(r)
    /\ \A r \in Requests : StandsRight(r)

-----------------------------------------------------------------------------
(* Sequences                                                               *)

\* Dropping the first element.
LEMMA TailLists ==
    ASSUME NEW T, NEW q \in Seq(T), q # <<>>
    PROVE  /\ Len(Tail(q)) = Len(q) - 1
           /\ \A i \in 1 .. Len(q) - 1 : Tail(q)[i] = q[i + 1]
           /\ Head(q) = q[1]
           /\ Len(q) > 0
BY HeadTailProperties, EmptySeq

\* #drainTargetLane moves the first waiting work into the free slots and
\* forgets nobody.
LEMMA DrainedKeeps ==
    ASSUME NEW l \in Lane, LaneOK(l), Cardinality(l.active) <= Concurrency
    PROVE  /\ LaneOK(Drained(l))
           /\ l.active \subseteq Drained(l).active
           /\ \A r \in Requests :
                 r \in Drained(l).active \/ Lists(Drained(l).waiting, r)
                   <=> r \in l.active \/ Lists(l.waiting, r)
<1> DEFINE free == Concurrency - Cardinality(l.active)
           w == l.waiting
           n == IF free > Len(w) THEN Len(w) ELSE free
           d == Drained(l)
<1>1. IsFiniteSet(l.active) /\ Cardinality(l.active) \in Nat /\ Concurrency \in Nat
  BY FS_Subset, FS_CardinalityType, DispatchAssumption DEF Lane
<1>2. w \in Seq(Requests) /\ Len(w) \in Nat /\ DOMAIN w = 1 .. Len(w)
  BY DEF Lane
<1>3. n \in Nat /\ n <= Len(w)
  BY <1>1, <1>2
<1>4. /\ d.waiting = SubSeq(w, n + 1, Len(w))
      /\ d.active = l.active \union {w[i] : i \in 1 .. n}
  BY DEF Drained
<1> HIDE DEF n, free
<1>5. /\ Len(d.waiting) = Len(w) - n
      /\ DOMAIN d.waiting = 1 .. Len(w) - n
      /\ \A i \in 1 .. Len(w) - n : d.waiting[i] = w[n + i]
  BY <1>2, <1>3, <1>4, SubSeqProperties
<1> HIDE DEF d
<1>6. \A r : Lists(w, r) <=> (\E i \in 1 .. n : w[i] = r) \/ Lists(d.waiting, r)
  <2>1. ASSUME NEW r, Lists(w, r) PROVE (\E i \in 1 .. n : w[i] = r) \/ Lists(d.waiting, r)
    <3>1. PICK i \in 1 .. Len(w) : w[i] = r
      BY <1>2, <2>1 DEF Lists
    <3>2. CASE i <= n
      BY <3>1, <3>2, <1>3
    <3>3. CASE i > n
      <4>1. i - n \in 1 .. Len(w) - n /\ n + (i - n) = i
        BY <1>2, <1>3, <3>3
      <4> QED
        BY <4>1, <3>1, <1>5 DEF Lists
    <3> QED
      BY <3>2, <3>3, <1>2, <1>3
  <2>2. ASSUME NEW r, (\E i \in 1 .. n : w[i] = r) \/ Lists(d.waiting, r) PROVE Lists(w, r)
    <3>1. CASE \E i \in 1 .. n : w[i] = r
      <4>1. \A i \in 1 .. n : i \in DOMAIN w
        BY <1>2, <1>3
      <4> QED
        BY <3>1, <4>1 DEF Lists
    <3>2. CASE Lists(d.waiting, r)
      <4>1. \A i \in 1 .. Len(w) - n : n + i \in DOMAIN w
        BY <1>2, <1>3
      <4> QED
        BY <3>2, <4>1, <1>5 DEF Lists
    <3> QED
      BY <2>2, <3>1, <3>2
  <2> QED
    BY <2>1, <2>2
<1>7. LaneOK(d)
  <2>1. \A i, j \in DOMAIN d.waiting : d.waiting[i] = d.waiting[j] => i = j
    <3>1. \A i \in DOMAIN d.waiting :
            i \in Nat /\ n + i \in DOMAIN w /\ d.waiting[i] = w[n + i]
      BY <1>2, <1>3, <1>5, SMTT(30)
    <3>2. \A i, j \in DOMAIN d.waiting : d.waiting[i] = d.waiting[j] => n + i = n + j
      BY <3>1 DEF LaneOK
    <3> QED
      BY <3>1, <3>2, <1>3
  <2>2. ASSUME NEW r \in d.active, NEW i \in DOMAIN d.waiting PROVE d.waiting[i] # r
    <3>1. d.waiting[i] = w[n + i] /\ n + i \in DOMAIN w /\ i \in Nat \ {0}
      BY <1>2, <1>3, <1>5
    <3>2. CASE r \in l.active
      BY <3>1, <3>2 DEF LaneOK, Lists
    <3>3. CASE \E m \in 1 .. n : w[m] = r
      <4>1. PICK m \in 1 .. n : w[m] = r
        BY <3>3
      <4>2. m \in DOMAIN w /\ m # n + i
        BY <1>2, <1>3, <3>1
      <4> QED
        BY <3>1, <4>1, <4>2 DEF LaneOK
    <3> QED
      BY <1>4, <3>2, <3>3
  <2> QED
    BY <2>1, <2>2 DEF LaneOK, Lists
<1> QED
  BY <1>4, <1>6, <1>7 DEF d

-----------------------------------------------------------------------------
(* How the queues move                                                     *)

LEMMA TurnIsQueued ==
    ASSUME IInv, NEW r \in Requests, Turn(r)
    PROVE  Queued(r)
<1>1. tabQueue[TabOf[r]] \in Seq(Requests) /\ tabQueue[TabOf[r]] # <<>>
  BY DispatchAssumption DEF IInv, TypeOK, Turn
<1>2. 1 \in DOMAIN tabQueue[TabOf[r]] /\ tabQueue[TabOf[r]][1] = r
  BY <1>1, TailLists DEF Turn
<1> QED
  BY <1>2 DEF Queued, Lists

\* Work that leaves the head of its queue leaves the queue, and only that.
LEMMA HeadsLeave ==
    ASSUME IInv, QueuesOK(tabQueue, ticket), NEW S \in SUBSET Requests,
           \A r \in S : Turn(r),
           tabQueue' = [t \in Tabs |-> IF tabQueue[t] # <<>> /\ Head(tabQueue[t]) \in S
                                      THEN Tail(tabQueue[t]) ELSE tabQueue[t]]
    PROVE  /\ QueuesOK(tabQueue', ticket)
           /\ \A r \in Requests : Queued(r)' <=> Queued(r) /\ r \notin S
           /\ \A r \in Requests : Turn(r) /\ r \notin S => Turn(r)'
<1>1. /\ tabQueue \in [Tabs -> Seq(Requests)]
      /\ ticket \in [Requests -> Nat]
      /\ TabOf \in [Requests -> Tabs]
  BY DispatchAssumption DEF IInv, TypeOK
<1>2. \A t \in Tabs : /\ tabQueue[t] \in Seq(Requests)
                      /\ Len(tabQueue[t]) \in Nat
                      /\ DOMAIN tabQueue[t] = 1 .. Len(tabQueue[t])
                      /\ \A i \in DOMAIN tabQueue[t] : tabQueue[t][i] \in Requests
  BY <1>1
<1>3. ASSUME NEW t \in Tabs, tabQueue[t] # <<>>, Head(tabQueue[t]) \in S
      PROVE  /\ tabQueue'[t] = Tail(tabQueue[t])
             /\ Head(tabQueue[t]) = tabQueue[t][1]
             /\ 1 \in DOMAIN tabQueue[t]
             /\ DOMAIN tabQueue'[t] = 1 .. Len(tabQueue[t]) - 1
             /\ \A i \in 1 .. Len(tabQueue[t]) - 1 :
                   i + 1 \in DOMAIN tabQueue[t] /\ tabQueue'[t][i] = tabQueue[t][i + 1]
  <2>1. tabQueue'[t] = Tail(tabQueue[t])
    BY <1>3
  <2>2. /\ Len(Tail(tabQueue[t])) = Len(tabQueue[t]) - 1
        /\ \A i \in 1 .. Len(tabQueue[t]) - 1 : Tail(tabQueue[t])[i] = tabQueue[t][i + 1]
        /\ Head(tabQueue[t]) = tabQueue[t][1]
        /\ Len(tabQueue[t]) > 0
    BY <1>2, <1>3, TailLists
  <2>3. Tail(tabQueue[t]) \in Seq(Requests)
    BY <1>2, <1>3, HeadTailProperties
  <2>4. DOMAIN Tail(tabQueue[t]) = 1 .. Len(Tail(tabQueue[t]))
    BY <2>3
  <2>5. /\ 1 \in DOMAIN tabQueue[t]
        /\ \A i \in 1 .. Len(tabQueue[t]) - 1 : i + 1 \in DOMAIN tabQueue[t]
    BY <1>2, <2>2
  <2> QED
    BY <2>1, <2>2, <2>4, <2>5
<1>4. ASSUME NEW t \in Tabs, ~(tabQueue[t] # <<>> /\ Head(tabQueue[t]) \in S)
      PROVE  tabQueue'[t] = tabQueue[t]
  BY <1>4
<1>5. QueuesOK(tabQueue', ticket)
  <2> SUFFICES ASSUME NEW t \in Tabs, NEW i \in DOMAIN tabQueue'[t]
               PROVE  /\ TabOf[tabQueue'[t][i]] = t
                      /\ 0 < ticket[tabQueue'[t][i]]
                      /\ \A j \in DOMAIN tabQueue'[t] :
                            i < j => ticket[tabQueue'[t][i]] < ticket[tabQueue'[t][j]]
    BY DEF QueuesOK
  <2>1. CASE tabQueue[t] # <<>> /\ Head(tabQueue[t]) \in S
    <3>1. \A j \in DOMAIN tabQueue'[t] :
            /\ j \in Nat
            /\ j + 1 \in DOMAIN tabQueue[t]
            /\ tabQueue'[t][j] = tabQueue[t][j + 1]
      BY <1>2, <1>3, <2>1
    <3>2. \A j \in DOMAIN tabQueue'[t] : i < j => i + 1 < j + 1
      BY <3>1
    <3> QED
      BY <3>1, <3>2 DEF QueuesOK
  <2>2. CASE ~(tabQueue[t] # <<>> /\ Head(tabQueue[t]) \in S)
    BY <1>4, <2>2 DEF QueuesOK
  <2> QED
    BY <2>1, <2>2
<1>6. ASSUME NEW r \in Requests
      PROVE  /\ Queued(r)' <=> Queued(r) /\ r \notin S
             /\ Turn(r) /\ r \notin S => Turn(r)'
  <2> DEFINE t == TabOf[r]
             q == tabQueue[t]
  <2>0. t \in Tabs
    BY <1>1
  <2>1. CASE q # <<>> /\ Head(q) \in S
    <3>1. /\ Head(q) = q[1]
          /\ 1 \in DOMAIN q
          /\ DOMAIN tabQueue'[t] = 1 .. Len(q) - 1
          /\ \A i \in 1 .. Len(q) - 1 : i + 1 \in DOMAIN q /\ tabQueue'[t][i] = q[i + 1]
      BY <1>3, <2>0, <2>1
    <3>2. \A i \in 1 .. Len(q) - 1 : q[i + 1] # q[1]
      <4>1. \A i \in 1 .. Len(q) - 1 : 1 < i + 1
        OBVIOUS
      <4>2. \A i \in 1 .. Len(q) - 1 : ticket[q[1]] < ticket[q[i + 1]]
        BY <2>0, <3>1, <4>1 DEF QueuesOK
      <4>3. q[1] \in Requests
        BY <1>2, <2>0, <3>1
      <4> QED
        BY <1>1, <4>2, <4>3
    <3>3. Queued(r)' => Queued(r) /\ r # q[1]
      BY <3>1, <3>2 DEF Queued, Lists
    <3>4. Queued(r) /\ r # q[1] => Queued(r)'
      <4> SUFFICES ASSUME Queued(r), r # q[1] PROVE Queued(r)'
        OBVIOUS
      <4>1. PICK i \in DOMAIN q : q[i] = r
        BY DEF Queued, Lists
      <4>2. i - 1 \in 1 .. Len(q) - 1 /\ (i - 1) + 1 = i
        BY <1>2, <2>0, <4>1
      <4>3. tabQueue'[t][i - 1] = r
        BY <3>1, <4>1, <4>2
      <4> QED
        BY <3>1, <4>2, <4>3 DEF Queued, Lists
    <3>5. r \in S => r = q[1]
      BY <3>1 DEF Turn
    <3> QED
      BY <2>1, <3>1, <3>3, <3>4, <3>5 DEF Turn
  <2>2. CASE ~(q # <<>> /\ Head(q) \in S)
    <3>1. tabQueue'[t] = q
      BY <1>4, <2>0, <2>2
    <3>2. r \notin S
      BY <2>2 DEF Turn
    <3> QED
      BY <3>1, <3>2 DEF Queued, Lists, Turn
  <2> QED
    BY <2>1, <2>2
<1> QED
  BY <1>5, <1>6

\* The works of S, each holding a slot, settle.
LEMMA ReleaseKeeps ==
    ASSUME IInv, QueueInv, NEW S \in SUBSET lane.active, Release(S)
    PROVE  /\ LaneOK(lane')
           /\ QueuesOK(tabQueue', ticket)
           /\ \A r \in Requests : Queued(r)' <=> Queued(r) /\ r \notin S
           /\ \A r \in Requests : InLane(r)' <=> InLane(r) /\ r \notin S
           /\ \A r \in Requests : InLane(r)' => Turn(r)'
           /\ lane.active \ S \subseteq lane'.active
<1> DEFINE m == [lane EXCEPT !.active = @ \ S]
<1>1. /\ lane \in Lane /\ S \in SUBSET Requests
      /\ m \in Lane /\ m.active = lane.active \ S /\ m.waiting = lane.waiting
  BY DEF IInv, TypeOK, Lane
<1>2. \A r \in S : InLane(r)
  BY DEF InLane
<1>3. \A r \in S : Turn(r)
  BY <1>1, <1>2 DEF QueueInv
<1>4. /\ QueuesOK(tabQueue', ticket)
      /\ \A r \in Requests : Queued(r)' <=> Queued(r) /\ r \notin S
      /\ \A r \in Requests : Turn(r) /\ r \notin S => Turn(r)'
  BY <1>1, <1>3, HeadsLeave DEF Release, QueueInv
<1>5. Cardinality(m.active) <= Concurrency
  <2>1. IsFiniteSet(lane.active)
    BY <1>1, DispatchAssumption, FS_Subset DEF Lane
  <2>2. /\ Cardinality(lane.active) \in Nat
        /\ Cardinality(m.active) \in Nat
        /\ Cardinality(m.active) <= Cardinality(lane.active)
    BY <1>1, <2>1, FS_Subset, FS_CardinalityType
  <2> QED
    BY <2>2, DispatchAssumption DEF IInv
<1>6. LaneOK(m)
  BY <1>1 DEF QueueInv, LaneOK
<1>7. /\ LaneOK(lane')
      /\ lane.active \ S \subseteq lane'.active
      /\ \A r \in Requests : InLane(r)' <=> InLane(r) /\ r \notin S
  <2>1. CASE S \intersect lane.active = {}
    BY <2>1 DEF Release, QueueInv, InLane, LaneOK
  <2>2. CASE S \intersect lane.active # {}
    <3>1. lane' = Drained(m)
      BY <2>2 DEF Release
    <3>2. /\ LaneOK(lane')
          /\ m.active \subseteq lane'.active
          /\ \A r \in Requests : r \in lane'.active \/ Lists(lane'.waiting, r)
                                 <=> r \in m.active \/ Lists(m.waiting, r)
      BY <1>1, <1>5, <1>6, <3>1, DrainedKeeps
    <3>3. \A r \in S : ~Lists(lane.waiting, r)
      BY DEF QueueInv, LaneOK
    <3> HIDE DEF m
    <3> QED
      BY <1>1, <3>2, <3>3 DEF InLane, Lists
  <2> QED
    BY <2>1, <2>2
<1>8. \A r \in Requests : InLane(r)' => Turn(r)'
  BY <1>4, <1>7 DEF QueueInv
<1> QED
  BY <1>4, <1>7, <1>8

\* Every action but three frees the slots of a set of requests or leaves the
\* queues alone.  What is left to show is where each request stands.
Settles(S) == Release(S) \/ (S = {} /\ UNCHANGED queueVars)

LEMMA SettlingKeeps ==
    ASSUME IInv, QueueInv, NEW S \in SUBSET lane.active, Settles(S), UNCHANGED ticket,
           \A r \in Requests : StandsRight(r)'
    PROVE  QueueInv'
<1>1. CASE Release(S)
  <2>1. LaneOK(lane)' /\ QueuesOK(tabQueue, ticket)'
    BY <1>1, ReleaseKeeps
  <2>2. \A r \in Requests : InLane(r)' => Turn(r)'
    BY <1>1, ReleaseKeeps
  <2> QED
    BY <2>1, <2>2 DEF QueueInv, Taken
<1>2. CASE UNCHANGED queueVars
  BY <1>2 DEF QueueInv, Taken, LaneOK, QueuesOK, InLane, Turn, Lists
<1> QED
  BY <1>1, <1>2 DEF Settles

\* Where the queues leave a request: out if it settled, otherwise as it was,
\* except that a waiting one may get its slot.
LEMMA SettlingMoves ==
    ASSUME IInv, QueueInv, NEW S \in SUBSET lane.active, Settles(S), NEW r \in Requests
    PROVE  /\ Queued(r)' <=> Queued(r) /\ r \notin S
           /\ r \in lane.active /\ r \notin S => r \in lane'.active
           /\ r \in lane'.active => r \notin S
           /\ r \in lane'.active => r \in lane.active \/ (Queued(r) /\ ~admitted[r])
<1>1. CASE Release(S)
  <2>1. /\ Queued(r)' <=> Queued(r) /\ r \notin S
        /\ InLane(r)' <=> InLane(r) /\ r \notin S
        /\ lane.active \ S \subseteq lane'.active
    BY <1>1, ReleaseKeeps
  <2>2. InLane(r) => Queued(r)
    BY TurnIsQueued DEF QueueInv
  <2>3. Queued(r) /\ admitted[r] => r \in lane.active
    BY DEF QueueInv, StandsRight
  <2>4. r \in lane'.active => InLane(r)'
    BY DEF InLane
  <2>5. admitted[r] \in BOOLEAN
    BY DEF IInv, TypeOK
  <2> QED
    BY <2>1, <2>2, <2>3, <2>4, <2>5
<1>2. CASE S = {} /\ UNCHANGED queueVars
  BY <1>2 DEF Queued, Lists
<1> QED
  BY <1>1, <1>2 DEF Settles

-----------------------------------------------------------------------------
(* Each action keeps the queues in order.                                  *)

\* What an action that leaves the queues alone has to show.
LEMMA QueuesAlone ==
    ASSUME IInv, QueueInv, UNCHANGED <<tabQueue, lane, ticket>>,
           \A r \in Requests : StandsRight(r)'
    PROVE  QueueInv'
<1>1. {} \in SUBSET lane.active /\ Settles({})
  BY DEF Settles
<1> QED
  BY <1>1, SettlingKeeps

\* The clients, the relay, the extension and the timers of tombstones do not
\* touch the queues, nor where a request stands in them.
LEMMA OutsideKeepsQueues ==
    ASSUME IInv, QueueInv,
           \/ \E c \in Clients, t \in Tabs : AcquireLease(c, t)
           \/ \E t \in Tabs : LoseLease(t)
           \/ \E r \in Requests : Submitted(r) \/ ForgetTombstone(r) \/ Execute(r) \/ Deliver(r)
           \/ Registered
    PROVE  QueueInv'
<1>1. UNCHANGED <<tabQueue, lane, ticket, aborted, admitted>>
  BY DEF AcquireLease, LoseLease, Submitted, ForgetTombstone, Execute, Deliver, Registered
<1>2. \A r \in Requests : op'[r] = "pending" => op[r] = "pending"
  <2>1. op' = op \/ \E r \in Requests : op' = [op EXCEPT ![r] = "closed"]
                                     \/ op' = [op EXCEPT ![r] = "settling"]
    BY DEF AcquireLease, LoseLease, Submitted, ForgetTombstone, Execute, Deliver, Registered
  <2> QED
    BY <2>1 DEF IInv, TypeOK
<1>3. pc' = pc \/ \E r \in Requests : pc[r] = "idle" /\ pc' = [pc EXCEPT ![r] = "preparing"]
  BY DEF AcquireLease, LoseLease, Submitted, ForgetTombstone, Execute, Deliver, Registered
<1>4. \A r \in Requests : pc'[r] = pc[r] \/ (pc[r] = "idle" /\ pc'[r] = "preparing")
  BY <1>3 DEF IInv, TypeOK
<1>5. \A r \in Requests : Queued(r)' = Queued(r)
  BY <1>1 DEF Queued
<1>6. \A r \in Requests : StandsRight(r)'
  BY <1>1, <1>2, <1>4, <1>5 DEF QueueInv, StandsRight
<1> QED
  BY <1>1, <1>6, QueuesAlone

\* #recordNotDispatched answers or leaves the answer to the ledger.
LEMMA AbandonMoves ==
    ASSUME IInv, NEW r \in Requests, NEW l, NEW reserved, Abandon(r, l, reserved)
    PROVE  /\ pc'[r] \in {"abandoning", "answered"}
           /\ \A s \in Requests : s # r => pc'[s] = pc[s]
           /\ NeedsAbandon(l, r, reserved) <=> pc'[r] = "abandoning"
BY DEF Abandon, Says, IInv, TypeOK

LEMMA CancelKeepsQueues ==
    ASSUME IInv, QueueInv, NEW r \in Requests, Cancel(r)
    PROVE  QueueInv'
<1>1. UNCHANGED <<tabQueue, lane, ticket, admitted, op>>
  BY DEF Cancel
<1>2. /\ aborted'[r]
      /\ \A s \in Requests : s # r => aborted'[s] = aborted[s]
  BY DEF Cancel, IInv, TypeOK
<1>3. /\ pc[r] \in {"preparing", "queued", "reserving", "sent"}
      /\ pc'[r] = pc[r] \/ pc'[r] \in {"abandoning", "answered"}
      /\ pc[r] # "queued" => pc'[r] = pc[r]
      /\ pc[r] = "queued" => pc'[r] # "queued"
      /\ \A s \in Requests : s # r => pc'[s] = pc[s]
  BY AbandonMoves DEF Cancel
<1>4. \A s \in Requests : Queued(s)' = Queued(s)
  BY <1>1 DEF Queued
<1>5. \A s \in Requests : StandsRight(s)'
  BY <1>1, <1>2, <1>3, <1>4 DEF QueueInv, StandsRight
<1> QED
  BY <1>1, <1>5, QueuesAlone

\* A pending operation holds a slot.
LEMMA PendingIsActive ==
    ASSUME QueueInv, NEW r \in Requests, op[r] = "pending"
    PROVE  r \in lane.active /\ pc[r] = "sent" /\ admitted[r]
BY DEF QueueInv, StandsRight

LEMMA DisconnectKeepsQueues ==
    ASSUME IInv, QueueInv, NEW c \in Clients, DisconnectClient(c)
    PROVE  QueueInv'
<1> DEFINE mine    == {r \in Requests : ClientOf[r] = c}
           pending == {r \in mine : op[r] = "pending"}
           queued  == {r \in mine : pc[r] = "queued"}
           undone  == {r \in queued : NeedsAbandon(led, r, FALSE)}
<1>1. PICK js : Interrupt(pending, js, "tombstone")
  BY DEF DisconnectClient
<1>2. pending \in SUBSET lane.active
  BY PendingIsActive
<1>3. /\ Settles(pending)
      /\ \A r \in Requests : op'[r] = IF r \in pending THEN "tombstone" ELSE op[r]
  BY <1>1 DEF Interrupt, Settles
<1>4. UNCHANGED <<ticket, admitted>>
  BY DEF DisconnectClient
<1>5. \A r \in Requests :
        /\ r \in pending => pc'[r] = "answered"
        /\ r \in queued => pc'[r] \in {"abandoning", "answered"}
        /\ r \notin pending \union queued => pc'[r] = pc[r]
        /\ aborted[r] \/ r \in queued => aborted'[r]
        /\ pc[r] = "queued" /\ r \notin queued => aborted'[r] = aborted[r]
  <2> SUFFICES ASSUME NEW r \in Requests
               PROVE  /\ r \in pending => pc'[r] = "answered"
                      /\ r \in queued => pc'[r] \in {"abandoning", "answered"}
                      /\ r \notin pending \union queued => pc'[r] = pc[r]
                      /\ aborted[r] \/ r \in queued => aborted'[r]
                      /\ pc[r] = "queued" /\ r \notin queued => aborted'[r] = aborted[r]
    OBVIOUS
  <2>1. pc'[r] = IF r \in undone THEN "abandoning"
                 ELSE IF r \in pending \union queued THEN "answered"
                 ELSE pc[r]
    BY DEF DisconnectClient
  <2>2. aborted'[r] = (aborted[r] \/ (r \in mine /\ pc[r] \notin {"idle", "answered", "lost"}))
    BY DEF DisconnectClient
  <2>3. /\ r \in pending => pc[r] = "sent"
        /\ r \in undone => r \in queued
        /\ r \in queued <=> r \in mine /\ pc[r] = "queued"
        /\ aborted[r] \in BOOLEAN
    BY PendingIsActive DEF IInv, TypeOK
  <2> HIDE DEF pending, queued, mine, undone
  <2> QED
    BY <2>1, <2>2, <2>3
<1>6. \A r \in Requests : r \in pending => op[r] = "pending"
  OBVIOUS
<1>7. \A r \in Requests : r \in queued => pc[r] = "queued"
  OBVIOUS
<1>8. \A r \in Requests : op[r] = "pending" => pc[r] = "sent"
  BY PendingIsActive
<1> HIDE DEF pending, queued, mine, undone
<1>9. ASSUME NEW r \in Requests PROVE StandsRight(r)'
  <2>1. /\ Queued(r)' <=> Queued(r) /\ r \notin pending
        /\ r \in lane.active /\ r \notin pending => r \in lane'.active
        /\ r \in lane'.active => r \notin pending
        /\ r \in lane'.active => r \in lane.active \/ (Queued(r) /\ ~admitted[r])
    BY <1>2, <1>3, SettlingMoves
  <2> QED
    BY <2>1, <1>3, <1>4, <1>5, <1>6, <1>7, <1>8 DEF QueueInv, StandsRight
<1> QED
  BY <1>2, <1>3, <1>4, <1>9, SettlingKeeps

\* Who is in a queue has a ticket, so a request is queued once.
LEMMA QueuedHasTicket ==
    ASSUME IInv, QueueInv, NEW r \in Requests, Queued(r) \/ InLane(r)
    PROVE  0 < ticket[r] /\ pc[r] \notin {"idle", "preparing"}
<1>1. Queued(r)
  BY TurnIsQueued DEF QueueInv
<1>2. PICK i \in DOMAIN tabQueue[TabOf[r]] : tabQueue[TabOf[r]][i] = r
  BY <1>1 DEF Queued, Lists
<1>3. 0 < ticket[r]
  BY <1>2, DispatchAssumption DEF QueueInv, QueuesOK
<1> QED
  BY <1>3 DEF QueueInv, StandsRight

\* A request joins the end of its tab's queue with the next ticket (#enqueue).
LEMMA JoiningKeeps ==
    ASSUME IInv, QueueInv, NEW r \in Requests, pc[r] = "preparing",
           tabQueue' = [tabQueue EXCEPT ![TabOf[r]] = Append(@, r)],
           ticket' = [ticket EXCEPT ![r] = Cardinality(Taken) + 1],
           UNCHANGED lane
    PROVE  /\ QueuesOK(tabQueue', ticket')
           /\ \A s \in Requests : ticket'[s] <= Cardinality(Taken)'
           /\ \A s \in Requests : Queued(s)' <=> Queued(s) \/ s = r
           /\ \A s \in Requests : InLane(s)' => Turn(s)'
<1> DEFINE t == TabOf[r]
           q == tabQueue[t]
           n == Cardinality(Taken)
<1>1. /\ t \in Tabs /\ q \in Seq(Requests) /\ Len(q) \in Nat
      /\ DOMAIN q = 1 .. Len(q)
      /\ tabQueue \in [Tabs -> Seq(Requests)]
      /\ ticket \in [Requests -> Nat]
  <2>1. /\ t \in Tabs
        /\ tabQueue \in [Tabs -> Seq(Requests)]
        /\ ticket \in [Requests -> Nat]
    BY DispatchAssumption DEF IInv, TypeOK
  <2>2. q \in Seq(Requests)
    BY <2>1
  <2> QED
    BY <2>1, <2>2
<1>2. /\ tabQueue'[t] = Append(q, r)
      /\ \A u \in Tabs : u # t => tabQueue'[u] = tabQueue[u]
      /\ ticket'[r] = n + 1
      /\ \A s \in Requests : s # r => ticket'[s] = ticket[s]
  BY <1>1
<1>3. /\ DOMAIN Append(q, r) = 1 .. Len(q) + 1
      /\ \A i \in 1 .. Len(q) : Append(q, r)[i] = q[i]
      /\ Append(q, r)[Len(q) + 1] = r
  <2>1. /\ Append(q, r) \in Seq(Requests)
        /\ Len(Append(q, r)) = Len(q) + 1
        /\ \A i \in 1 .. Len(q) : Append(q, r)[i] = q[i]
        /\ Append(q, r)[Len(q) + 1] = r
    BY <1>1, AppendProperties
  <2>2. DOMAIN Append(q, r) = 1 .. Len(Append(q, r))
    BY <2>1
  <2> QED
    BY <2>1, <2>2
<1>4. IsFiniteSet(Taken) /\ n \in Nat
  BY DispatchAssumption, FS_Subset, FS_CardinalityType DEF Taken
<1>5. ticket[r] = 0 /\ ~Queued(r) /\ ~InLane(r)
  BY QueuedHasTicket DEF QueueInv, StandsRight
<1>6. Cardinality(Taken)' = n + 1
  <2> HIDE DEF n
  <2>0. n + 1 # 0
    BY <1>4
  <2>1. Taken' = Taken \union {r} /\ r \notin Taken
    BY <2>0, <1>2, <1>5 DEF Taken
  <2>2. Cardinality(Taken \union {r}) = n + 1
    BY <1>4, <2>1, FS_AddElement DEF n
  <2> QED
    BY <2>1, <2>2
<1>7. \A s \in Requests : ticket'[s] <= Cardinality(Taken)'
  BY <1>1, <1>2, <1>4, <1>6 DEF QueueInv
<1>8. \A u \in Tabs : \A i \in DOMAIN tabQueue[u] :
        /\ tabQueue[u][i] \in Requests
        /\ tabQueue[u][i] # r
        /\ ticket[tabQueue[u][i]] <= n
        /\ ticket'[tabQueue[u][i]] = ticket[tabQueue[u][i]]
  <2> SUFFICES ASSUME NEW u \in Tabs, NEW i \in DOMAIN tabQueue[u]
               PROVE  /\ tabQueue[u][i] \in Requests
                      /\ tabQueue[u][i] # r
                      /\ ticket[tabQueue[u][i]] <= n
                      /\ ticket'[tabQueue[u][i]] = ticket[tabQueue[u][i]]
    OBVIOUS
  <2>1. tabQueue[u][i] \in Requests
    BY <1>1
  <2>2. 0 < ticket[tabQueue[u][i]]
    BY DEF QueueInv, QueuesOK
  <2> QED
    BY <1>2, <1>5, <2>1, <2>2 DEF QueueInv
<1> HIDE DEF n
<1>9. QueuesOK(tabQueue', ticket')
  <2> SUFFICES ASSUME NEW u \in Tabs, NEW i \in DOMAIN tabQueue'[u]
               PROVE  /\ TabOf[tabQueue'[u][i]] = u
                      /\ 0 < ticket'[tabQueue'[u][i]]
                      /\ \A j \in DOMAIN tabQueue'[u] :
                            i < j => ticket'[tabQueue'[u][i]] < ticket'[tabQueue'[u][j]]
    BY DEF QueuesOK
  <2>1. CASE u # t
    BY <1>2, <1>8, <2>1 DEF QueueInv, QueuesOK
  <2>2. CASE u = t /\ i = Len(q) + 1
    <3>1. tabQueue'[u][i] = r
      BY <1>2, <1>3, <2>2
    <3>2. \A j \in DOMAIN tabQueue'[u] : ~(i < j)
      BY <1>1, <1>2, <1>3, <2>2
    <3> QED
      BY <1>2, <1>4, <2>2, <3>1, <3>2
  <2>3. CASE u = t /\ i # Len(q) + 1
    <3>1. i \in DOMAIN q /\ tabQueue'[u][i] = q[i]
      BY <1>1, <1>2, <1>3, <2>3
    <3>2. ASSUME NEW j \in DOMAIN tabQueue'[u], i < j
          PROVE  ticket'[q[i]] < ticket'[tabQueue'[u][j]]
      <4>1. CASE j = Len(q) + 1
        <5>1. tabQueue'[u][j] = r
          BY <1>2, <1>3, <2>3, <4>1
        <5>2. ticket'[q[i]] \in Nat /\ ticket'[q[i]] <= n
          BY <1>1, <1>8, <3>1
        <5> QED
          BY <1>2, <1>4, <5>1, <5>2, SMTT(30)
      <4>2. CASE j # Len(q) + 1
        <5>1. j \in DOMAIN q /\ tabQueue'[u][j] = q[j]
          BY <1>1, <1>2, <1>3, <2>3, <4>2
        <5>2. ticket[q[i]] < ticket[q[j]]
          BY <1>1, <3>1, <3>2, <5>1 DEF QueueInv, QueuesOK
        <5> QED
          BY <1>1, <1>8, <3>1, <5>1, <5>2
      <4> QED
        BY <4>1, <4>2
    <3>3. TabOf[q[i]] = t /\ 0 < ticket[q[i]]
      BY <1>1, <3>1 DEF QueueInv, QueuesOK
    <3>4. ticket'[q[i]] = ticket[q[i]]
      BY <1>1, <1>8, <3>1
    <3> QED
      BY <2>3, <3>1, <3>2, <3>3, <3>4
  <2> QED
    BY <2>1, <2>2, <2>3
<1>10. ASSUME NEW s \in Requests PROVE Queued(s)' <=> Queued(s) \/ s = r
  <2>1. TabOf[s] \in Tabs
    BY DispatchAssumption
  <2>2. CASE TabOf[s] # t
    BY <1>2, <2>1, <2>2 DEF Queued, Lists
  <2>3. CASE TabOf[s] = t
    <3>1. (\E i \in 1 .. Len(q) + 1 : Append(q, r)[i] = s)
            <=> (\E i \in 1 .. Len(q) : q[i] = s) \/ s = r
      BY <1>1, <1>3
    <3> QED
      BY <1>1, <1>2, <1>3, <2>3, <3>1 DEF Queued, Lists
  <2> QED
    BY <2>2, <2>3
<1>11. ASSUME NEW s \in Requests, InLane(s)' PROVE Turn(s)'
  <2>1. Turn(s)
    BY <1>11 DEF InLane, QueueInv
  <2>2. TabOf[s] \in Tabs
    BY DispatchAssumption
  <2>3. CASE TabOf[s] # t
    BY <1>2, <2>1, <2>2, <2>3 DEF Turn
  <2>4. CASE TabOf[s] = t
    <3>1. q # <<>> /\ Head(q) = s
      BY <2>1, <2>4 DEF Turn
    <3>2. Append(q, r) # <<>> /\ Head(Append(q, r)) = Head(q)
      <4>1. Append(q, r) \in Seq(Requests) /\ Len(q) > 0 /\ Len(Append(q, r)) > 0
        BY <1>1, <3>1, AppendProperties, TailLists
      <4>2. Head(q) = q[1] /\ Append(q, r) # <<>> /\ Head(Append(q, r)) = Append(q, r)[1]
        BY <1>1, <3>1, <4>1, TailLists
      <4> QED
        BY <1>1, <1>3, <4>1, <4>2
    <3> QED
      BY <1>2, <2>4, <3>1, <3>2 DEF Turn
  <2> QED
    BY <2>3, <2>4
<1> QED
  BY <1>7, <1>9, <1>10, <1>11

LEMMA PrepareDoneKeepsQueues ==
    ASSUME IInv, QueueInv, NEW r \in Requests, NEW out, PrepareDone(r, out)
    PROVE  QueueInv'
<1>1. pc[r] = "preparing" /\ UNCHANGED <<aborted, admitted, op, lane>>
  BY DEF PrepareDone
<1>2. ~Queued(r) /\ ~InLane(r) /\ ~admitted[r] /\ ticket[r] = 0
  BY <1>1, QueuedHasTicket DEF QueueInv, StandsRight
<1>3. CASE out = "kept" /\ led.mem[KeyOf[r]].state = "prepared"
  <2>1. /\ tabQueue' = [tabQueue EXCEPT ![TabOf[r]] = Append(@, r)]
        /\ ticket' = [ticket EXCEPT ![r] = Cardinality(Taken) + 1]
    BY <1>3 DEF PrepareDone, Taken
  <2>2. /\ aborted[r] => pc'[r] \in {"abandoning", "answered"}
        /\ ~aborted[r] => pc'[r] = "queued"
        /\ \A s \in Requests : s # r => pc'[s] = pc[s]
    <3>1. CASE aborted[r]
      BY <1>3, <3>1, AbandonMoves DEF PrepareDone
    <3>2. CASE ~aborted[r]
      BY <1>3, <3>2 DEF PrepareDone, IInv, TypeOK
    <3> QED
      BY <3>1, <3>2
  <2>3. /\ QueuesOK(tabQueue', ticket')
        /\ \A s \in Requests : ticket'[s] <= Cardinality(Taken)'
        /\ \A s \in Requests : Queued(s)' <=> Queued(s) \/ s = r
        /\ \A s \in Requests : InLane(s)' => Turn(s)'
    BY <1>1, <2>1, JoiningKeeps
  <2>4. \A s \in Requests : s # r => ticket'[s] = ticket[s]
    BY <2>1 DEF IInv, TypeOK
  <2>5. r \notin lane.active
    BY <1>2 DEF InLane
  <2>6. \A s \in Requests : StandsRight(s)'
    BY <1>1, <1>2, <2>2, <2>3, <2>4, <2>5 DEF QueueInv, StandsRight
  <2> QED
    BY <1>1, <2>3, <2>6 DEF QueueInv
<1>4. CASE ~(out = "kept" /\ led.mem[KeyOf[r]].state = "prepared")
  <2>1. UNCHANGED <<tabQueue, ticket>>
    BY <1>4 DEF PrepareDone
  <2>2. pc'[r] = "answered" /\ \A s \in Requests : s # r => pc'[s] = pc[s]
    BY <1>4 DEF PrepareDone, Says, IInv, TypeOK
  <2>3. \A s \in Requests : Queued(s)' = Queued(s)
    BY <2>1 DEF Queued
  <2>4. \A s \in Requests : StandsRight(s)'
    BY <1>1, <1>2, <2>1, <2>2, <2>3 DEF QueueInv, StandsRight, InLane
  <2> QED
    BY <1>1, <2>1, <2>4, QueuesAlone
<1> QED
  BY <1>3, <1>4

\* One request's handler moves on, alone; S is it, or nobody.
LEMMA OneMoves ==
    ASSUME IInv, QueueInv, NEW r \in Requests,
           NEW S \in SUBSET {r}, S \subseteq lane.active, Settles(S),
           UNCHANGED <<ticket, aborted>>,
           \A s \in Requests : s # r => /\ pc'[s] = pc[s]
                                        /\ admitted'[s] = admitted[s]
                                        /\ op'[s] = "pending" => op[s] = "pending",
           ~Queued(r)' \/ StandsRight(r)',
           ~Queued(r)' => /\ pc'[r] \in {"abandoning", "answered", "lost"}
                          /\ op'[r] # "pending"
    PROVE  QueueInv'
<1>1. ASSUME NEW s \in Requests, s # r PROVE StandsRight(s)'
  <2>1. /\ Queued(s)' <=> Queued(s)
        /\ s \in lane.active => s \in lane'.active
        /\ s \in lane'.active => s \in lane.active \/ (Queued(s) /\ ~admitted[s])
    BY <1>1, SettlingMoves
  <2>2. StandsRight(s)
    BY DEF QueueInv
  <2>3. /\ pc'[s] = pc[s] /\ admitted'[s] = admitted[s]
        /\ ticket'[s] = ticket[s] /\ aborted'[s] = aborted[s]
        /\ op'[s] = "pending" => op[s] = "pending"
    BY <1>1
  <2> QED
    BY <2>1, <2>2, <2>3 DEF StandsRight
<1>2. StandsRight(r)'
  <2>1. /\ Queued(r)' <=> Queued(r) /\ r \notin S
        /\ r \in lane'.active => r \notin S
        /\ r \in lane'.active => r \in lane.active \/ (Queued(r) /\ ~admitted[r])
    BY SettlingMoves
  <2>2. r \in lane.active => Queued(r)
    BY TurnIsQueued DEF QueueInv, InLane
  <2>3. CASE ~Queued(r)'
    <3>1. /\ pc'[r] \in {"abandoning", "answered", "lost"}
          /\ op'[r] # "pending"
      BY <2>3
    <3>2. r \notin lane'.active
      BY <2>1, <2>2, <2>3
    <3> QED
      BY <3>1, <3>2, <2>3 DEF StandsRight
  <2> QED
    BY <2>3
<1> QED
  BY <1>1, <1>2, SettlingKeeps

\* When the reservation is durable its request holds a slot.
LEMMA ReserveDoneKeepsQueues ==
    ASSUME IInv, QueueInv, NEW r \in Requests, NEW out, ReserveDone(r, out)
    PROVE  QueueInv'
<1>1. /\ pc[r] = "reserving"
      /\ UNCHANGED <<aborted, admitted, ticket>>
  BY DEF ReserveDone
<1>2. r \in lane.active /\ admitted[r]
  BY <1>1 DEF QueueInv, StandsRight
<1>3. CASE out = "kept" /\ StillMayDispatch(r)
  <2>1. /\ pc' = [pc EXCEPT ![r] = "sent"] /\ op' = [op EXCEPT ![r] = "pending"]
        /\ UNCHANGED queueVars
    BY <1>3 DEF ReserveDone
  <2>2. /\ pc'[r] = "sent" /\ op'[r] = "pending"
        /\ \A s \in Requests : s # r => pc'[s] = pc[s] /\ op'[s] = op[s]
    BY <2>1 DEF IInv, TypeOK
  <2>3. \A s \in Requests : Queued(s)' = Queued(s)
    BY <2>1 DEF Queued
  <2>4. \A s \in Requests : StandsRight(s)'
    BY <1>1, <1>2, <2>1, <2>2, <2>3 DEF QueueInv, StandsRight
  <2> QED
    BY <1>1, <2>1, <2>4, QueuesAlone
<1>4. CASE ~(out = "kept" /\ StillMayDispatch(r))
  <2>1. /\ Abandon(r, Popped(out), out = "kept")
        /\ UNCHANGED op
    BY <1>4 DEF ReserveDone
  <2>2. /\ pc'[r] \in {"abandoning", "answered"}
        /\ \A s \in Requests : s # r => pc'[s] = pc[s]
    BY <2>1, AbandonMoves
  <2>3. op[r] # "pending"
    BY <1>1 DEF QueueInv, StandsRight
  <2>4. CASE out = "kept" /\ NeedsAbandon(Popped(out), r, TRUE)
    <3>1. UNCHANGED queueVars
      BY <1>4, <2>4 DEF ReserveDone
    <3>2. pc'[r] = "abandoning"
      BY <2>1, <2>4, AbandonMoves
    <3>3. \A s \in Requests : Queued(s)' = Queued(s)
      BY <3>1 DEF Queued
    <3>4. \A s \in Requests : StandsRight(s)'
      BY <1>1, <1>2, <2>1, <2>2, <2>3, <3>1, <3>2, <3>3 DEF QueueInv, StandsRight
    <3> QED
      BY <1>1, <3>1, <3>4, QueuesAlone
  <2>5. CASE ~(out = "kept" /\ NeedsAbandon(Popped(out), r, TRUE))
    <3>1. Settles({r})
      BY <1>4, <2>5 DEF ReserveDone, Settles
    <3>2. ~Queued(r)'
      BY <1>2, <3>1, SettlingMoves
    <3> QED
      BY <1>1, <1>2, <2>1, <2>2, <2>3, <3>1, <3>2, OneMoves
  <2> QED
    BY <2>4, <2>5
<1> QED
  BY <1>3, <1>4

LEMMA AbandonDoneKeepsQueues ==
    ASSUME IInv, QueueInv, NEW r \in Requests, NEW out, AbandonDone(r, out)
    PROVE  QueueInv'
<1>1. /\ pc[r] = "abandoning"
      /\ UNCHANGED <<aborted, admitted, ticket, op>>
      /\ pc'[r] = "answered"
      /\ \A s \in Requests : s # r => pc'[s] = pc[s]
  BY DEF AbandonDone, Says, IInv, TypeOK
<1>2. op[r] # "pending"
  BY <1>1 DEF QueueInv, StandsRight
<1>3. CASE r \in lane.active /\ admitted[r]
  <2>1. Settles({r})
    BY <1>3 DEF AbandonDone, Settles
  <2>2. ~Queued(r)'
    BY <1>3, <2>1, SettlingMoves
  <2> QED
    BY <1>1, <1>2, <1>3, <2>1, <2>2, OneMoves
<1>4. CASE ~(r \in lane.active /\ admitted[r])
  <2>1. UNCHANGED queueVars
    BY <1>4 DEF AbandonDone
  <2>2. \A s \in Requests : Queued(s)' = Queued(s)
    BY <2>1 DEF Queued
  <2>3. \A s \in Requests : StandsRight(s)'
    BY <1>1, <1>2, <1>4, <2>1, <2>2 DEF QueueInv, StandsRight
  <2> QED
    BY <1>1, <2>1, <2>3, QueuesAlone
<1> QED
  BY <1>3, <1>4

LEMMA ExpireDoneKeepsQueues ==
    ASSUME IInv, QueueInv, NEW r \in Requests, NEW out, ExpireDone(r, out)
    PROVE  QueueInv'
<1>1. UNCHANGED <<tabQueue, lane, ticket, pc, aborted, admitted, op>>
  BY DEF ExpireDone
<1>2. \A s \in Requests : StandsRight(s)'
  BY <1>1 DEF QueueInv, StandsRight, Queued
<1> QED
  BY <1>1, <1>2, QueuesAlone

LEMMA SettleDoneKeepsQueues ==
    ASSUME IInv, QueueInv, NEW r \in Requests, NEW out, SettleDone(r, out)
    PROVE  QueueInv'
<1>1. /\ UNCHANGED <<aborted, admitted, ticket>>
      /\ op[r] = "settling" /\ op'[r] = "closed"
      /\ \A s \in Requests : s # r => op'[s] = op[s]
  BY DEF SettleDone, IInv, TypeOK
<1>2. CASE out = "kept" /\ pc[r] = "sent"
  <2>1. r \in lane.active
    BY <1>2 DEF QueueInv, StandsRight
  <2>2. Settles({r}) /\ Says(r, AnswerFor(Head(led.jobs).kind))
    BY <1>2 DEF SettleDone, Settles
  <2>3. pc'[r] = "answered" /\ \A s \in Requests : s # r => pc'[s] = pc[s]
    BY <2>2 DEF Says, IInv, TypeOK
  <2>4. ~Queued(r)'
    BY <2>1, <2>2, SettlingMoves
  <2> QED
    BY <1>1, <2>1, <2>2, <2>3, <2>4, OneMoves
<1>3. CASE ~(out = "kept" /\ pc[r] = "sent")
  <2>1. UNCHANGED <<pc, tabQueue, lane>>
    BY <1>3 DEF SettleDone
  <2>2. \A s \in Requests : StandsRight(s)'
    BY <1>1, <2>1 DEF QueueInv, StandsRight, Queued
  <2> QED
    BY <1>1, <2>1, <2>2, QueuesAlone
<1> QED
  BY <1>2, <1>3

LEMMA TimeoutKeepsQueues ==
    ASSUME IInv, QueueInv, NEW r \in Requests, Timeout(r)
    PROVE  QueueInv'
<1>1. /\ op[r] = "pending" /\ Settles({r})
      /\ UNCHANGED <<aborted, admitted, ticket>>
      /\ pc'[r] = "answered"
      /\ \A s \in Requests : s # r => pc'[s] = pc[s]
      /\ op'[r] = "tombstone"
      /\ \A s \in Requests : s # r => op'[s] = op[s]
  BY DEF Timeout, Interrupt, Settles, Says, IInv, TypeOK
<1>2. r \in lane.active
  BY <1>1, PendingIsActive
<1>3. ~Queued(r)'
  BY <1>1, <1>2, SettlingMoves
<1> QED
  BY <1>1, <1>2, <1>3, OneMoves

\* A slot is granted: the handler leaves the queue or keeps the slot.
LEMMA BeginKeepsQueues ==
    ASSUME IInv, QueueInv, NEW r \in Requests, Begin(r)
    PROVE  QueueInv'
<1>1. /\ r \in lane.active /\ ~admitted[r]
      /\ UNCHANGED <<aborted, ticket, op>>
      /\ admitted'[r] = ~aborted[r]
      /\ \A s \in Requests : s # r => admitted'[s] = admitted[s]
  BY DEF Begin, IInv, TypeOK
<1>2. Queued(r)
  BY <1>1, TurnIsQueued DEF QueueInv, InLane
<1>3. /\ pc[r] \notin {"idle", "preparing", "reserving", "sent"}
      /\ ~aborted[r] => pc[r] = "queued"
      /\ aborted[r] => pc[r] # "queued"
      /\ op[r] # "pending"
  BY <1>1, <1>2, QueuedHasTicket DEF QueueInv, StandsRight
<1>4. \A s \in Requests : s # r => pc'[s] = pc[s]
  <2>1. \/ UNCHANGED pc
        \/ Abandon(r, led, FALSE)
        \/ Says(r, "duplicate")
        \/ pc' = [pc EXCEPT ![r] = "reserving"]
    BY DEF Begin
  <2> QED
    BY <2>1, AbandonMoves DEF Says, IInv, TypeOK
<1>5. CASE Release({r})
  <2>1. Settles({r}) /\ ~Queued(r)'
    BY <1>1, <1>5, SettlingMoves DEF Settles
  <2>2. pc'[r] \in {"abandoning", "answered", "lost"}
    <3>1. CASE aborted[r]
      <4>1. UNCHANGED pc
        BY <3>1 DEF Begin
      <4> QED
        BY <1>3, <3>1, <4>1 DEF IInv, TypeOK, PcStates
    <3>2. CASE ~aborted[r] /\ (Abandon(r, led, FALSE) \/ Says(r, "duplicate"))
      BY <3>2, AbandonMoves DEF Says, IInv, TypeOK
    <3>3. CASE UNCHANGED queueVars
      <4>1. lane' = lane /\ r \notin lane'.active
        BY <1>1, <2>1, <3>3, SettlingMoves
      <4> QED
        BY <1>1, <4>1
    <3> QED
      BY <3>1, <3>2, <3>3 DEF Begin
  <2> QED
    BY <1>1, <1>3, <1>4, <2>1, <2>2, OneMoves
<1>6. CASE ~Release({r})
  <2>1. UNCHANGED queueVars /\ ~aborted[r] /\ pc'[r] \in {"reserving", "abandoning"}
    <3>1. CASE aborted[r]
      BY <1>6, <3>1 DEF Begin
    <3>2. CASE ~aborted[r] /\ ~MayDispatch(r)
      BY <1>6, <3>2, AbandonMoves DEF Begin
    <3>3. CASE ~aborted[r] /\ MayDispatch(r)
      BY <1>6, <3>3 DEF Begin, IInv, TypeOK
    <3> QED
      BY <3>1, <3>2, <3>3
  <2>2. \A s \in Requests : Queued(s)' = Queued(s)
    BY <2>1 DEF Queued
  <2>3. \A s \in Requests : StandsRight(s)'
    BY <1>1, <1>2, <1>3, <1>4, <2>1, <2>2 DEF QueueInv, StandsRight
  <2> QED
    BY <1>1, <2>1, <2>3, QueuesAlone
<1> QED
  BY <1>5, <1>6

\* The first work of a tab leaves its queue without having had a slot.
LEMMA FirstLeaves ==
    ASSUME IInv, QueueInv, NEW r \in Requests, Turn(r), ~InLane(r),
           tabQueue' = [tabQueue EXCEPT ![TabOf[r]] = Tail(@)], UNCHANGED lane
    PROVE  /\ QueuesOK(tabQueue', ticket)
           /\ \A s \in Requests : Queued(s)' <=> Queued(s) /\ s # r
           /\ \A s \in Requests : InLane(s)' => Turn(s)'
<1> DEFINE t == TabOf[r]
           q == [u \in Tabs |-> IF tabQueue[u] # <<>> /\ Head(tabQueue[u]) \in {r}
                               THEN Tail(tabQueue[u]) ELSE tabQueue[u]]
<1>1. t \in Tabs /\ tabQueue \in [Tabs -> Seq(Requests)]
  BY DispatchAssumption DEF IInv, TypeOK
<1>2. ASSUME NEW u \in Tabs, u # t, tabQueue[u] # <<>> PROVE Head(tabQueue[u]) # r
  <2>1. tabQueue[u] \in Seq(Requests)
    BY <1>1
  <2>2. Head(tabQueue[u]) = tabQueue[u][1] /\ Len(tabQueue[u]) > 0
    BY <1>2, <2>1, TailLists
  <2>3. 1 \in DOMAIN tabQueue[u]
    BY <2>1, <2>2
  <2>4. TabOf[tabQueue[u][1]] = u
    BY <2>3 DEF QueueInv, QueuesOK
  <2> QED
    BY <1>2, <2>2, <2>4
<1>3. tabQueue[t] # <<>> /\ Head(tabQueue[t]) = r
  BY DEF Turn
<1>4. tabQueue' = q
  <2>1. tabQueue'[t] = Tail(tabQueue[t]) /\ \A u \in Tabs : u # t => tabQueue'[u] = tabQueue[u]
    BY <1>1
  <2>2. tabQueue' = [u \in Tabs |-> tabQueue'[u]]
    BY <1>1
  <2>3. \A u \in Tabs : tabQueue'[u] = q[u]
    BY <1>2, <1>3, <2>1
  <2> QED
    BY <2>2, <2>3
<1>5. /\ QueuesOK(tabQueue', ticket)
      /\ \A s \in Requests : Queued(s)' <=> Queued(s) /\ s \notin {r}
      /\ \A s \in Requests : Turn(s) /\ s \notin {r} => Turn(s)'
  <2>1. {r} \in SUBSET Requests /\ \A s \in {r} : Turn(s)
    OBVIOUS
  <2> QED
    BY <1>4, <2>1, HeadsLeave DEF QueueInv
<1>6. \A s \in Requests : InLane(s)' => Turn(s)'
  BY <1>5 DEF InLane, QueueInv
<1> QED
  BY <1>5, <1>6

\* The predecessor has settled: work that was aborted or finds the lane full
\* goes, and other work waits for a slot.
LEMMA ScheduleKeepsQueues ==
    ASSUME IInv, QueueInv, NEW r \in Requests, Schedule(r)
    PROVE  QueueInv'
<1>1. /\ Turn(r) /\ ~InLane(r)
      /\ UNCHANGED <<aborted, admitted, ticket, op>>
  BY DEF Schedule
<1>2. Queued(r) /\ r \notin lane.active /\ ~Lists(lane.waiting, r)
  BY <1>1, TurnIsQueued DEF InLane, Lists
<1>3. /\ pc[r] \notin {"idle", "preparing", "reserving", "sent"}
      /\ ~admitted[r]
      /\ ~aborted[r] => pc[r] = "queued"
      /\ aborted[r] => pc[r] # "queued"
      /\ op[r] # "pending"
  <2>1. admitted[r] \in BOOLEAN
    BY DEF IInv, TypeOK
  <2> QED
    BY <2>1, <1>2, QueuedHasTicket DEF QueueInv, StandsRight
<1>4. CASE aborted[r] \/ Len(lane.waiting) >= QueueDepth
  <2>1. /\ tabQueue' = [tabQueue EXCEPT ![TabOf[r]] = Tail(@)]
        /\ UNCHANGED lane
    BY <1>4 DEF Schedule
  <2>2. /\ pc'[r] # "queued" /\ pc'[r] \in {pc[r], "abandoning", "answered"}
        /\ \A s \in Requests : s # r => pc'[s] = pc[s]
    <3>1. CASE aborted[r]
      BY <1>3, <3>1 DEF Schedule
    <3>2. CASE ~aborted[r]
      BY <1>4, <3>2, AbandonMoves DEF Schedule
    <3> QED
      BY <3>1, <3>2
  <2>3. /\ QueuesOK(tabQueue', ticket)
        /\ \A s \in Requests : Queued(s)' <=> Queued(s) /\ s # r
        /\ \A s \in Requests : InLane(s)' => Turn(s)'
    BY <1>1, <2>1, FirstLeaves
  <2>4. \A s \in Requests : StandsRight(s)'
    BY <1>1, <1>2, <1>3, <2>1, <2>2, <2>3 DEF QueueInv, StandsRight
  <2> QED
    BY <1>1, <2>1, <2>3, <2>4 DEF QueueInv, Taken
<1>5. CASE ~(aborted[r] \/ Len(lane.waiting) >= QueueDepth)
  <2> DEFINE m == [lane EXCEPT !.waiting = Append(@, r)]
             w == lane.waiting
  <2>1. lane' = Drained(m) /\ UNCHANGED <<tabQueue, pc>>
    BY <1>5 DEF Schedule
  <2>2. /\ w \in Seq(Requests) /\ Len(w) \in Nat /\ DOMAIN w = 1 .. Len(w)
        /\ lane \in Lane
    BY DEF IInv, TypeOK, Lane
  <2>3. /\ Append(w, r) \in Seq(Requests)
        /\ DOMAIN Append(w, r) = 1 .. Len(w) + 1
        /\ \A i \in 1 .. Len(w) : Append(w, r)[i] = w[i]
        /\ Append(w, r)[Len(w) + 1] = r
    <3>1. /\ Append(w, r) \in Seq(Requests)
          /\ Len(Append(w, r)) = Len(w) + 1
          /\ \A i \in 1 .. Len(w) : Append(w, r)[i] = w[i]
          /\ Append(w, r)[Len(w) + 1] = r
      BY <2>2, AppendProperties
    <3>2. DOMAIN Append(w, r) = 1 .. Len(Append(w, r))
      BY <3>1
    <3> QED
      BY <3>1, <3>2
  <2>4. m \in Lane /\ m.active = lane.active /\ m.waiting = Append(w, r)
    BY <2>2, <2>3 DEF Lane
  <2>5. \A s : Lists(m.waiting, s) <=> Lists(w, s) \/ s = r
    BY <2>2, <2>3, <2>4 DEF Lists
  <2>6. LaneOK(m)
    <3>1. \A s \in m.active : ~Lists(m.waiting, s)
      BY <1>2, <2>4, <2>5 DEF QueueInv, LaneOK
    <3>2. ASSUME NEW i \in 1 .. Len(w) + 1, NEW j \in 1 .. Len(w) + 1,
                 Append(w, r)[i] = Append(w, r)[j]
          PROVE  i = j
      <4>1. \A k \in 1 .. Len(w) : w[k] # r
        BY <1>2, <2>2 DEF Lists
      <4>2. CASE i = Len(w) + 1 \/ j = Len(w) + 1
        BY <2>2, <2>3, <3>2, <4>1, <4>2
      <4>3. CASE i # Len(w) + 1 /\ j # Len(w) + 1
        <5>1. i \in DOMAIN w /\ j \in DOMAIN w /\ w[i] = w[j]
          BY <2>2, <2>3, <3>2, <4>3
        <5> QED
          BY <5>1 DEF QueueInv, LaneOK
      <4> QED
        BY <4>2, <4>3
    <3> QED
      BY <2>3, <2>4, <3>1, <3>2 DEF LaneOK
  <2> HIDE DEF m
  <2>7. /\ LaneOK(lane')
        /\ lane.active \subseteq lane'.active
        /\ \A s \in Requests : InLane(s)' <=> InLane(s) \/ s = r
    <3>1. Cardinality(m.active) <= Concurrency
      BY <2>4 DEF IInv
    <3>2. /\ LaneOK(lane')
          /\ m.active \subseteq lane'.active
          /\ \A s \in Requests : s \in lane'.active \/ Lists(lane'.waiting, s)
                                 <=> s \in m.active \/ Lists(m.waiting, s)
      BY <2>1, <2>4, <2>6, <3>1, DrainedKeeps
    <3> QED
      BY <2>4, <2>5, <3>2 DEF InLane, Lists
  <2>8. \A s \in Requests : InLane(s)' => Turn(s)'
    BY <1>1, <2>1, <2>7 DEF QueueInv, Turn
  <2>9. \A s \in Requests : Queued(s)' = Queued(s)
    BY <2>1 DEF Queued
  <2>10. ASSUME NEW s \in Requests, s \in lane'.active
         PROVE  s \in lane.active \/ ~admitted[s]
    <3>1. InLane(s) \/ s = r
      BY <2>7, <2>10 DEF InLane
    <3>2. InLane(s) => Queued(s)
      BY TurnIsQueued DEF QueueInv
    <3> QED
      BY <1>3, <3>1, <3>2 DEF QueueInv, StandsRight
  <2>11. \A s \in Requests : StandsRight(s)'
    BY <1>1, <2>1, <2>7, <2>9, <2>10 DEF QueueInv, StandsRight
  <2> QED
    BY <1>1, <2>1, <2>7, <2>8, <2>11 DEF QueueInv, Taken
<1> QED
  BY <1>4, <1>5

\* #invalidateProfile settles every pending operation.
LEMMA InvalidateKeepsQueues ==
    ASSUME IInv, QueueInv, Invalidate, UNCHANGED <<aborted, admitted, ticket>>
    PROVE  QueueInv'
<1> DEFINE pending == {r \in Requests : op[r] = "pending"}
<1>1. Settles(pending) /\ pending \in SUBSET lane.active
  BY PendingIsActive DEF Invalidate, Settles
<1>2. \A r \in Requests : /\ r \in pending => pc'[r] = "answered"
                          /\ r \notin pending => pc'[r] = pc[r]
                          /\ op'[r] # "pending"
  BY DEF Invalidate
<1>3. \A r \in Requests : r \in pending => pc[r] = "sent"
  BY PendingIsActive
<1> HIDE DEF pending
<1>4. ASSUME NEW r \in Requests PROVE StandsRight(r)'
  <2>1. /\ Queued(r)' <=> Queued(r) /\ r \notin pending
        /\ r \in lane.active /\ r \notin pending => r \in lane'.active
        /\ r \in lane'.active => r \notin pending
        /\ r \in lane'.active => r \in lane.active \/ (Queued(r) /\ ~admitted[r])
    BY <1>1, SettlingMoves
  <2> QED
    BY <2>1, <1>2, <1>3 DEF QueueInv, StandsRight
<1> QED
  BY <1>1, <1>4, SettlingKeeps

\* After a restart nothing is queued.
LEMMA RestartKeepsQueues ==
    ASSUME IInv, QueueInv, Restart
    PROVE  QueueInv'
<1>1. /\ lane' = [waiting |-> <<>>, active |-> {}]
      /\ tabQueue' = [t \in Tabs |-> <<>>]
      /\ UNCHANGED <<ticket, admitted, aborted>>
  BY DEF Restart
<1>2. \A r \in Requests : /\ pc'[r] = IF pc[r] \in {"idle", "answered"} THEN pc[r] ELSE "lost"
                          /\ op'[r] # "pending"
  BY DEF Restart
<1>3. DOMAIN <<>> = {}
  OBVIOUS
<1>4. LaneOK(lane') /\ \A r \in Requests : ~InLane(r)'
  BY <1>1, <1>3 DEF LaneOK, Lists, InLane
<1>5. QueuesOK(tabQueue', ticket') /\ \A r \in Requests : ~Queued(r)'
  BY <1>1, <1>3, DispatchAssumption DEF QueuesOK, Queued, Lists
<1>6. \A r \in Requests : StandsRight(r)'
  BY <1>1, <1>2, <1>5 DEF QueueInv, StandsRight
<1> QED
  BY <1>1, <1>4, <1>5, <1>6 DEF QueueInv, Taken

LEMMA InitHasQueues == Init => QueueInv
<1> SUFFICES ASSUME Init PROVE QueueInv
  OBVIOUS
<1>1. DOMAIN <<>> = {}
  OBVIOUS
<1>2. lane = [waiting |-> <<>>, active |-> {}] /\ tabQueue = [t \in Tabs |-> <<>>]
  BY DEF Init
<1>3. LaneOK(lane) /\ \A r \in Requests : ~InLane(r)
  BY <1>1, <1>2 DEF LaneOK, Lists, InLane
<1>4. QueuesOK(tabQueue, ticket) /\ \A r \in Requests : ~Queued(r)
  BY <1>1, <1>2, DispatchAssumption DEF QueuesOK, Queued, Lists
<1>5. Taken = {}
  BY DEF Taken, Init
<1>6. \A r \in Requests : ticket[r] <= Cardinality(Taken)
  BY <1>5, FS_EmptySet DEF Init
<1>7. \A r \in Requests : StandsRight(r)
  BY <1>2, <1>4 DEF StandsRight, Init
<1> QED
  BY <1>3, <1>4, <1>6, <1>7 DEF QueueInv

LEMMA NextKeepsQueues == IInv /\ QueueInv /\ [Next]_vars => QueueInv'
<1> SUFFICES ASSUME IInv, QueueInv, [Next]_vars PROVE QueueInv'
  OBVIOUS
<1>1. CASE UNCHANGED vars
  BY <1>1 DEF vars, QueueInv, Taken, LaneOK, QueuesOK, InLane, Turn, Lists, StandsRight, Queued
<1>2. CASE \E c \in Clients : DisconnectClient(c) \/ \E t \in Tabs : AcquireLease(c, t)
  BY <1>2, DisconnectKeepsQueues, OutsideKeepsQueues
<1>3. CASE (\E t \in Tabs : LoseLease(t)) \/ Registered
  BY <1>3, OutsideKeepsQueues
<1>4. CASE \E r \in Requests : Submitted(r) \/ ForgetTombstone(r) \/ Execute(r) \/ Deliver(r)
  BY <1>4, OutsideKeepsQueues
<1>5. CASE \E r \in Requests : Cancel(r) \/ Schedule(r) \/ Begin(r) \/ Timeout(r)
  BY <1>5, CancelKeepsQueues, ScheduleKeepsQueues, BeginKeepsQueues, TimeoutKeepsQueues
<1>6. CASE \E r \in Requests : LedgerStep(r)
  BY <1>6, PrepareDoneKeepsQueues, ReserveDoneKeepsQueues, AbandonDoneKeepsQueues,
     ExpireDoneKeepsQueues, SettleDoneKeepsQueues
  DEF LedgerStep
<1>7. CASE LoseExtension \/ \E kind \in {"transport", "generation"} : Hello(kind)
  BY <1>7, InvalidateKeepsQueues DEF LoseExtension, Hello
<1>8. CASE Restart
  BY <1>8, RestartKeepsQueues
<1> QED
  BY <1>1, <1>2, <1>3, <1>4, <1>5, <1>6, <1>7, <1>8 DEF Next

-----------------------------------------------------------------------------
(* Theorems                                                                *)

\* The queues are in order in every reachable state.
THEOREM QueuesInOrder == Spec => []QueueInv
<1>1. IInv /\ QueueInv /\ [Next]_vars => QueueInv'
  BY NextKeepsQueues
<1> QED
  BY <1>1, InitHasQueues, Invariance, PTL DEF Spec

\* However work ends (settled, timed out, cancelled, disconnected, refused, its
\* ledger write failed), its slot and its place in the tab's queue are given
\* back once, to the work that is next (#withTargetSlot, #enqueue).
THEOREM SlotsAreReturned == Spec => []SlotsDoNotLeak
<1>1. IInv /\ QueueInv => SlotsDoNotLeak
  <2> SUFFICES ASSUME IInv, QueueInv PROVE SlotsDoNotLeak
    OBVIOUS
  <2>1. \A r \in lane.active : r \in Requests /\ Turn(r)
    BY DEF IInv, TypeOK, Lane, QueueInv, InLane
  <2> QED
    BY <2>1 DEF IInv, QueueInv, StandsRight, SlotsDoNotLeak, Turn
<1> QED
  BY <1>1, Invariance, QueuesInOrder, PTL

\* On one tab nothing runs before what was queued earlier is over.
THEOREM TabsKeepOrder == Spec => []TabOrder
<1>1. IInv /\ QueueInv => TabOrder
  <2> SUFFICES ASSUME IInv, QueueInv,
                      NEW r \in Requests, NEW s \in Requests,
                      TabOf[r] = TabOf[s], 0 < ticket[r], ticket[r] < ticket[s],
                      pc[s] \in {"reserving", "sent"}, pc[r] \in {"queued", "reserving", "sent"}
               PROVE  FALSE
    BY DEF TabOrder
  <2> DEFINE q == tabQueue[TabOf[s]]
  <2>1. Turn(s) /\ Queued(r)
    BY TurnIsQueued DEF QueueInv, StandsRight, InLane
  <2>2. TabOf[s] \in Tabs /\ q \in Seq(Requests) /\ q # <<>>
    BY <2>1, DispatchAssumption DEF IInv, TypeOK, Turn
  <2>3. q[1] = s /\ 1 \in DOMAIN q /\ DOMAIN q = 1 .. Len(q)
    BY <2>1, <2>2, TailLists DEF Turn
  <2>4. PICK i \in DOMAIN q : q[i] = r
    BY <2>1 DEF Queued, Lists
  <2>5. ticket[r] \in Nat /\ ticket[s] \in Nat
    BY DEF IInv, TypeOK
  <2>6. i # 1 => ticket[s] < ticket[r]
    BY <2>2, <2>3, <2>4 DEF QueueInv, QueuesOK
  <2>7. i # 1
    BY <2>3, <2>4, <2>5
  <2> QED
    BY <2>5, <2>6, <2>7
<1> QED
  BY <1>1, Invariance, QueuesInOrder, PTL
=============================================================================
