------------------------ MODULE PageDebugger_proofs ------------------------
(***************************************************************************)
(* Theorems about the debugger that the operations of a tab share, for any *)
(* number of calls and attachments: nobody who has it loses it to another  *)
(* call, and nothing of it is left with nobody.                            *)
(*                                                                         *)
(* What Chrome was asked and what the worker has not heard yet form one    *)
(* line; Line says what may stand in it for every state that the pool can  *)
(* be in.  Pool counts the references of the state that can still be used, *)
(* Places and Overrides relate a call to its lease, its record and the     *)
(* viewport.                                                               *)
(***************************************************************************)
EXTENDS MCSharing, FiniteSetTheorems, TLAPS

States == Debugger!States
DebuggerStages == {"idle", "acquires", "attaching", "granted", "refused", "done", "uses",
                   "reads_tree", "starts", "recording", "enables", "watching",
                   "measures", "sets", "set", "retained", "clears", "restored"}
\* The flags of a record.
Marks == {"stopped", "closing", "applied", "discarded"}
Modes == {"none", "attaching", "ready", "closing", "stuck", "lost"}
Asked == [does : {"attach", "detach"}, state : States]
Heard == [of : {"attach", "detach", "gone"}, state : States \union {0}, done : BOOLEAN]

ChromeTypes ==
    /\ attached \in BOOLEAN /\ metrics \in BOOLEAN
    /\ calls \in Seq(Asked) /\ news \in Seq(Heard)
    /\ \A i \in DOMAIN news : news[i].of # "gone" => news[i].state # 0
    /\ mode \in [States -> Modes] /\ refs \in [States -> Int] /\ holder \in States \union {0}
CallTypes ==
    /\ stage \in [Requests -> DebuggerStages] /\ kind \in [Requests -> Debugger!Kinds]
    /\ grip \in [Requests -> States \union {0}] /\ flags \in [Requests -> SUBSET Marks]
    /\ active \in Requests \union {None} /\ dialog \in Requests \union {None}
    /\ view \in Requests \union {None}

-----------------------------------------------------------------------------
(* The line of what Chrome is asked and of what it has answered.           *)

\* A detachment of a state that is lost has nothing to detach, and fails.
Void(a) == a.does = "detach" /\ mode[a.state] = "lost"
Stale(n) == n.of = "detach" /\ ~n.done /\ mode[n.state] = "lost"
Voids(k) == \A i \in DOMAIN calls : i <= k => Void(calls[i])
Stales(k) == \A i \in DOMAIN news : i <= k => Stale(news[i])
AskedFor(k, what) == calls[k].does = what /\ calls[k].state = holder
Tells(k, what) == news[k].of = what /\ news[k].state = holder
Gone(k) == news[k].of = "gone"

\* Attached until Chrome took it away, of which the worker will hear.
Whole == IF attached THEN Len(news) = 0 ELSE Len(news) = 1 /\ Gone(1)

\* Asked for, answered, or taken away before the answer was heard.
Attaching ==
    \/ /\ Len(calls) > 0 /\ AskedFor(Len(calls), "attach") /\ Voids(Len(calls) - 1)
       /\ ~attached /\ Stales(Len(news))
    \/ /\ Len(calls) = 0 /\ Len(news) > 0 /\ Stales(Len(news) - 1)
       /\ Tells(Len(news), "attach") /\ (news[Len(news)].done <=> attached)
    \/ /\ Len(calls) = 0 /\ Len(news) > 1 /\ Stales(Len(news) - 2)
       /\ Tells(Len(news) - 1, "attach") /\ news[Len(news) - 1].done /\ Gone(Len(news)) /\ ~attached

\* Asked for; answered; or it failed, since Chrome took it away before, or after.
Closing ==
    \/ Len(calls) = 1 /\ AskedFor(1, "detach") /\ Whole
    \/ Len(calls) = 0 /\ Len(news) = 1 /\ Tells(1, "detach") /\ (news[1].done <=> ~attached)
    \/ /\ Len(calls) = 0 /\ Len(news) = 2 /\ ~attached
       /\ \/ Tells(1, "detach") /\ ~news[1].done /\ Gone(2)
          \/ Gone(1) /\ Tells(2, "detach") /\ ~news[2].done

Line ==
    \/ holder = 0 /\ ~attached /\ Voids(Len(calls)) /\ Stales(Len(news))
    \/ holder # 0 /\ mode[holder] = "attaching" /\ Attaching
    \/ holder # 0 /\ mode[holder] \in {"ready", "stuck"} /\ Len(calls) = 0 /\ Whole
    \/ holder # 0 /\ mode[holder] = "closing" /\ Closing

-----------------------------------------------------------------------------
(* The pool, the calls and the viewport.                                   *)

Users(s) == {c \in Requests : grip[c] = s}

\* One state can be used at most; it counts its users, and has none when it closes.
Pool ==
    /\ \A s \in States : s # holder => mode[s] \in {"none", "lost"}
    /\ \A s \in States : mode[s] \in {"none", "closing", "stuck"} => Users(s) = {}
    /\ \A s \in States :
          mode[s] \in {"attaching", "ready"} => Users(s) # {} /\ refs[s] = Cardinality(Users(s))
    /\ \A c \in Requests : stage[c] = "attaching" <=> grip[c] # 0 /\ mode[grip[c]] = "attaching"

Leaseless == {"idle", "acquires", "refused", "done"}
Unregistered == {"idle", "acquires", "attaching", "granted", "refused", "reads_tree"}
Observing == {"reads_tree", "starts", "recording"}

\* What a call may hold where it stands; a stopped one has released its lease before the code
\* that finds it stopped goes on, unless that code releases it.
Places ==
    /\ \A c \in Requests : stage[c] \in Leaseless => grip[c] = 0
    /\ \A c \in Requests :
          stage[c] \in {"starts", "enables"} /\ "stopped" \in flags[c] => grip[c] = 0
    /\ \A c \in Requests :
          kind[c] = "observe" /\ stage[c] \in Unregistered => "stopped" \notin flags[c]
    /\ \A c \in Requests : active = c => kind[c] = "observe" /\ stage[c] \notin Unregistered
    /\ \A c \in Requests : dialog = c => kind[c] = "dialog"
    /\ \A c \in Requests : stage[c] \in Observing => kind[c] = "observe"

ViewStages == {"measures", "sets", "set", "retained", "clears", "restored"}

\* The viewport's record is that of the one call that works on it.
Overrides ==
    /\ metrics => attached /\ view # None /\ "applied" \in flags[view]
    /\ \A c \in Requests : stage[c] \in ViewStages => kind[c] = "viewport"
    /\ \A c \in Requests : kind[c] = "viewport" /\ stage[c] \notin {"idle", "done"} => view = c
    /\ \A c \in Requests : stage[c] = "restored" => "applied" \notin flags[c]

DebuggerInvariant == ChromeTypes /\ CallTypes /\ Line /\ Pool /\ Places /\ Overrides

-----------------------------------------------------------------------------
(* Types.                                                                  *)

LEMMA DebuggerInit == Debugger!Init => DebuggerInvariant
<1> SUFFICES ASSUME Debugger!Init PROVE DebuggerInvariant
  OBVIOUS
<1> USE DEF Debugger!Init
<1>1. ChromeTypes
  <2>1. calls \in Seq(Asked) /\ news \in Seq(Heard) /\ DOMAIN news = {}
    OBVIOUS
  <2>2. mode \in [States -> Modes] /\ refs \in [States -> Int]
    BY DEF Modes, States
  <2> QED BY <2>1, <2>2 DEF ChromeTypes
<1>2. CallTypes
  BY DEF CallTypes, DebuggerStages, Debugger!Kinds
<1>3. Line
  BY DEF Line, Voids, Stales
<1>4. \A s \in States : Users(s) = {}
  BY DEF Users, States, Debugger!States
<1>5. Pool
  BY <1>4 DEF Pool, States
<1>6. Places
  BY NobodyAssumption DEF Places, Leaseless, Unregistered, Observing
<1>7. Overrides
  BY NobodyAssumption DEF Overrides, ViewStages
<1> QED
  BY <1>1, <1>2, <1>3, <1>5, <1>6, <1>7 DEF DebuggerInvariant

\* Release: the call has no lease any more, and what else is as the types say.
LEMMA ReleaseTypes ==
    ASSUME ChromeTypes, CallTypes, NEW c \in Requests, Debugger!Release(c)
    PROVE  /\ grip' = [grip EXCEPT ![c] = 0]
           /\ mode' \in [States -> Modes] /\ refs' \in [States -> Int] /\ calls' \in Seq(Asked)
<1> DEFINE s == grip[c]
<1>1. s \in States \union {0} /\ 0 \notin States
  BY DEF CallTypes, States, Debugger!States
<1>2. CASE s = 0
  BY <1>2 DEF Debugger!Release, ChromeTypes
<1>3. CASE s # 0
  <2>1. s \in States
    BY <1>1, <1>3
  <2>2. [does |-> "detach", state |-> s] \in Asked
    BY <2>1 DEF Asked
  <2>3. refs' = [refs EXCEPT ![s] = refs[s] - 1] /\ refs[s] \in Int
    BY <1>3, <2>1 DEF Debugger!Release, ChromeTypes
  <2>4. CASE refs[s] = 1 /\ mode[s] # "lost"
    <3>1. mode' = [mode EXCEPT ![s] = "closing"]
          /\ calls' = Append(calls, [does |-> "detach", state |-> s])
          /\ grip' = [grip EXCEPT ![c] = 0]
      BY <1>3, <2>4 DEF Debugger!Release
    <3> QED BY <2>1, <2>2, <2>3, <3>1 DEF ChromeTypes, Modes
  <2>5. CASE ~(refs[s] = 1 /\ mode[s] # "lost")
    <3>1. mode' = mode /\ calls' = calls /\ grip' = [grip EXCEPT ![c] = 0]
      BY <1>3, <2>5 DEF Debugger!Release
    <3> QED BY <2>1, <2>3, <3>1 DEF ChromeTypes
  <2> QED BY <2>4, <2>5
<1> QED BY <1>2, <1>3

LEMMA KeepsTypes ==
    ASSUME ChromeTypes, CallTypes, Debugger!KeepsLease
    PROVE  grip' = grip /\ mode' = mode /\ refs' = refs /\ calls' = calls
BY DEF Debugger!KeepsLease

\* What one call does when it goes on: nothing to the pool, or its lease is released.
LeaseStep(c) == Debugger!Release(c) \/ Debugger!KeepsLease
CallStep(c) ==
    /\ LeaseStep(c) /\ attached' = attached /\ news' = news /\ holder' = holder /\ kind' = kind
    /\ metrics' \in {metrics, attached, FALSE}
    /\ \E place \in DebuggerStages : stage' = [stage EXCEPT ![c] = place]
                                 /\ (place = "attaching" <=> stage[c] = "attaching")
    /\ \E marks \in SUBSET Marks : flags' = [flags EXCEPT ![c] = marks]
    /\ active' \in {active, None, c} /\ dialog' \in {dialog, None, c}
    /\ view' \in {view, None, c}
    /\ stage[c] = "attaching" => Debugger!KeepsLease

LEMMA CallStepTypes ==
    ASSUME ChromeTypes, CallTypes, NEW c \in Requests, CallStep(c)
    PROVE  ChromeTypes' /\ CallTypes'
<1>1. /\ grip' \in [Requests -> States \union {0}] /\ mode' \in [States -> Modes]
      /\ refs' \in [States -> Int] /\ calls' \in Seq(Asked)
  <2>1. CASE Debugger!Release(c)
    BY <2>1, ReleaseTypes DEF CallTypes
  <2>2. CASE Debugger!KeepsLease
    BY <2>2 DEF Debugger!KeepsLease, ChromeTypes, CallTypes
  <2> QED BY <2>1, <2>2 DEF CallStep, LeaseStep
<1>2. ChromeTypes'
  BY <1>1 DEF ChromeTypes, CallStep
<1>3. PICK place \in DebuggerStages : stage' = [stage EXCEPT ![c] = place]
  BY DEF CallStep
<1>4. PICK marks \in SUBSET Marks : flags' = [flags EXCEPT ![c] = marks]
  BY DEF CallStep
<1>5. stage' \in [Requests -> DebuggerStages] /\ flags' \in [Requests -> SUBSET Marks]
  BY <1>3, <1>4 DEF CallTypes
<1>6. CallTypes'
  BY <1>1, <1>5 DEF CallTypes, CallStep
<1> QED BY <1>2, <1>6

-----------------------------------------------------------------------------
(* Which actions are such steps.                                           *)

LEMMA WorkingCalls ==
    ASSUME CallTypes, ChromeTypes, NEW c \in Requests,
           \/ Debugger!Begins(c) \/ Debugger!GivesUp(c) \/ Debugger!Refused(c)
           \/ Debugger!Granted(c) \/ Debugger!Uses(c)
           \/ Debugger!Registers(c) \/ Debugger!EndsObservation(c) \/ Debugger!Starts(c)
           \/ Debugger!EndsDialog(c) \/ Debugger!Enables(c)
           \/ Debugger!Measures(c) \/ Debugger!Sets(c) \/ Debugger!EndsViewport(c)
           \/ Debugger!Restores(c) \/ Debugger!Clears(c) \/ Debugger!Restored(c)
    PROVE  CallStep(c)
<1> USE DEF CallStep, LeaseStep, Debugger!KeepsLease, Debugger!Goes, Debugger!Flag,
            Debugger!chromeVars, Debugger!poolVars, Debugger!mapVars
<1>0. /\ flags = [flags EXCEPT ![c] = flags[c]] /\ flags[c] \in SUBSET Marks
      /\ stage = [stage EXCEPT ![c] = stage[c]] /\ stage[c] \in DebuggerStages
  BY DEF CallTypes
<1>m. \A m : m \subseteq Marks => flags[c] \union m \subseteq Marks /\ flags[c] \ m \subseteq Marks
  BY <1>0
<1>1. CASE Debugger!Begins(c)
  BY <1>0, <1>1 DEF Debugger!Begins, DebuggerStages
<1>2. CASE Debugger!GivesUp(c)
  BY <1>0, <1>2 DEF Debugger!GivesUp, DebuggerStages, Marks
<1>3. CASE Debugger!Refused(c)
  BY <1>0, <1>3 DEF Debugger!Refused, DebuggerStages, Marks
<1>4. CASE Debugger!Granted(c)
  BY <1>0, <1>4 DEF Debugger!Granted, DebuggerStages
<1>5. CASE Debugger!Uses(c)
  BY <1>0, <1>5 DEF Debugger!Uses, DebuggerStages
<1>6. CASE Debugger!Registers(c)
  BY <1>0, <1>6 DEF Debugger!Registers, DebuggerStages
<1>7. CASE Debugger!EndsObservation(c)
  BY <1>0, <1>7 DEF Debugger!EndsObservation, Debugger!Finishes, DebuggerStages, Marks
<1>8. CASE Debugger!Starts(c)
  BY <1>0, <1>8 DEF Debugger!Starts, Debugger!Finishes, DebuggerStages, Marks
<1>9. CASE Debugger!EndsDialog(c)
  BY <1>0, <1>9 DEF Debugger!EndsDialog, DebuggerStages, Marks
<1>10. CASE Debugger!Enables(c)
  BY <1>0, <1>10 DEF Debugger!Enables, DebuggerStages, Marks
<1>11. CASE Debugger!Measures(c)
  BY <1>0, <1>11 DEF Debugger!Measures, DebuggerStages, Marks
<1>12. CASE Debugger!Sets(c)
  BY <1>0, <1>12 DEF Debugger!Sets, DebuggerStages, Marks
<1>13. CASE Debugger!EndsViewport(c)
  BY <1>0, <1>13 DEF Debugger!EndsViewport, DebuggerStages, Marks
<1>14. CASE Debugger!Restores(c)
  BY <1>0, <1>14 DEF Debugger!Restores, DebuggerStages
<1>15. CASE Debugger!Clears(c)
  BY <1>0, <1>15 DEF Debugger!Clears, Debugger!ClearFailed, DebuggerStages, Marks
<1>16. CASE Debugger!Restored(c)
  BY <1>0, <1>16 DEF Debugger!Restored, DebuggerStages
<1> QED
  BY <1>1, <1>2, <1>3, <1>4, <1>5, <1>6, <1>7, <1>8, <1>9, <1>10, <1>11, <1>12, <1>13, <1>14,
     <1>15, <1>16

-----------------------------------------------------------------------------
(* The pool and its line under a step of a call.                           *)

\* Who holds the state that a call gives up.
LEMMA LastUser ==
    ASSUME ChromeTypes, CallTypes, Pool, NEW c \in Requests, stage[c] # "attaching",
           grip[c] # 0, mode[grip[c]] # "lost"
    PROVE  /\ grip[c] \in States /\ grip[c] = holder /\ mode[grip[c]] = "ready"
           /\ refs[grip[c]] = Cardinality(Users(grip[c])) /\ c \in Users(grip[c])
<1>1. grip[c] \in States /\ c \in Users(grip[c])
  BY DEF CallTypes, Users
<1>2. mode[grip[c]] \in Modes
  BY <1>1 DEF ChromeTypes
<1> QED
  BY <1>1, <1>2 DEF Pool, Modes

\* A line does not change with what a call does by itself.
LEMMA LineFrame ==
    ASSUME Line, attached' = attached, calls' = calls, news' = news, mode' = mode, holder' = holder
    PROVE  Line'
BY DEF Line, Attaching, Closing, Whole, Voids, Stales, Void, Stale, AskedFor, Tells, Gone

LEMMA CallStepLine ==
    ASSUME ChromeTypes, CallTypes, Pool, Line, NEW c \in Requests, CallStep(c)
    PROVE  Line'
<1>1. attached' = attached /\ news' = news /\ holder' = holder
  BY DEF CallStep
<1>2. CASE calls' = calls /\ mode' = mode
  BY <1>1, <1>2, LineFrame
<1>3. CASE ~(calls' = calls /\ mode' = mode)
  <2>1. Debugger!Release(c) /\ stage[c] # "attaching"
    BY <1>3 DEF CallStep, LeaseStep, Debugger!KeepsLease
  <2>2. /\ grip[c] # 0 /\ mode[grip[c]] # "lost"
        /\ mode' = [mode EXCEPT ![grip[c]] = "closing"]
        /\ calls' = Append(calls, [does |-> "detach", state |-> grip[c]])
    BY <2>1, <1>3 DEF Debugger!Release
  <2>3. grip[c] \in States /\ grip[c] = holder /\ mode[holder] = "ready"
    BY <2>1, <2>2, LastUser
  <2>4. mode'[holder'] = "closing" /\ holder' # 0
    BY <1>1, <2>2, <2>3 DEF ChromeTypes
  <2>5. Len(calls) = 0 /\ Whole
    BY <2>2, <2>3 DEF Line
  <2>6. Len(calls') = 1 /\ AskedFor(1, "detach")'
    BY <1>1, <2>2, <2>3, <2>5 DEF AskedFor, ChromeTypes
  <2>7. Whole'
    BY <1>1, <2>5 DEF Whole, Gone
  <2> QED
    BY <2>4, <2>6, <2>7 DEF Line, Closing
<1> QED BY <1>2, <1>3

LEMMA UsersAreFinite == \A s \in States : IsFiniteSet(Users(s)) /\ Cardinality(Users(s)) \in Nat
<1> TAKE s \in States
<1>1. IsFiniteSet(Requests) /\ Users(s) \subseteq Requests
  BY DispatchAssumption DEF Users
<1> QED BY <1>1, FS_Subset, FS_CardinalityType

LEMMA CallStepPool ==
    ASSUME ChromeTypes, CallTypes, Pool, NEW c \in Requests, CallStep(c)
    PROVE  Pool'
<1>1. \A d \in Requests : stage'[d] = "attaching" <=> stage[d] = "attaching"
  BY DEF CallStep, CallTypes
<1>2. holder' = holder
  BY DEF CallStep
<1>3. CASE Debugger!KeepsLease
  BY <1>1, <1>2, <1>3 DEF Debugger!KeepsLease, Pool, Users
<1>4. CASE Debugger!Release(c) /\ stage[c] # "attaching"
  <2>1. grip' = [grip EXCEPT ![c] = 0]
    BY <1>4, ReleaseTypes
  <2>2. \A d \in Requests : grip'[d] = IF d = c THEN 0 ELSE grip[d]
    BY <2>1 DEF CallTypes
  <2>3. \A s \in States : s # 0
    BY DEF States, Debugger!States
  <2>4. \A s \in States : Users(s)' = Users(s) \ {c} /\ (s # grip[c] => Users(s)' = Users(s))
    BY <2>2, <2>3 DEF Users
  <2>5. CASE grip[c] = 0 \/ mode[grip[c]] = "lost"
    <3>1. mode' = mode /\ \A s \in States : s # grip[c] => refs'[s] = refs[s]
      BY <1>4, <2>5 DEF Debugger!Release, ChromeTypes
    <3>2. \A s \in States : mode[s] # "lost" => Users(s)' = Users(s) /\ refs'[s] = refs[s]
      BY <2>3, <2>4, <2>5, <3>1
    <3>3. \A s \in States : s # holder' => mode'[s] \in {"none", "lost"}
      BY <1>2, <3>1 DEF Pool
    <3>4. \A s \in States : mode'[s] \in {"none", "closing", "stuck"} => Users(s)' = {}
      BY <3>1, <3>2 DEF Pool
    <3>5. \A s \in States : mode'[s] \in {"attaching", "ready"} =>
            Users(s)' # {} /\ refs'[s] = Cardinality(Users(s)')
      BY <3>1, <3>2 DEF Pool
    <3>6. \A d \in Requests :
            stage'[d] = "attaching" <=> grip'[d] # 0 /\ mode'[grip'[d]] = "attaching"
      BY <1>1, <1>4, <2>2, <3>1 DEF Pool
    <3> QED BY <3>3, <3>4, <3>5, <3>6 DEF Pool
  <2>6. CASE grip[c] # 0 /\ mode[grip[c]] # "lost"
    <3>0. PICK s \in States : s = grip[c]
      BY <2>6 DEF CallTypes
    <3>1. s \in States /\ s = holder /\ mode[s] = "ready" /\ refs[s] = Cardinality(Users(s))
          /\ c \in Users(s)
      BY <1>4, <2>6, <3>0, LastUser
    <3>2. \A t \in States :
            t # s => refs'[t] = refs[t] /\ mode'[t] = mode[t] /\ Users(t)' = Users(t)
      BY <1>4, <2>4, <2>6, <3>0, <3>1 DEF Debugger!Release, ChromeTypes
    <3>3. /\ refs'[s] = refs[s] - 1
          /\ mode'[s] = IF refs[s] = 1 THEN "closing" ELSE "ready"
      BY <1>4, <2>6, <3>0, <3>1 DEF Debugger!Release, ChromeTypes
    <3>4. /\ Cardinality(Users(s)') = Cardinality(Users(s)) - 1
          /\ IsFiniteSet(Users(s)') /\ Cardinality(Users(s)') \in Nat
      BY <2>4, <3>0, <3>1, UsersAreFinite, FS_RemoveElement, FS_CardinalityType
    <3>5. Users(s)' = {} <=> refs[s] = 1
      <4>1. Cardinality(Users(s)') = 0 <=> Users(s)' = {}
        BY <3>4, FS_EmptySet
      <4> QED BY <3>1, <3>4, <4>1, UsersAreFinite
    <3>6. \A t \in States : t # holder' => mode'[t] \in {"none", "lost"}
      BY <1>2, <3>1, <3>2 DEF Pool
    <3>7. \A t \in States : mode'[t] \in {"none", "closing", "stuck"} => Users(t)' = {}
      BY <3>2, <3>3, <3>5 DEF Pool
    <3>8. \A t \in States : mode'[t] \in {"attaching", "ready"} =>
            Users(t)' # {} /\ refs'[t] = Cardinality(Users(t)')
      <4> TAKE t \in States
      <4>1. CASE t = s
        BY <3>1, <3>3, <3>4, <3>5, <4>1
      <4>2. CASE t # s
        BY <3>2, <4>2 DEF Pool
      <4> QED BY <4>1, <4>2
    <3>9. \A d \in Requests :
            stage'[d] = "attaching" <=> grip'[d] # 0 /\ mode'[grip'[d]] = "attaching"
      <4> TAKE d \in Requests
      <4>1. grip[d] \in States \union {0}
        BY DEF CallTypes
      <4>2. CASE d = c
        BY <1>1, <1>4, <2>2, <4>2
      <4>3. CASE d # c /\ grip[d] = s
        BY <1>1, <2>2, <3>1, <3>3, <4>3 DEF Pool
      <4>4. CASE d # c /\ grip[d] # s
        BY <1>1, <2>2, <3>2, <4>1, <4>4 DEF Pool
      <4> QED BY <4>2, <4>3, <4>4
    <3> QED BY <3>6, <3>7, <3>8, <3>9 DEF Pool
  <2> QED BY <2>5, <2>6
<1>5. Debugger!KeepsLease \/ (Debugger!Release(c) /\ stage[c] # "attaching")
  BY DEF CallStep, LeaseStep
<1> QED BY <1>3, <1>4, <1>5

-----------------------------------------------------------------------------
(* An acquisition.                                                         *)

LEMMA AcquiresTypes ==
    ASSUME ChromeTypes, CallTypes, NEW c \in Requests, Debugger!Acquires(c)
    PROVE  ChromeTypes' /\ CallTypes'
<1>1. CASE holder = 0
  <2>1. PICK s \in States :
          /\ mode' = [mode EXCEPT ![s] = "attaching"] /\ refs' = [refs EXCEPT ![s] = 1]
          /\ holder' = s /\ grip' = [grip EXCEPT ![c] = s]
          /\ calls' = Append(calls, [does |-> "attach", state |-> s])
          /\ stage' = [stage EXCEPT ![c] = "attaching"]
    BY <1>1 DEF States, Debugger!Acquires, Debugger!Goes
  <2>2. /\ attached' = attached /\ metrics' = metrics /\ news' = news /\ kind' = kind
        /\ active' = active /\ dialog' = dialog /\ view' = view /\ flags' = flags
    BY DEF Debugger!Acquires, Debugger!mapVars
  <2>3. [does |-> "attach", state |-> s] \in Asked
    BY DEF Asked
  <2>4. calls' \in Seq(Asked) /\ refs' \in [States -> Int]
    BY <2>1, <2>3 DEF ChromeTypes
  <2>5. mode' \in [States -> Modes]
    BY <2>1 DEF ChromeTypes, Modes
  <2>6. ChromeTypes'
    BY <2>1, <2>2, <2>4, <2>5 DEF ChromeTypes
  <2>7. CallTypes'
    BY <2>1, <2>2 DEF CallTypes, DebuggerStages
  <2> QED BY <2>6, <2>7
<1>2. CASE holder # 0 /\ mode[holder] = "stuck"
  BY <1>2 DEF Debugger!Acquires, ChromeTypes, CallTypes, Debugger!Goes, Debugger!mapVars,
              DebuggerStages
<1>3. CASE holder # 0 /\ mode[holder] # "stuck"
  <2>1. ChromeTypes'
    BY <1>3 DEF Debugger!Acquires, ChromeTypes
  <2>2. PICK place \in {"attaching", "granted"} :
          stage' = [stage EXCEPT ![c] = place]
    BY <1>3 DEF Debugger!Acquires, Debugger!Goes
  <2>3. /\ grip' = [grip EXCEPT ![c] = holder] /\ holder \in States
        /\ kind' = kind /\ flags' = flags /\ active' = active /\ dialog' = dialog /\ view' = view
    BY <1>3 DEF Debugger!Acquires, Debugger!mapVars, ChromeTypes
  <2>4. stage' \in [Requests -> DebuggerStages]
    BY <2>2 DEF CallTypes, DebuggerStages
  <2>5. grip' \in [Requests -> States \union {0}]
    BY <2>3 DEF CallTypes
  <2>6. CallTypes'
    BY <2>3, <2>4, <2>5 DEF CallTypes
  <2> QED BY <2>1, <2>6
<1> QED BY <1>1, <1>2, <1>3

\* With nobody there, a new state is asked for behind what is void.
LEMMA AcquiresNew ==
    ASSUME ChromeTypes, CallTypes, Pool, Line, Places, NEW c \in Requests, Debugger!Acquires(c),
           holder = 0
    PROVE  Line' /\ Pool'
<1>1. PICK s \in States :
        /\ mode[s] = "none"
        /\ mode' = [mode EXCEPT ![s] = "attaching"] /\ refs' = [refs EXCEPT ![s] = 1]
        /\ holder' = s /\ grip' = [grip EXCEPT ![c] = s]
        /\ calls' = Append(calls, [does |-> "attach", state |-> s])
        /\ stage' = [stage EXCEPT ![c] = "attaching"]
        /\ attached' = attached /\ news' = news
  BY DEF Debugger!Acquires, Debugger!Goes, States
<1>2. \A t \in States : t # 0
  BY DEF States, Debugger!States
<1>3. \A t \in States : mode'[t] = IF t = s THEN "attaching" ELSE mode[t]
  BY <1>1 DEF ChromeTypes
<1>4. Line'
  <2>1. /\ \A i \in DOMAIN calls : calls[i] \in Asked /\ Void(calls[i])
        /\ \A i \in DOMAIN news : news[i] \in Heard /\ Stale(news[i])
        /\ ~attached
    BY <1>2 DEF Line, Voids, Stales, ChromeTypes
  <2>2. \A i \in DOMAIN calls : Void(calls[i])'
    BY <1>1, <1>3, <2>1 DEF Void, Asked
  <2>3. Stales(Len(news))'
    BY <1>1, <1>2, <1>3, <2>1 DEF Stales, Stale, ChromeTypes, Heard
  <2>4. /\ Len(calls') = Len(calls) + 1 /\ Len(calls) \in Nat
        /\ calls'[Len(calls')] = [does |-> "attach", state |-> s]
        /\ DOMAIN calls' = 1..Len(calls') /\ DOMAIN calls = 1..Len(calls)
        /\ \A i \in DOMAIN calls : calls'[i] = calls[i]
    BY <1>1 DEF ChromeTypes
  <2>5. Voids(Len(calls) - 1)'
    BY <2>2, <2>4 DEF Voids, Void
  <2>6. AskedFor(Len(calls), "attach")'
    BY <1>1, <2>4 DEF AskedFor
  <2>7. Len(calls') > 0
    BY <2>4
  <2> QED BY <1>1, <1>2, <1>3, <2>1, <2>3, <2>5, <2>6, <2>7 DEF Line, Attaching
<1>5. Pool'
  <2>1. grip[c] = 0 /\ stage[c] # "attaching"
    BY DEF Places, Leaseless, Debugger!Acquires
  <2>2. \A d \in Requests : grip'[d] = (IF d = c THEN s ELSE grip[d])
                           /\ stage'[d] = (IF d = c THEN "attaching" ELSE stage[d])
    BY <1>1 DEF CallTypes
  <2>3. Users(s) = {}
    BY <1>1 DEF Pool
  <2>4. Users(s)' = {c} /\ \A t \in States : t # s => Users(t)' = Users(t)
    BY <1>2, <2>1, <2>2, <2>3 DEF Users
  <2>5. Cardinality({c}) = 1
    BY FS_Singleton
  <2>6. \A t \in States : refs'[t] = IF t = s THEN 1 ELSE refs[t]
    BY <1>1 DEF ChromeTypes
  <2>7. \A t \in States : t # holder' => mode'[t] \in {"none", "lost"}
    BY <1>1, <1>2, <1>3 DEF Pool
  <2>8. \A t \in States : mode'[t] \in {"none", "closing", "stuck"} => Users(t)' = {}
    BY <1>3, <2>4 DEF Pool
  <2>9. \A t \in States : mode'[t] \in {"attaching", "ready"} =>
          Users(t)' # {} /\ refs'[t] = Cardinality(Users(t)')
    <3> TAKE t \in States
    <3>1. CASE t = s
      BY <2>4, <2>5, <2>6, <3>1
    <3>2. CASE t # s
      BY <1>3, <2>4, <2>6, <3>2 DEF Pool
    <3> QED BY <3>1, <3>2
  <2>10. \A d \in Requests :
           stage'[d] = "attaching" <=> grip'[d] # 0 /\ mode'[grip'[d]] = "attaching"
    <3> TAKE d \in Requests
    <3>1. grip[d] \in States \union {0} /\ grip[d] # s
      BY <2>3 DEF CallTypes, Users
    <3> QED BY <1>2, <1>3, <2>2, <3>1 DEF Pool
  <2> QED BY <2>7, <2>8, <2>9, <2>10 DEF Pool
<1> QED BY <1>4, <1>5

\* The present state is joined, unless it is being detached (or could not be).
LEMMA AcquiresPresent ==
    ASSUME ChromeTypes, CallTypes, Pool, Line, Places, NEW c \in Requests, Debugger!Acquires(c),
           holder # 0
    PROVE  Line' /\ Pool'
<1>1. /\ attached' = attached /\ calls' = calls /\ news' = news /\ mode' = mode /\ holder' = holder
      /\ mode[holder] # "closing" /\ holder \in States
  BY DEF Debugger!Acquires, Debugger!NotClosing, ChromeTypes
<1>2. Line'
  BY <1>1, LineFrame
<1>3. grip[c] = 0 /\ stage[c] = "acquires"
  BY DEF Places, Leaseless, Debugger!Acquires
<1>4. CASE mode[holder] = "stuck"
  <2>1. refs' = refs /\ grip' = grip /\ stage' = [stage EXCEPT ![c] = "refused"]
    BY <1>4 DEF Debugger!Acquires, Debugger!Goes
  <2>2. \A d \in Requests : stage'[d] = "attaching" <=> stage[d] = "attaching"
    BY <1>3, <2>1 DEF CallTypes
  <2> QED BY <1>1, <1>2, <2>1, <2>2 DEF Pool, Users
<1>5. CASE mode[holder] # "stuck"
  <2>1. /\ refs' = [refs EXCEPT ![holder] = @ + 1] /\ grip' = [grip EXCEPT ![c] = holder]
        /\ stage' = [stage EXCEPT ![c] = IF mode[holder] = "attaching" THEN "attaching"
                                         ELSE "granted"]
    BY <1>5 DEF Debugger!Acquires, Debugger!Goes
  <2>2. mode[holder] \in {"attaching", "ready"}
    BY <1>1, <1>5 DEF Line
  <2>3. \A t \in States : t # 0
    BY DEF States, Debugger!States
  <2>4. \A d \in Requests : grip'[d] = IF d = c THEN holder ELSE grip[d]
    BY <2>1 DEF CallTypes
  <2>5. c \notin Users(holder) /\ Users(holder)' = Users(holder) \union {c}
        /\ \A t \in States : t # holder => Users(t)' = Users(t)
    BY <1>1, <1>3, <2>3, <2>4 DEF Users
  <2>6. Cardinality(Users(holder)') = Cardinality(Users(holder)) + 1
    BY <1>1, <2>5, UsersAreFinite, FS_AddElement
  <2>7. \A t \in States : refs'[t] = IF t = holder THEN refs[t] + 1 ELSE refs[t]
    BY <2>1 DEF ChromeTypes
  <2>8. \A t \in States : mode'[t] \in {"none", "closing", "stuck"} => Users(t)' = {}
    BY <1>1, <2>2, <2>5 DEF Pool
  <2>9. \A t \in States : mode'[t] \in {"attaching", "ready"} =>
          Users(t)' # {} /\ refs'[t] = Cardinality(Users(t)')
    <3> TAKE t \in States
    <3>1. CASE t = holder
      BY <1>1, <2>2, <2>5, <2>6, <2>7, <3>1 DEF Pool
    <3>2. CASE t # holder
      BY <1>1, <2>5, <2>7, <3>2 DEF Pool
    <3> QED BY <3>1, <3>2
  <2>10. \A d \in Requests :
           stage'[d] = "attaching" <=> grip'[d] # 0 /\ mode'[grip'[d]] = "attaching"
    BY <1>1, <2>1, <2>3, <2>4 DEF Pool, CallTypes
  <2>11. \A t \in States : t # holder' => mode'[t] \in {"none", "lost"}
    BY <1>1 DEF Pool
  <2> QED BY <1>2, <2>8, <2>9, <2>10, <2>11 DEF Pool
<1> QED BY <1>4, <1>5

-----------------------------------------------------------------------------
(* Chrome.                                                                 *)

\* What an answer of Chrome does to the line, in plain facts.
LEMMA ChromeEffect ==
    ASSUME ChromeTypes, Debugger!Chrome
    PROVE  \E done \in BOOLEAN :
             /\ Len(calls) \in Nat /\ Len(calls) > 0 /\ Len(calls') = Len(calls) - 1
             /\ DOMAIN calls = 1..Len(calls) /\ DOMAIN calls' = 1..Len(calls')
             /\ \A i \in DOMAIN calls' : calls'[i] = calls[i + 1]
             /\ calls[1] \in Asked
             /\ done => (attached <=> calls[1].does = "detach")
             /\ attached' = (IF done THEN calls[1].does = "attach" ELSE attached)
             /\ metrics' = (metrics /\ attached')
             /\ Len(news) \in Nat /\ Len(news') = Len(news) + 1
             /\ DOMAIN news = 1..Len(news) /\ DOMAIN news' = 1..Len(news')
             /\ \A i \in DOMAIN news : news'[i] = news[i]
             /\ news'[Len(news')] = [of |-> calls[1].does, state |-> calls[1].state, done |-> done]
             /\ mode' = mode /\ holder' = holder /\ refs' = refs
<1>1. calls # <<>> /\ calls' = Tail(calls) /\ mode' = mode /\ holder' = holder /\ refs' = refs
  BY DEF Debugger!Chrome, Debugger!poolVars
<1>2. PICK done \in BOOLEAN :
        /\ done => (attached <=> Head(calls).does = "detach")
        /\ attached' = (IF done THEN Head(calls).does = "attach" ELSE attached)
        /\ metrics' = (metrics /\ attached')
        /\ news' = Append(news, [of |-> Head(calls).does, state |-> Head(calls).state,
                                 done |-> done])
  BY DEF Debugger!Chrome
<1>3. calls \in Seq(Asked) /\ news \in Seq(Heard)
  BY DEF ChromeTypes
<1>4. /\ Len(calls) \in Nat /\ Len(calls) > 0 /\ Len(calls') = Len(calls) - 1
      /\ DOMAIN calls = 1..Len(calls) /\ DOMAIN calls' = 1..Len(calls')
      /\ \A i \in DOMAIN calls' : calls'[i] = calls[i + 1]
      /\ calls[1] \in Asked /\ Head(calls) = calls[1]
  BY <1>1, <1>3
<1>5. /\ Len(news) \in Nat /\ Len(news') = Len(news) + 1
      /\ DOMAIN news = 1..Len(news) /\ DOMAIN news' = 1..Len(news')
      /\ \A i \in DOMAIN news : news'[i] = news[i]
      /\ news'[Len(news')] = [of |-> Head(calls).does, state |-> Head(calls).state, done |-> done]
  <2>1. [of |-> Head(calls).does, state |-> Head(calls).state, done |-> done] \in Heard
    BY <1>4 DEF Asked, Heard
  <2> QED BY <1>2, <1>3, <2>1
<1> QED BY <1>1, <1>2, <1>4, <1>5

LEMMA ChromeKeepsTypes ==
    ASSUME ChromeTypes, CallTypes, Debugger!Chrome
    PROVE  ChromeTypes' /\ CallTypes'
<1>1. calls' \in Seq(Asked)
  BY DEF Debugger!Chrome, ChromeTypes
<1>2. PICK done \in BOOLEAN :
        /\ attached' = (IF done THEN Head(calls).does = "attach" ELSE attached)
        /\ metrics' = (metrics /\ attached')
        /\ news' = Append(news, [of |-> Head(calls).does, state |-> Head(calls).state,
                                 done |-> done])
  BY DEF Debugger!Chrome
<1>3. Head(calls) \in Asked
  BY DEF Debugger!Chrome, ChromeTypes
<1>4. Head(calls).does \in {"attach", "detach"} /\ Head(calls).state \in States
  BY <1>3 DEF Asked
<1>5. [of |-> Head(calls).does, state |-> Head(calls).state, done |-> done] \in Heard
  BY <1>4 DEF Heard
<1>6. news' \in Seq(Heard)
  BY <1>2, <1>5 DEF ChromeTypes
<1>7. \A s \in States : s # 0
  BY DEF States, Debugger!States
<1>8. \A i \in DOMAIN news' : news'[i].of # "gone" => news'[i].state # 0
  BY <1>2, <1>4, <1>5, <1>7 DEF ChromeTypes
<1>9. attached' \in BOOLEAN /\ metrics' \in BOOLEAN
  BY <1>2 DEF ChromeTypes
<1>10. ChromeTypes'
  BY <1>1, <1>6, <1>8, <1>9 DEF ChromeTypes, Debugger!Chrome, Debugger!poolVars
<1> QED
  BY <1>10 DEF CallTypes, Debugger!Chrome, Debugger!mapVars

LEMMA ChromeKeepsLine ==
    ASSUME ChromeTypes, Line, Debugger!Chrome
    PROVE  Line'
<1>1. PICK done \in BOOLEAN :
        /\ Len(calls) \in Nat /\ Len(calls) > 0 /\ Len(calls') = Len(calls) - 1
        /\ DOMAIN calls = 1..Len(calls) /\ DOMAIN calls' = 1..Len(calls')
        /\ \A i \in DOMAIN calls' : calls'[i] = calls[i + 1]
        /\ calls[1] \in Asked
        /\ done => (attached <=> calls[1].does = "detach")
        /\ attached' = (IF done THEN calls[1].does = "attach" ELSE attached)
        /\ metrics' = (metrics /\ attached')
        /\ Len(news) \in Nat /\ Len(news') = Len(news) + 1
        /\ DOMAIN news = 1..Len(news) /\ DOMAIN news' = 1..Len(news')
        /\ \A i \in DOMAIN news : news'[i] = news[i]
        /\ news'[Len(news')] = [of |-> calls[1].does, state |-> calls[1].state, done |-> done]
        /\ mode' = mode /\ holder' = holder /\ refs' = refs
  BY ChromeEffect
<1>2. attached \in BOOLEAN
  BY DEF ChromeTypes
\* What is void fails, and leaves a stale answer behind the others.
<1>3. ASSUME Void(calls[1]), ~attached, Stales(Len(news))
      PROVE  ~attached' /\ Stales(Len(news))'
  <2>1. ~done
    BY <1>1, <1>3 DEF Void
  <2>2. Stale(news[Len(news)])'
    BY <1>1, <1>3, <2>1 DEF Void, Stale
  <2>3. \A i \in DOMAIN news : Stale(news[i])'
    BY <1>1, <1>3 DEF Stales, Stale
  <2> QED BY <1>1, <1>3, <2>1, <2>2, <2>3 DEF Stales, Stale
<1>4. CASE holder = 0 /\ ~attached /\ Voids(Len(calls)) /\ Stales(Len(news))
  <2>1. Void(calls[1])
    BY <1>1, <1>4 DEF Voids
  <2>2. Voids(Len(calls))'
    BY <1>1, <1>4 DEF Voids, Void
  <2> QED BY <1>1, <1>3, <1>4, <2>1, <2>2 DEF Line
<1>5. CASE holder # 0 /\ mode[holder] = "attaching" /\ Attaching
  <2>1. /\ AskedFor(Len(calls), "attach") /\ Voids(Len(calls) - 1)
        /\ ~attached /\ Stales(Len(news))
    BY <1>1, <1>5 DEF Attaching
  <2>2. CASE Len(calls) = 1
    <3>1. (Tells(Len(news), "attach") /\ (news[Len(news)].done <=> attached))'
      BY <1>1, <1>2, <2>1, <2>2 DEF Tells, AskedFor
    <3>2. Stales(Len(news) - 1)'
      BY <1>1, <2>1 DEF Stales, Stale
    <3> QED BY <1>1, <1>5, <2>2, <3>1, <3>2 DEF Line, Attaching
  <2>3. CASE Len(calls) > 1
    <3>1. Void(calls[1])
      BY <1>1, <2>1, <2>3 DEF Voids
    <3>2. AskedFor(Len(calls), "attach")'
      BY <1>1, <2>1, <2>3, SMTT(30) DEF AskedFor
    <3>3. Voids(Len(calls) - 1)'
      BY <1>1, <2>1 DEF Voids, Void
    <3> QED BY <1>1, <1>3, <1>5, <2>1, <2>3, <3>1, <3>2, <3>3 DEF Line, Attaching
  <2> QED BY <1>1, <2>2, <2>3
<1>6. CASE holder # 0 /\ mode[holder] \in {"ready", "stuck"} /\ Len(calls) = 0 /\ Whole
  BY <1>1, <1>6
<1>7. CASE holder # 0 /\ mode[holder] = "closing" /\ Closing
  <2>1. Len(calls) = 1 /\ AskedFor(1, "detach") /\ Whole
    BY <1>1, <1>7 DEF Closing
  <2>2. CASE attached
    <3>1. Len(news') = 1 /\ Len(calls') = 0
      BY <1>1, <2>1, <2>2 DEF Whole
    <3>2. news'[1] = [of |-> calls[1].does, state |-> calls[1].state, done |-> done]
      BY <1>1, <3>1
    <3>3. Tells(1, "detach")' /\ news'[1].done = done
      BY <1>1, <2>1, <3>2 DEF Tells, AskedFor
    <3>4. done <=> ~attached'
      BY <1>1, <1>2, <2>1, <2>2 DEF AskedFor
    <3>5. Closing'
      BY <3>1, <3>2, <3>3, <3>4 DEF Closing
    <3> QED BY <1>1, <1>7, <3>5 DEF Line
  <2>3. CASE ~attached
    <3>1. ~done
      BY <1>1, <2>1, <2>3, SMTT(30) DEF AskedFor
    <3>2. Len(news) = 1 /\ Gone(1)
      BY <2>1, <2>3 DEF Whole
    <3>3. Len(news') = 2 /\ Len(calls') = 0 /\ ~attached'
      BY <1>1, <2>1, <2>3, <3>1, <3>2
    <3>4. Gone(1)'
      BY <1>1, <3>2 DEF Gone
    <3>5. news'[2] = [of |-> calls[1].does, state |-> calls[1].state, done |-> done]
      BY <1>1, <3>3
    <3>6. Tells(2, "detach")' /\ ~news'[2].done
      BY <1>1, <2>1, <3>1, <3>5 DEF Tells, AskedFor
    <3>7. Closing'
      BY <3>3, <3>4, <3>6 DEF Closing
    <3> QED BY <1>1, <1>7, <3>7 DEF Line
  <2> QED BY <2>2, <2>3
<1> QED BY <1>4, <1>5, <1>6, <1>7 DEF Line

LEMMA TakesAwayKeepsTypes ==
    ASSUME ChromeTypes, CallTypes, Debugger!TakesAway
    PROVE  ChromeTypes' /\ CallTypes'
<1>1. [of |-> "gone", state |-> 0, done |-> TRUE] \in Heard
  BY DEF Heard
<1>2. /\ attached' = FALSE /\ metrics' = FALSE /\ calls' = calls /\ mode' = mode
      /\ refs' = refs /\ holder' = holder
      /\ news' = Append(news, [of |-> "gone", state |-> 0, done |-> TRUE])
  BY DEF Debugger!TakesAway, Debugger!poolVars
<1>3. /\ news' \in Seq(Heard)
      /\ \A i \in DOMAIN news' : news'[i].of # "gone" => news'[i].state # 0
  BY <1>1, <1>2 DEF ChromeTypes
<1>4. ChromeTypes'
  BY <1>2, <1>3 DEF ChromeTypes
<1> QED BY <1>4 DEF CallTypes, Debugger!TakesAway, Debugger!mapVars

LEMMA TakesAwayKeepsLine ==
    ASSUME ChromeTypes, Line, Debugger!TakesAway
    PROVE  Line'
<1>1. /\ attached /\ ~attached'
      /\ Len(news) \in Nat /\ Len(news') = Len(news) + 1
      /\ DOMAIN news = 1..Len(news) /\ DOMAIN news' = 1..Len(news')
      /\ \A i \in DOMAIN news : news'[i] = news[i]
      /\ Gone(Len(news))' /\ calls' = calls /\ mode' = mode /\ holder' = holder
  BY DEF Debugger!TakesAway, ChromeTypes, Debugger!poolVars, Gone
<1>2. CASE holder # 0 /\ mode[holder] = "attaching" /\ Attaching
  <2>1. /\ Len(calls) = 0 /\ Len(news) > 0 /\ Stales(Len(news) - 1)
        /\ Tells(Len(news), "attach") /\ news[Len(news)].done
    BY <1>1, <1>2 DEF Attaching, Tells, ChromeTypes
  <2>2. /\ Stales(Len(news) - 2)' /\ Len(news') > 1
        /\ (Tells(Len(news) - 1, "attach") /\ news[Len(news) - 1].done)'
    BY <1>1, <2>1 DEF Stales, Stale, Tells
  <2> QED BY <1>1, <1>2, <2>1, <2>2 DEF Line, Attaching
<1>3. CASE holder # 0 /\ mode[holder] \in {"ready", "stuck"} /\ Len(calls) = 0 /\ Whole
  BY <1>1, <1>3 DEF Line, Whole
<1>4. CASE holder # 0 /\ mode[holder] = "closing" /\ Closing
  <2>1. CASE Len(calls) = 1 /\ AskedFor(1, "detach") /\ Whole
    BY <1>1, <1>4, <2>1 DEF Line, Closing, Whole, AskedFor
  <2>2. CASE Len(calls) = 0 /\ Len(news) = 1 /\ Tells(1, "detach") /\ (news[1].done <=> ~attached)
    <3>1. Len(news') = 2 /\ (Tells(1, "detach") /\ ~news[1].done)' /\ Gone(2)'
      BY <1>1, <2>2 DEF Tells
    <3> QED BY <1>1, <1>4, <2>2, <3>1 DEF Line, Closing
  <2> QED BY <1>1, <1>4, <2>1, <2>2 DEF Closing
<1> QED BY <1>1, <1>2, <1>3, <1>4 DEF Line

-----------------------------------------------------------------------------
(* What the worker hears.                                                  *)

\* The line without its first piece of news.
LEMMA HearsEffect ==
    ASSUME ChromeTypes, Debugger!Hears
    PROVE  /\ Len(news) \in Nat /\ Len(news) > 0 /\ Len(news') = Len(news) - 1
           /\ DOMAIN news = 1..Len(news) /\ DOMAIN news' = 1..Len(news')
           /\ \A i \in DOMAIN news' : news'[i] = news[i + 1]
           /\ news[1] \in Heard /\ Head(news) = news[1] /\ news' \in Seq(Heard)
           /\ \A i \in DOMAIN news' : news'[i].of # "gone" => news'[i].state # 0
           /\ attached' = attached /\ metrics' = metrics /\ calls' = calls /\ refs' = refs
           /\ kind' = kind /\ view' = view
<1>1. /\ news \in Seq(Heard) /\ news # <<>> /\ news' = Tail(news)
      /\ \A i \in DOMAIN news : news[i].of # "gone" => news[i].state # 0
  BY DEF ChromeTypes, Debugger!Hears
<1>2. /\ Len(news) \in Nat /\ Len(news) > 0 /\ Len(news') = Len(news) - 1
      /\ DOMAIN news = 1..Len(news) /\ DOMAIN news' = 1..Len(news')
      /\ \A i \in DOMAIN news' : news'[i] = news[i + 1]
      /\ news[1] \in Heard /\ Head(news) = news[1] /\ news' \in Seq(Heard)
  BY <1>1
<1> QED BY <1>1, <1>2 DEF Debugger!Hears

\* What the head of the line can be.
HeardFirst ==
    \/ Stale(news[1])
    \/ /\ holder # 0 /\ mode[holder] = "attaching" /\ Tells(1, "attach")
       /\ Len(calls) = 0
       /\ \/ Len(news) = 1 /\ (attached <=> news[1].done)
          \/ Len(news) = 2 /\ news[1].done /\ ~attached /\ Gone(2)
    \/ /\ holder # 0 /\ mode[holder] = "closing" /\ Tells(1, "detach")
       /\ Len(calls) = 0
       /\ \/ Len(news) = 1 /\ (attached <=> ~news[1].done)
          \/ Len(news) = 2 /\ ~news[1].done /\ ~attached /\ Gone(2)
    \/ /\ holder # 0 /\ Gone(1) /\ ~attached
       /\ \/ mode[holder] \in {"ready", "stuck"} /\ Len(calls) = 0 /\ Len(news) = 1
          \/ mode[holder] = "closing" /\ Len(calls) = 1 /\ AskedFor(1, "detach") /\ Len(news) = 1
          \/ mode[holder] = "closing" /\ Len(calls) = 0 /\ Len(news) = 2
             /\ Tells(2, "detach") /\ ~news[2].done

LEMMA FirstOfTheLine ==
    ASSUME ChromeTypes, Line, Len(news) > 0
    PROVE  HeardFirst
<1>1. Len(news) \in Nat /\ DOMAIN news = 1..Len(news) /\ attached \in BOOLEAN
      /\ news[1] \in Heard
  BY DEF ChromeTypes
<1>2. CASE holder = 0 /\ ~attached /\ Voids(Len(calls)) /\ Stales(Len(news))
  BY <1>1, <1>2 DEF HeardFirst, Stales
<1>3. CASE holder # 0 /\ mode[holder] = "attaching" /\ Attaching
  <2>1. CASE Stales(Len(news))
    BY <1>1, <2>1 DEF HeardFirst, Stales
  <2>2. CASE /\ Len(calls) = 0 /\ Len(news) > 0 /\ Stales(Len(news) - 1)
             /\ Tells(Len(news), "attach") /\ (news[Len(news)].done <=> attached)
    <3>1. CASE Len(news) = 1
      BY <1>1, <1>3, <2>2, <3>1 DEF HeardFirst, Tells
    <3>2. CASE Len(news) > 1
      BY <1>1, <2>2, <3>2 DEF HeardFirst, Stales
    <3> QED BY <1>1, <3>1, <3>2
  <2>3. CASE /\ Len(calls) = 0 /\ Len(news) > 1 /\ Stales(Len(news) - 2)
             /\ Tells(Len(news) - 1, "attach") /\ news[Len(news) - 1].done
             /\ Gone(Len(news)) /\ ~attached
    <3>1. CASE Len(news) = 2
      BY <1>1, <1>3, <2>3, <3>1 DEF HeardFirst, Tells
    <3>2. CASE Len(news) > 2
      BY <1>1, <2>3, <3>2 DEF HeardFirst, Stales
    <3> QED BY <1>1, <2>3, <3>1, <3>2
  <2> QED BY <1>3, <2>1, <2>2, <2>3 DEF Attaching
<1>4. CASE holder # 0 /\ mode[holder] \in {"ready", "stuck"} /\ Len(calls) = 0 /\ Whole
  BY <1>1, <1>4 DEF HeardFirst, Whole
<1>5. CASE holder # 0 /\ mode[holder] = "closing" /\ Closing
  BY <1>1, <1>5 DEF HeardFirst, Closing, Whole, Tells, Gone
<1> QED BY <1>2, <1>3, <1>4, <1>5 DEF Line

\* A stale answer changes nothing but the line.
LEMMA HearsStale ==
    ASSUME DebuggerInvariant, Debugger!Hears, Stale(news[1])
    PROVE  DebuggerInvariant'
<1> USE DEF DebuggerInvariant
<1>1. /\ Len(news) \in Nat /\ Len(news) > 0 /\ Len(news') = Len(news) - 1
      /\ DOMAIN news = 1..Len(news) /\ DOMAIN news' = 1..Len(news')
      /\ \A i \in DOMAIN news' : news'[i] = news[i + 1]
      /\ news' \in Seq(Heard)
      /\ \A i \in DOMAIN news' : news'[i].of # "gone" => news'[i].state # 0
      /\ attached' = attached /\ metrics' = metrics /\ calls' = calls /\ refs' = refs
      /\ kind' = kind /\ view' = view
  BY HearsEffect
<1>2. Debugger!HearsDetach(news[1].state, news[1].done)
  BY HearsEffect DEF Debugger!Hears, Stale
<1>3. /\ mode' = mode /\ holder' = holder /\ stage' = stage /\ grip' = grip /\ active' = active
      /\ dialog' = dialog /\ flags' = flags
  BY <1>2 DEF Debugger!HearsDetach, Stale
<1>4. ChromeTypes'
  BY <1>1, <1>3 DEF ChromeTypes
<1>5. Line'
  <2>1. ASSUME NEW k \in Int, Stales(k) PROVE Stales(k - 1)'
    BY <1>1, <1>3, <2>1 DEF Stales, Stale
  <2>2. CASE holder = 0 /\ ~attached /\ Voids(Len(calls)) /\ Stales(Len(news))
    BY <1>1, <1>3, <2>1, <2>2 DEF Line, Voids, Void
  <2>3. CASE holder # 0 /\ mode[holder] = "attaching" /\ Attaching
    <3>1. CASE /\ Len(calls) > 0 /\ AskedFor(Len(calls), "attach") /\ Voids(Len(calls) - 1)
               /\ ~attached /\ Stales(Len(news))
      BY <1>1, <1>3, <2>1, <2>3, <3>1 DEF Line, Attaching, AskedFor, Voids, Void
    <3>2. CASE /\ Len(calls) = 0 /\ Len(news) > 0 /\ Stales(Len(news) - 1)
               /\ Tells(Len(news), "attach") /\ (news[Len(news)].done <=> attached)
      <4>1. Len(news) > 1
        BY <1>1, <3>2 DEF Tells, Stale
      <4>2. /\ Stales(Len(news) - 1)'
            /\ (Tells(Len(news), "attach") /\ (news[Len(news)].done <=> attached))'
        BY <1>1, <1>3, <2>1, <3>2, <4>1 DEF Tells
      <4> QED BY <1>1, <1>3, <2>3, <3>2, <4>1, <4>2 DEF Line, Attaching
    <3>3. CASE /\ Len(calls) = 0 /\ Len(news) > 1 /\ Stales(Len(news) - 2)
               /\ Tells(Len(news) - 1, "attach") /\ news[Len(news) - 1].done
               /\ Gone(Len(news)) /\ ~attached
      <4>1. Len(news) > 2
        BY <1>1, <3>3 DEF Tells, Stale
      <4>2. /\ Stales(Len(news) - 2)'
            /\ (Tells(Len(news) - 1, "attach") /\ news[Len(news) - 1].done)'
            /\ Gone(Len(news))'
        BY <1>1, <1>3, <2>1, <3>3, <4>1, SMTT(30) DEF Tells, Gone
      <4> QED BY <1>1, <1>3, <2>3, <3>3, <4>1, <4>2 DEF Line, Attaching
    <3> QED BY <2>3, <3>1, <3>2, <3>3 DEF Attaching
  <2>4. CASE holder # 0 /\ mode[holder] \in {"ready", "stuck"} /\ Len(calls) = 0 /\ Whole
    BY <1>1, <2>4 DEF Whole, Gone, Stale
  <2>5. CASE holder # 0 /\ mode[holder] = "closing" /\ Closing
    BY <1>1, <2>5 DEF Closing, Whole, Gone, Tells, Stale
  <2> QED BY <2>2, <2>3, <2>4, <2>5 DEF Line
<1>6. CallTypes'
  BY <1>1, <1>3 DEF CallTypes
<1>7. Pool'
  <2>1. \A s \in States : Users(s)' = Users(s)
    BY <1>3 DEF Users
  <2>2. \A s \in States :
          mode'[s] \in {"attaching", "ready"} => Users(s)' # {} /\ refs'[s] = Cardinality(Users(s)')
    BY <1>1, <1>3, <2>1 DEF Pool
  <2> QED BY <1>1, <1>3, <2>1, <2>2 DEF Pool
<1>8. Places' /\ Overrides'
  BY <1>1, <1>3 DEF Places, Overrides
<1> QED BY <1>4, <1>5, <1>6, <1>7, <1>8

\* The attachment: whoever waits for it goes on, with it or without.
LEMMA HearsAttachKeeps ==
    ASSUME DebuggerInvariant, Debugger!Hears, ~Stale(news[1]), news[1].of = "attach"
    PROVE  DebuggerInvariant'
<1> USE DEF DebuggerInvariant
<1> DEFINE done == news[1].done
<1>1. /\ Len(news) \in Nat /\ Len(news) > 0 /\ Len(news') = Len(news) - 1
      /\ DOMAIN news = 1..Len(news) /\ DOMAIN news' = 1..Len(news')
      /\ \A i \in DOMAIN news' : news'[i] = news[i + 1]
      /\ news[1] \in Heard /\ news' \in Seq(Heard)
      /\ \A i \in DOMAIN news' : news'[i].of # "gone" => news'[i].state # 0
      /\ attached' = attached /\ metrics' = metrics /\ calls' = calls /\ refs' = refs
      /\ kind' = kind /\ view' = view
  BY HearsEffect
<1>2. /\ holder # 0 /\ mode[holder] = "attaching" /\ news[1].state = holder /\ Len(calls) = 0
      /\ \/ Len(news) = 1 /\ (attached <=> done)
         \/ Len(news) = 2 /\ done /\ ~attached /\ Gone(2)
  BY <1>1, FirstOfTheLine DEF HeardFirst, Tells, Gone
<1>3. Debugger!HearsAttach(holder, done)
  BY <1>2, HearsEffect DEF Debugger!Hears
<1>4. holder \in States /\ \A s \in States : s # 0
  BY <1>2 DEF ChromeTypes, States, Debugger!States
<1>5. active' = active /\ dialog' = dialog /\ flags' = flags
  BY <1>3 DEF Debugger!HearsAttach
<1>6. \A c \in Requests : stage[c] = "attaching" <=> grip[c] = holder
  BY <1>2, <1>4 DEF Pool, CallTypes
<1>7. CASE done
  <2>1. /\ mode' = [mode EXCEPT ![holder] = "ready"] /\ holder' = holder
        /\ Debugger!Resume(holder, "granted")
    BY <1>2, <1>3, <1>7 DEF Debugger!HearsAttach
  <2>2. /\ stage' = [c \in Requests |-> IF stage[c] = "attaching" THEN "granted" ELSE stage[c]]
        /\ grip' = [c \in Requests |-> grip[c]]
    BY <1>6, <2>1 DEF Debugger!Resume
  <2>3. grip' = grip
    BY <2>2 DEF CallTypes
  <2>4. \A s \in States : mode'[s] = IF s = holder THEN "ready" ELSE mode[s]
    BY <2>1 DEF ChromeTypes
  <2>5. ChromeTypes'
    BY <1>1, <1>4, <2>1 DEF ChromeTypes, Modes
  <2>6. CallTypes'
    BY <1>1, <1>5, <2>2, <2>3 DEF CallTypes, DebuggerStages
  <2>7. Line'
    BY <1>1, <1>2, <1>4, <1>7, <2>1, <2>4 DEF Line, Whole, Gone
  <2>8. Pool'
    <3>1. \A s \in States : Users(s)' = Users(s)
      BY <2>3 DEF Users
    <3>2. \A s \in States : s # holder' => mode'[s] \in {"none", "lost"}
      BY <2>1, <2>4 DEF Pool
    <3>3. \A s \in States : mode'[s] \in {"none", "closing", "stuck"} => Users(s)' = {}
      BY <2>4, <3>1 DEF Pool
    <3>4. \A s \in States : mode'[s] \in {"attaching", "ready"} =>
            Users(s)' # {} /\ refs'[s] = Cardinality(Users(s)')
      BY <1>1, <1>2, <2>4, <3>1 DEF Pool
    <3>5. \A c \in Requests : stage'[c] # "attaching"
      BY <2>2
    <3>6. \A s \in States : mode'[s] # "attaching"
      BY <2>4 DEF Pool
    <3>7. \A c \in Requests :
            stage'[c] = "attaching" <=> grip'[c] # 0 /\ mode'[grip'[c]] = "attaching"
      BY <2>3, <3>5, <3>6 DEF CallTypes
    <3> QED BY <3>2, <3>3, <3>4, <3>7 DEF Pool
  <2>9. Places'
    BY <1>1, <1>5, <2>2, <2>3 DEF Places, Leaseless, Unregistered, Observing
  <2>10. Overrides'
    BY <1>1, <1>5, <2>2 DEF Overrides, ViewStages
  <2> QED BY <2>5, <2>6, <2>7, <2>8, <2>9, <2>10
<1>8. CASE ~done
  <2>1. /\ mode' = [mode EXCEPT ![holder] = "lost"] /\ holder' = 0
        /\ Debugger!Resume(holder, "refused")
    BY <1>2, <1>3, <1>8 DEF Debugger!HearsAttach
  <2>2. /\ stage' = [c \in Requests |-> IF stage[c] = "attaching" THEN "refused" ELSE stage[c]]
        /\ grip' = [c \in Requests |-> IF stage[c] = "attaching" THEN 0 ELSE grip[c]]
    BY <1>6, <2>1 DEF Debugger!Resume
  <2>3. \A s \in States : mode'[s] = IF s = holder THEN "lost" ELSE mode[s]
    BY <2>1 DEF ChromeTypes
  <2>4. ChromeTypes'
    BY <1>1, <1>4, <2>1 DEF ChromeTypes, Modes
  <2>5. CallTypes'
    BY <1>1, <1>5, <2>2 DEF CallTypes, DebuggerStages
  <2>6. Len(news') = 0 /\ Len(calls') = 0 /\ ~attached'
    BY <1>1, <1>2, <1>8
  <2>7. Line'
    BY <1>1, <2>1, <2>4, <2>6 DEF Line, Voids, Stales, ChromeTypes
  <2>8. Pool'
    <3>1. \A s \in States : mode'[s] \in {"none", "lost"}
      BY <2>3 DEF Pool
    <3>2. \A s \in States : s # holder => Users(s)' = Users(s)
      BY <1>4, <1>6, <2>2 DEF Users
    <3>3. \A s \in States : mode'[s] = "none" => Users(s)' = {}
      BY <2>3, <3>2 DEF Pool
    <3>4. \A c \in Requests : stage'[c] # "attaching"
      BY <2>2
    <3>5. \A c \in Requests :
            stage'[c] = "attaching" <=> grip'[c] # 0 /\ mode'[grip'[c]] = "attaching"
      BY <2>5, <3>1, <3>4 DEF CallTypes
    <3> QED BY <3>1, <3>3, <3>5 DEF Pool
  <2>9. Places'
    BY <1>1, <1>5, <2>2 DEF Places, Leaseless, Unregistered, Observing
  <2>10. Overrides'
    BY <1>1, <1>5, <2>2 DEF Overrides, ViewStages
  <2> QED BY <2>4, <2>5, <2>7, <2>8, <2>9, <2>10
<1> QED BY <1>7, <1>8

\* The detachment: nobody uses the state any more.
LEMMA HearsDetachKeeps ==
    ASSUME DebuggerInvariant, Debugger!Hears, ~Stale(news[1]), news[1].of = "detach"
    PROVE  DebuggerInvariant'
<1> USE DEF DebuggerInvariant
<1> DEFINE done == news[1].done
<1>1. /\ Len(news) \in Nat /\ Len(news) > 0 /\ Len(news') = Len(news) - 1
      /\ DOMAIN news = 1..Len(news) /\ DOMAIN news' = 1..Len(news')
      /\ \A i \in DOMAIN news' : news'[i] = news[i + 1]
      /\ news[1] \in Heard /\ news' \in Seq(Heard)
      /\ \A i \in DOMAIN news' : news'[i].of # "gone" => news'[i].state # 0
      /\ attached' = attached /\ metrics' = metrics /\ calls' = calls /\ refs' = refs
      /\ kind' = kind /\ view' = view
  BY HearsEffect
<1>2. /\ holder # 0 /\ mode[holder] = "closing" /\ news[1].state = holder /\ Len(calls) = 0
      /\ \/ Len(news) = 1 /\ (attached <=> ~done)
         \/ Len(news) = 2 /\ ~done /\ ~attached /\ Gone(2)
  BY <1>1, FirstOfTheLine DEF HeardFirst, Tells, Gone
<1>3. Debugger!HearsDetach(holder, done)
  BY <1>2, HearsEffect DEF Debugger!Hears
<1>4. holder \in States /\ \A s \in States : s # 0
  BY <1>2 DEF ChromeTypes, States, Debugger!States
<1>5. /\ active' = active /\ dialog' = dialog /\ flags' = flags /\ stage' = stage /\ grip' = grip
      /\ mode' = [mode EXCEPT ![holder] = IF done THEN "lost" ELSE "stuck"]
      /\ holder' = IF done THEN 0 ELSE holder
  BY <1>2, <1>3 DEF Debugger!HearsDetach
<1>6. \A s \in States : mode'[s] = IF s = holder THEN IF done THEN "lost" ELSE "stuck" ELSE mode[s]
  BY <1>5 DEF ChromeTypes
<1>7. ChromeTypes'
  BY <1>1, <1>4, <1>5 DEF ChromeTypes, Modes
<1>8. CallTypes' /\ Places' /\ Overrides'
  BY <1>1, <1>5 DEF CallTypes, Places, Overrides
<1>9. Line'
  <2>1. CASE done
    <3>1. Len(news) = 1 /\ ~attached
      BY <1>2, <2>1
    <3>2. Len(news') = 0 /\ Len(calls') = 0 /\ ~attached' /\ holder' = 0
      BY <1>1, <1>2, <1>5, <2>1, <3>1
    <3> QED BY <1>7, <3>2 DEF Line, Voids, Stales, ChromeTypes
  <2>2. CASE ~done
    <3>1. holder' # 0 /\ mode'[holder'] = "stuck" /\ Len(calls') = 0
      BY <1>1, <1>2, <1>4, <1>5, <1>6, <2>2
    <3>2. Whole'
      BY <1>1, <1>2, <2>2 DEF Whole, Gone
    <3> QED BY <3>1, <3>2 DEF Line
  <2> QED BY <2>1, <2>2
<1>10. Pool'
  <2>1. \A s \in States : Users(s)' = Users(s)
    BY <1>5 DEF Users
  <2>2. Users(holder) = {}
    BY <1>2, <1>4 DEF Pool
  <2>3. \A s \in States : s # holder' => mode'[s] \in {"none", "lost"}
    BY <1>4, <1>5, <1>6 DEF Pool
  <2>4. \A s \in States : mode'[s] \in {"none", "closing", "stuck"} => Users(s)' = {}
    BY <1>6, <2>1, <2>2 DEF Pool
  <2>5. \A s \in States : mode'[s] \notin {"attaching", "ready"}
    BY <1>4, <1>5, <1>6 DEF Pool
  <2>6. \A c \in Requests : stage[c] # "attaching"
    BY <1>2, <1>4 DEF Pool, CallTypes
  <2>7. \A c \in Requests :
          stage'[c] = "attaching" <=> grip'[c] # 0 /\ mode'[grip'[c]] = "attaching"
    BY <1>5, <2>5, <2>6 DEF CallTypes
  <2> QED BY <2>3, <2>4, <2>5, <2>7 DEF Pool
<1> QED BY <1>7, <1>8, <1>9, <1>10

\* Chrome took it away: the pool forgets the state, and the records end.
LEMMA HearsGoneKeeps ==
    ASSUME DebuggerInvariant, Debugger!Hears, news[1].of = "gone"
    PROVE  DebuggerInvariant'
<1> USE DEF DebuggerInvariant
<1>1. /\ Len(news) \in Nat /\ Len(news) > 0 /\ Len(news') = Len(news) - 1
      /\ DOMAIN news = 1..Len(news) /\ DOMAIN news' = 1..Len(news')
      /\ \A i \in DOMAIN news' : news'[i] = news[i + 1]
      /\ news[1] \in Heard /\ news' \in Seq(Heard)
      /\ \A i \in DOMAIN news' : news'[i].of # "gone" => news'[i].state # 0
      /\ attached' = attached /\ metrics' = metrics /\ calls' = calls /\ refs' = refs
      /\ kind' = kind /\ view' = view
  BY HearsEffect
<1>2. /\ holder # 0 /\ ~attached
      /\ \/ mode[holder] \in {"ready", "stuck"} /\ Len(calls) = 0 /\ Len(news) = 1
         \/ mode[holder] = "closing" /\ Len(calls) = 1 /\ AskedFor(1, "detach") /\ Len(news) = 1
         \/ mode[holder] = "closing" /\ Len(calls) = 0 /\ Len(news) = 2
            /\ Tells(2, "detach") /\ ~news[2].done
  BY <1>1, FirstOfTheLine DEF HeardFirst, Tells, Gone, Stale
<1>3. Debugger!HearsGone
  BY HearsEffect DEF Debugger!Hears
<1>4. holder \in States /\ (\A s \in States : s # 0) /\ ~metrics
  BY <1>2 DEF ChromeTypes, States, Debugger!States, Overrides
<1> DEFINE ends == {active, dialog} \ {None}
<1>5. /\ mode' = [s \in States |-> IF s = holder THEN "lost" ELSE mode[s]] /\ holder' = 0
      /\ active' = None /\ dialog' = None
      /\ flags' = [c \in Requests |->
                     IF c \in ends THEN flags[c] \union {"stopped"}
                     ELSE IF c = view
                     THEN (flags[c] \ {"applied"}) \union {"closing", "discarded"}
                     ELSE flags[c]]
      /\ grip' = [c \in Requests |-> IF c \in ends /\ stage[c] # "attaching" THEN 0 ELSE grip[c]]
      /\ stage' = [c \in Requests |-> IF c \in ends /\ stage[c] \in {"recording", "watching"}
                                      THEN "done" ELSE stage[c]]
  BY <1>3 DEF Debugger!HearsGone, States
<1>6. \A s \in States : mode'[s] \in {"none", "lost"}
  BY <1>5 DEF Pool
<1>7. \A c \in Requests : stage[c] # "attaching"
  BY <1>2, <1>4 DEF Pool, CallTypes
<1>8. ChromeTypes'
  BY <1>1, <1>5 DEF ChromeTypes, Modes
<1>9. CallTypes'
  <2>1. stage' \in [Requests -> DebuggerStages]
    BY <1>5 DEF CallTypes, DebuggerStages
  <2>2. grip' \in [Requests -> States \union {0}]
    BY <1>5 DEF CallTypes
  <2>3. flags' \in [Requests -> SUBSET Marks]
    BY <1>5 DEF CallTypes, Marks
  <2> QED BY <1>1, <1>5, <2>1, <2>2, <2>3 DEF CallTypes
<1>10. Line'
  <2>1. mode'[holder] = "lost" /\ holder' = 0 /\ ~attached'
    BY <1>1, <1>2, <1>4, <1>5
  <2>2. Voids(Len(calls))'
    BY <1>1, <1>2, <2>1 DEF Voids, Void, AskedFor, ChromeTypes
  <2>3. Stales(Len(news))'
    BY <1>1, <1>2, <2>1 DEF Stales, Stale, Tells
  <2> QED BY <2>1, <2>2, <2>3 DEF Line
<1>11. Pool'
  <2>1. \A s \in States : mode'[s] = "none" => Users(s)' = {}
    BY <1>4, <1>5 DEF Pool, Users
  <2>2. \A c \in Requests : stage'[c] # "attaching"
    BY <1>5, <1>7
  <2>3. \A c \in Requests :
          stage'[c] = "attaching" <=> grip'[c] # 0 /\ mode'[grip'[c]] = "attaching"
    BY <1>6, <1>9, <2>2 DEF CallTypes
  <2> QED BY <1>6, <2>1, <2>3 DEF Pool
<1>12. Places'
  <2>1. \A c \in Requests :
          /\ c \in ends => c = active \/ c = dialog
          /\ c \in ends => grip'[c] = 0
          /\ c \notin ends => grip'[c] = grip[c] /\ stage'[c] = stage[c]
          /\ stage'[c] = stage[c] \/ (stage'[c] = "done" /\ grip'[c] = 0)
          /\ "stopped" \in flags'[c] => c \in ends \/ "stopped" \in flags[c]
    BY <1>5, <1>7
  <2>2. \A c \in Requests : c \in ends /\ kind[c] = "observe" => stage[c] \notin Unregistered
    BY <2>1 DEF Places
  <2>3. active' \notin Requests /\ dialog' \notin Requests
    BY <1>5, NobodyAssumption
  <2> QED BY <1>1, <2>1, <2>2, <2>3 DEF Places, Leaseless, Unregistered, Observing
<1>13. Overrides'
  <2>1. \A c \in Requests : stage'[c] = stage[c] \/ stage'[c] = "done"
    BY <1>5
  <2>2. \A c \in Requests : "applied" \in flags'[c] => "applied" \in flags[c]
    BY <1>5
  <2> QED BY <1>1, <1>4, <2>1, <2>2 DEF Overrides, ViewStages
<1> QED BY <1>8, <1>9, <1>10, <1>11, <1>12, <1>13
LEMMA HearsKeeps == ASSUME DebuggerInvariant, Debugger!Hears PROVE DebuggerInvariant'
<1>1. news[1] \in Heard
  BY HearsEffect DEF DebuggerInvariant
<1>2. news[1].of \in {"attach", "detach", "gone"}
  BY <1>1 DEF Heard
<1> QED BY <1>2, HearsStale, HearsAttachKeeps, HearsDetachKeeps, HearsGoneKeeps

-----------------------------------------------------------------------------
(* Where the calls are, what they hold, and the viewport.                  *)

LEMMA AcquiresKeeps ==
    ASSUME DebuggerInvariant, NEW c \in Requests, Debugger!Acquires(c)
    PROVE  DebuggerInvariant'
<1> USE DEF DebuggerInvariant
<1>1. ChromeTypes' /\ CallTypes'
  BY AcquiresTypes
<1>2. Line' /\ Pool'
  BY AcquiresNew, AcquiresPresent
<1>3. /\ kind' = kind /\ active' = active /\ dialog' = dialog /\ view' = view /\ flags' = flags
      /\ attached' = attached /\ metrics' = metrics /\ stage[c] = "acquires"
      /\ \E place \in {"attaching", "granted", "refused"} : stage' = [stage EXCEPT ![c] = place]
      /\ stage'[c] = "refused" => grip' = grip
      /\ \E s : grip' = [grip EXCEPT ![c] = s]
  <2>1. grip = [grip EXCEPT ![c] = grip[c]]
    BY DEF CallTypes
  <2>2. CASE holder = 0
    BY <2>2 DEF Debugger!Acquires, Debugger!Goes, Debugger!mapVars, CallTypes
  <2>3. CASE holder # 0 /\ mode[holder] = "stuck"
    BY <2>1, <2>3 DEF Debugger!Acquires, Debugger!Goes, Debugger!mapVars, CallTypes
  <2>4. CASE holder # 0 /\ mode[holder] # "stuck"
    BY <2>4 DEF Debugger!Acquires, Debugger!Goes, Debugger!mapVars, CallTypes
  <2> QED BY <2>2, <2>3, <2>4
<1>4. PICK place \in {"attaching", "granted", "refused"} : stage' = [stage EXCEPT ![c] = place]
  BY <1>3
<1>5. \A d \in Requests : stage'[d] = (IF d = c THEN place ELSE stage[d])
                          /\ (d # c => grip'[d] = grip[d])
  BY <1>3, <1>4 DEF CallTypes
<1>6. Places'
  BY <1>3, <1>5 DEF Places, Leaseless, Unregistered, Observing
<1>7. Overrides'
  BY <1>3, <1>5 DEF Overrides, ViewStages
<1> QED BY <1>1, <1>2, <1>6, <1>7

\* The lease of a call after its step: its own, or none.
LEMMA LeaseAfter ==
    ASSUME ChromeTypes, CallTypes, NEW c \in Requests
    PROVE  /\ Debugger!Release(c) => \A d \in Requests : grip'[d] = IF d = c THEN 0 ELSE grip[d]
           /\ Debugger!KeepsLease => grip' = grip
BY ReleaseTypes DEF CallTypes, Debugger!KeepsLease

LEMMA WorkingPlaces ==
    ASSUME DebuggerInvariant, NEW c \in Requests,
           \/ Debugger!Begins(c) \/ Debugger!GivesUp(c) \/ Debugger!Refused(c)
           \/ Debugger!Granted(c) \/ Debugger!Uses(c)
           \/ Debugger!Registers(c) \/ Debugger!EndsObservation(c) \/ Debugger!Starts(c)
           \/ Debugger!EndsDialog(c) \/ Debugger!Enables(c)
           \/ Debugger!Measures(c) \/ Debugger!Sets(c) \/ Debugger!EndsViewport(c)
           \/ Debugger!Restores(c) \/ Debugger!Clears(c) \/ Debugger!Restored(c)
    PROVE  Places'
<1> USE DEF DebuggerInvariant, Debugger!Goes, Debugger!Flag, Debugger!mapVars, Debugger!chromeVars,
            Debugger!poolVars
<1>l. /\ Debugger!Release(c) => \A d \in Requests : grip'[d] = IF d = c THEN 0 ELSE grip[d]
      /\ Debugger!KeepsLease => grip' = grip
  BY LeaseAfter
<1>n. None \notin Requests /\ CallTypes
  BY NobodyAssumption
<1> USE DEF CallTypes, Places, Leaseless, Unregistered, Observing
<1>1. CASE Debugger!Begins(c)
  BY <1>n, <1>1 DEF Debugger!Begins
<1>2. CASE Debugger!GivesUp(c)
  BY <1>n, <1>2 DEF Debugger!GivesUp
<1>3. CASE Debugger!Refused(c)
  BY <1>n, <1>3 DEF Debugger!Refused
<1>4. CASE Debugger!Granted(c)
  <2>1. CASE Debugger!TooLate(c)
    BY <1>n, <1>l, <1>4, <2>1 DEF Debugger!Granted
  <2>2. CASE ~Debugger!TooLate(c)
    BY <1>n, <1>l, <1>4, <2>2 DEF Debugger!Granted, Debugger!TooLate, Debugger!Kinds
  <2> QED BY <2>1, <2>2
<1>5. CASE Debugger!Uses(c)
  BY <1>n, <1>l, <1>5 DEF Debugger!Uses
<1>6. CASE Debugger!Registers(c)
  BY <1>n, <1>l, <1>6 DEF Debugger!Registers
<1>7. CASE Debugger!EndsObservation(c)
  BY <1>n, <1>l, <1>7 DEF Debugger!EndsObservation, Debugger!Finishes
<1>8. CASE Debugger!Starts(c)
  BY <1>n, <1>l, <1>8 DEF Debugger!Starts, Debugger!Finishes
<1>9. CASE Debugger!EndsDialog(c)
  BY <1>n, <1>l, <1>9 DEF Debugger!EndsDialog
<1>10. CASE Debugger!Enables(c)
  BY <1>n, <1>l, <1>10 DEF Debugger!Enables
<1>11. CASE Debugger!Measures(c)
  BY <1>n, <1>11 DEF Debugger!Measures
<1>12. CASE Debugger!Sets(c)
  BY <1>n, <1>12 DEF Debugger!Sets
<1>13. CASE Debugger!EndsViewport(c)
  BY <1>n, <1>13 DEF Debugger!EndsViewport
<1>14. CASE Debugger!Restores(c)
  BY <1>n, <1>14 DEF Debugger!Restores
<1>15. CASE Debugger!Clears(c)
  <2>1. /\ kind' = kind /\ active' = active /\ dialog' = dialog /\ grip' = grip
        /\ stage[c] = "clears"
        /\ \A d \in Requests :
              stage'[d] = stage[d] \/ (d = c /\ stage'[d] \in {"restored", "retained"})
    BY <1>n, <1>15 DEF Debugger!Clears, Debugger!ClearFailed
  <2>2. flags' = flags \/ flags' = [flags EXCEPT ![c] = flags[c] \ {"applied"}]
    BY <1>15 DEF Debugger!Clears, Debugger!ClearFailed
  <2>3. \A d \in Requests : "stopped" \in flags'[d] => "stopped" \in flags[d]
    BY <1>n, <2>2
  <2> QED BY <1>n, <2>1, <2>3
<1>16. CASE Debugger!Restored(c)
  BY <1>n, <1>l, <1>16 DEF Debugger!Restored
<1> QED
  BY <1>1, <1>2, <1>3, <1>4, <1>5, <1>6, <1>7, <1>8, <1>9, <1>10, <1>11, <1>12, <1>13, <1>14,
     <1>15, <1>16

LEMMA WorkingOverrides ==
    ASSUME DebuggerInvariant, NEW c \in Requests,
           \/ Debugger!Begins(c) \/ Debugger!GivesUp(c) \/ Debugger!Refused(c)
           \/ Debugger!Granted(c) \/ Debugger!Uses(c)
           \/ Debugger!Registers(c) \/ Debugger!EndsObservation(c) \/ Debugger!Starts(c)
           \/ Debugger!EndsDialog(c) \/ Debugger!Enables(c)
           \/ Debugger!Measures(c) \/ Debugger!Sets(c) \/ Debugger!EndsViewport(c)
           \/ Debugger!Restores(c) \/ Debugger!Clears(c) \/ Debugger!Restored(c)
    PROVE  Overrides'
<1> USE DEF DebuggerInvariant, Debugger!Goes, Debugger!Flag, Debugger!mapVars, Debugger!chromeVars,
            Debugger!poolVars
<1>n. None \notin Requests /\ CallTypes /\ attached \in BOOLEAN /\ metrics \in BOOLEAN
  BY NobodyAssumption DEF ChromeTypes
<1> USE DEF CallTypes, Overrides, ViewStages
<1>1. CASE Debugger!Begins(c)
  BY <1>n, <1>1 DEF Debugger!Begins
<1>2. CASE Debugger!GivesUp(c)
  BY <1>n, <1>2 DEF Debugger!GivesUp
<1>3. CASE Debugger!Refused(c)
  BY <1>n, <1>3 DEF Debugger!Refused
<1>4. CASE Debugger!Granted(c)
  BY <1>n, <1>4 DEF Debugger!Granted, Debugger!TooLate, Debugger!Kinds
<1>5. CASE Debugger!Uses(c)
  BY <1>n, <1>5 DEF Debugger!Uses
<1>6. CASE Debugger!Registers(c)
  BY <1>n, <1>6 DEF Debugger!Registers, Places, Observing
<1>7. CASE Debugger!EndsObservation(c)
  BY <1>n, <1>7 DEF Debugger!EndsObservation, Debugger!Finishes
<1>8. CASE Debugger!Starts(c)
  BY <1>n, <1>8 DEF Debugger!Starts, Debugger!Finishes, Places, Observing
<1>9. CASE Debugger!EndsDialog(c)
  BY <1>n, <1>9 DEF Debugger!EndsDialog, Places
<1>10. CASE Debugger!Enables(c)
  BY <1>n, <1>10 DEF Debugger!Enables
<1>11. CASE Debugger!Measures(c)
  BY <1>n, <1>11 DEF Debugger!Measures
<1>12. CASE Debugger!Sets(c)
  BY <1>n, <1>12 DEF Debugger!Sets
<1>13. CASE Debugger!EndsViewport(c)
  BY <1>n, <1>13 DEF Debugger!EndsViewport
<1>14. CASE Debugger!Restores(c)
  BY <1>n, <1>14 DEF Debugger!Restores
<1>15. CASE Debugger!Clears(c)
  <2>1. CASE "applied" \notin flags[c]
    BY <1>n, <1>15, <2>1 DEF Debugger!Clears
  <2>2. CASE "applied" \in flags[c] /\ stage' = [stage EXCEPT ![c] = "restored"]
    <3>1. ~metrics' /\ kind' = kind /\ view' = view
          /\ flags' = [flags EXCEPT ![c] = flags[c] \ {"applied"}]
      BY <1>n, <1>15, <2>2 DEF Debugger!Clears, Debugger!ClearFailed
    <3> QED BY <1>n, <1>15, <2>2, <3>1 DEF Debugger!Clears
  <2>3. CASE "applied" \in flags[c] /\ stage' = [stage EXCEPT ![c] = "retained"]
    <3>1. /\ metrics' \in {metrics, FALSE} /\ kind' = kind /\ view' = view /\ flags' = flags
          /\ attached' = attached /\ stage[c] = "clears"
      BY <1>n, <1>15, <2>3 DEF Debugger!Clears, Debugger!ClearFailed
    <3>2. metrics' => metrics
      BY <3>1
    <3>3. \A d \in Requests : stage'[d] = IF d = c THEN "retained" ELSE stage[d]
      BY <1>n, <2>3
    <3> QED BY <3>1, <3>2, <3>3
  <2> QED BY <1>15, <2>1, <2>2, <2>3 DEF Debugger!Clears, Debugger!ClearFailed
<1>16. CASE Debugger!Restored(c)
  BY <1>n, <1>16 DEF Debugger!Restored
<1> QED
  BY <1>1, <1>2, <1>3, <1>4, <1>5, <1>6, <1>7, <1>8, <1>9, <1>10, <1>11, <1>12, <1>13, <1>14,
     <1>15, <1>16

\* A call that waits for the attachment releases nothing, so the pool and its line are kept.
LEMMA WorkingKeeps ==
    ASSUME DebuggerInvariant, NEW c \in Requests,
           \/ Debugger!Begins(c) \/ Debugger!GivesUp(c) \/ Debugger!Refused(c)
           \/ Debugger!Granted(c) \/ Debugger!Uses(c)
           \/ Debugger!Registers(c) \/ Debugger!EndsObservation(c) \/ Debugger!Starts(c)
           \/ Debugger!EndsDialog(c) \/ Debugger!Enables(c)
           \/ Debugger!Measures(c) \/ Debugger!Sets(c) \/ Debugger!EndsViewport(c)
           \/ Debugger!Restores(c) \/ Debugger!Clears(c) \/ Debugger!Restored(c)
    PROVE  DebuggerInvariant'
<1> USE DEF DebuggerInvariant
<1>1. CallStep(c)
  BY WorkingCalls
<1> QED
  BY <1>1, CallStepTypes, CallStepLine, CallStepPool, WorkingPlaces, WorkingOverrides

-----------------------------------------------------------------------------
(* Chrome and the viewport, and the whole.                                 *)

LEMMA ChromeKeeps ==
    ASSUME DebuggerInvariant, Debugger!Chrome \/ Debugger!TakesAway
    PROVE  DebuggerInvariant'
<1> USE DEF DebuggerInvariant
<1>1. ChromeTypes' /\ CallTypes' /\ Line'
  BY ChromeKeepsTypes, ChromeKeepsLine, TakesAwayKeepsTypes, TakesAwayKeepsLine
<1>2. /\ mode' = mode /\ refs' = refs /\ holder' = holder /\ stage' = stage /\ kind' = kind
      /\ grip' = grip /\ active' = active /\ dialog' = dialog /\ view' = view /\ flags' = flags
      /\ metrics' => metrics /\ attached'
  BY DEF Debugger!Chrome, Debugger!TakesAway, Debugger!poolVars, Debugger!mapVars
<1>3. Pool' /\ Places' /\ Overrides'
  BY <1>2 DEF Pool, Users, Places, Overrides
<1> QED BY <1>1, <1>3

LEMMA DebuggerStep ==
    ASSUME DebuggerInvariant, [Debugger!Next]_Debugger!vars
    PROVE  DebuggerInvariant'
<1>1. CASE UNCHANGED Debugger!vars
  <2>1. /\ ChromeTypes' /\ CallTypes' /\ Line'
    BY <1>1 DEF DebuggerInvariant, ChromeTypes, CallTypes, Line, Attaching, Closing, Whole, Voids,
                Stales, Void, Stale, AskedFor, Tells, Gone, Debugger!vars, Debugger!chromeVars,
                Debugger!poolVars, Debugger!mapVars
  <2>2. Pool' /\ Places' /\ Overrides'
    BY <1>1 DEF DebuggerInvariant, Pool, Users, Places, Overrides, Debugger!vars,
                Debugger!chromeVars, Debugger!poolVars, Debugger!mapVars
  <2> QED BY <2>1, <2>2 DEF DebuggerInvariant
<1>2. CASE Debugger!Chrome \/ Debugger!TakesAway
  BY <1>2, ChromeKeeps
<1>3. CASE Debugger!Hears
  BY <1>3, HearsKeeps
<1>4. ASSUME NEW c \in Requests, Debugger!Acquires(c) PROVE DebuggerInvariant'
  BY <1>4, AcquiresKeeps
<1>5. ASSUME NEW c \in Requests,
             \/ Debugger!Begins(c) \/ Debugger!GivesUp(c) \/ Debugger!Refused(c)
             \/ Debugger!Granted(c) \/ Debugger!Uses(c)
             \/ Debugger!Registers(c) \/ Debugger!EndsObservation(c) \/ Debugger!Starts(c)
             \/ Debugger!EndsDialog(c) \/ Debugger!Enables(c)
             \/ Debugger!Measures(c) \/ Debugger!Sets(c) \/ Debugger!EndsViewport(c)
             \/ Debugger!Restores(c) \/ Debugger!Clears(c) \/ Debugger!Restored(c)
      PROVE  DebuggerInvariant'
  BY <1>5, WorkingKeeps
<1> QED
  BY <1>1, <1>2, <1>3, <1>4, <1>5 DEF Debugger!Next

LEMMA AlwaysDebuggerInvariant == Debugger!Spec => []DebuggerInvariant
BY DebuggerInit, DebuggerStep, PTL DEF Debugger!Spec

\* Whoever has the debugger by the pool's count has it, or Chrome took it away and the worker
\* will hear of it (DebuggerSessionPool.acquire, release and the listener of onDetach): whatever
\* attachments fail, are slow, or are asked for while another is being detached.
THEOREM DebuggerIsKept == Debugger!Spec => []NobodyLosesTheDebugger
<1>1. DebuggerInvariant => NobodyLosesTheDebugger
  <2> SUFFICES ASSUME DebuggerInvariant, NEW c \in Requests,
                      grip[c] # 0, stage[c] # "attaching", mode[grip[c]] # "lost"
               PROVE  attached \/ \E i \in DOMAIN news : news[i].of = "gone"
    BY DEF NobodyLosesTheDebugger, Debugger!NobodyLosesTheDebugger
  <2> USE DEF DebuggerInvariant
  <2>1. holder # 0 /\ mode[holder] = "ready"
    BY LastUser DEF CallTypes, States, Debugger!States
  <2>2. Whole
    BY <2>1 DEF Line
  <2> QED BY <2>2 DEF Whole, Gone, ChromeTypes
<1> QED BY <1>1, AlwaysDebuggerInvariant, PTL

\* No reference, no attachment and no override of the viewport is left with nobody, at whatever
\* point an operation fails, is given up, is ended from outside or loses the debugger
\* (the finally clauses, PageObservations.finish, JavaScriptDialogs.finish, restoreRecord).
THEOREM NothingIsLeft == Debugger!Spec => []NothingLeaks
<1>1. DebuggerInvariant => NothingLeaks
  <2> SUFFICES ASSUME DebuggerInvariant PROVE NothingLeaks
    OBVIOUS
  <2> USE DEF DebuggerInvariant
  <2>1. \A c \in Requests : stage[c] = "done" => grip[c] = 0
    BY DEF Places, Leaseless
  <2>2. ASSUME attached, calls = <<>>, news = <<>>
        PROVE  holder # 0 /\ (mode[holder] # "stuck" => \E c \in Requests : grip[c] = holder)
    <3>1. Len(calls) = 0 /\ Len(news) = 0
      BY <2>2
    <3>2. holder # 0 /\ mode[holder] \in {"ready", "stuck"}
      BY <2>2, <3>1 DEF Line, Attaching, Closing
    <3>3. mode[holder] = "ready" => Users(holder) # {}
      BY <3>2 DEF Pool, ChromeTypes
    <3> QED BY <3>2, <3>3 DEF Users
  <2>3. metrics => view # None /\ "applied" \in flags[view]
    BY DEF Overrides
  <2> QED BY <2>1, <2>2, <2>3 DEF NothingLeaks, Debugger!NothingLeaks
<1> QED BY <1>1, AlwaysDebuggerInvariant, PTL
=============================================================================
