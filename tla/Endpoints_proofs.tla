-------------------------- MODULE Endpoints_proofs --------------------------
(***************************************************************************)
(* Proofs about the two ends that the broker connects (MCEndpoints): the   *)
(* recordings, the clipboard and the native port of the Extension, and the *)
(* client and the registry of the MCP process.  Each has an invariant of   *)
(* its own, from which the property that the runs check follows.           *)
(***************************************************************************)
EXTENDS MCEndpoints, FiniteSetTheorems, TLAPS

-----------------------------------------------------------------------------
(* Recordings                                                               *)

CallStages ==
    {"idle", "refused", "opening", "opened", "starting", "unstarted", "recording",
     "stopping", "ending", "preparing", "over", "gone"}

RecordTypes ==
    /\ stage \in [Calls -> CallStages]
    /\ recorder \in [Calls -> {"none", "recording", "stopped"}]
    /\ ended \in [Calls -> {"unknown", "clean", "tainted"}]
    /\ result \in [Calls -> {"none", "usable", "blocked"}]
    /\ keeper \in {"up", "down", "restoring"}
    /\ isolating \subseteq Calls /\ spawning \subseteq Calls
    /\ alone \subseteq Calls /\ dirty \subseteq Calls
    /\ saved \in [of : Calls, tainted : BOOLEAN] \union {None}

\* What the worker knows of the window is what it stored, or nothing while it restores.
CopyIsTrue ==
    /\ state \in {None, saved}
    /\ keeper = "up" => state = saved
    /\ keeper = "down" => state = None /\ isolating = {}

\* A tab gets its window before its recorder, and never after it.
WindowFirst ==
    \A c \in Calls :
        /\ c \in isolating => stage[c] \in {"opening", "gone"}
        /\ c \in isolating \/ stage[c] \in {"idle", "opening", "opened"}
              => c \notin spawning /\ recorder[c] = "none"
        /\ c \in dirty \/ c = control => recorder[c] # "none"

\* An intrusion is on record for as long as there is a window to ask about.
TaintsStay ==
    \A c \in dirty : saved # None /\ saved.of = c => saved.tainted = TRUE

\* A window that was found clean is gone, so nothing can get into it any more.
Final(c) ==
    c \notin alone /\ c \notin isolating /\ c \notin dirty /\ stage[c] \notin {"idle", "opening"}
CleanIsFinal ==
    \A c \in Calls : ended[c] = "clean" \/ result[c] = "usable" => Final(c)

RecordInvariant == RecordTypes /\ CopyIsTrue /\ WindowFirst /\ TaintsStay /\ CleanIsFinal

\* Nothing has been recorded at first.
LEMMA RecordInit == Record!Init => RecordInvariant
BY RecordingAssumption
   DEF Record!Init, RecordInvariant, RecordTypes, CopyIsTrue, WindowFirst, TaintsStay,
       CleanIsFinal, Final, CallStages

\* Every step of the recording's three parts keeps the account of taints.
LEMMA RecordStep == RecordInvariant /\ [Record!Next]_(Record!vars) => RecordInvariant'
<1> SUFFICES ASSUME RecordInvariant, [Record!Next]_(Record!vars)
             PROVE  RecordInvariant'
  OBVIOUS
<1> USE DEF RecordInvariant, RecordTypes, CopyIsTrue, WindowFirst, TaintsStay, CleanIsFinal,
            Final, CallStages, Record!mcpVars, Record!windowVars, Record!hostVars
<1>1. CASE Record!Forgets
  BY <1>1 DEF Record!Forgets, Record!Upset, Record!Keeps
<1>2. CASE Record!WorkerDies
  BY <1>2, RecordingAssumption DEF Record!WorkerDies, Record!Upset
<1>3. CASE Record!Wakes
  BY <1>3 DEF Record!Wakes, Record!Calm
<1>4. CASE Record!Restores
  BY <1>4 DEF Record!Restores, Record!Copy, Record!Calm
<1>5. ASSUME NEW c \in Calls, Record!Starts(c)
      PROVE  RecordInvariant'
  BY <1>5 DEF Record!Starts, Record!Goes
<1>6. ASSUME NEW c \in Calls, Record!Isolates(c)
      PROVE  RecordInvariant'
  BY <1>6, RecordingAssumption DEF Record!Isolates, Record!Goes
<1>7. ASSUME NEW c \in Calls, Record!Isolated(c)
      PROVE  RecordInvariant'
  <2>0. saved' = [of |-> c, tainted |-> FALSE] \/ saved' = saved
    BY <1>7, Zenon DEF Record!Isolated, Record!Keeps
  <2>1. RecordTypes'
    <3>1. [of |-> c, tainted |-> FALSE] \in [of : Calls, tainted : BOOLEAN]
      BY Zenon
    <3>2. saved' \in [of : Calls, tainted : BOOLEAN] \union {None}
      BY <2>0, <3>1, Zenon DEF RecordInvariant, RecordTypes
    <3>3. \E x \in CallStages : stage' = [stage EXCEPT ![c] = x]
      BY <1>7 DEF Record!Isolated, Record!Goes
    <3>4. stage' \in [Calls -> CallStages]
      BY <3>3
    <3> QED BY <3>2, <3>4, <1>7 DEF Record!Isolated
  <2>2. CopyIsTrue'
    BY <1>7 DEF Record!Isolated, Record!Goes, Record!Keeps
  <2>3. WindowFirst'
    BY <1>7 DEF Record!Isolated, Record!Goes, Record!Keeps
  <2>4. TaintsStay'
    <3>0. c \in isolating
      BY <1>7 DEF Record!Isolated
    <3>1. c \notin dirty
      BY <3>0
    <3>2. dirty' = dirty
      BY <1>7 DEF Record!Isolated
    <3>3. [of |-> c, tainted |-> FALSE].of = c
      BY Zenon
    <3>4. CASE saved' = [of |-> c, tainted |-> FALSE]
      BY <3>1, <3>2, <3>3, <3>4
    <3>5. CASE saved' = saved
      BY <3>2, <3>5
    <3> QED BY <2>0, <3>4, <3>5
  <2>5. CleanIsFinal'
    <3> SUFFICES ASSUME NEW d \in Calls, ended'[d] = "clean" \/ result'[d] = "usable"
                 PROVE  Final(d)'
      BY DEF CleanIsFinal
    <3>1. CASE d = c
      BY <3>1, <1>7 DEF Record!Isolated, Record!Goes, Record!Keeps
    <3>2. CASE d # c
      BY <3>2, <1>7 DEF Record!Isolated, Record!Goes, Record!Keeps
    <3> QED BY <3>1, <3>2
  <2> QED BY <2>1, <2>2, <2>3, <2>4, <2>5
<1>8. ASSUME NEW c \in Calls, Record!Intrudes(c)
      PROVE  RecordInvariant'
  BY <1>8, ZenonT(30) DEF Record!Intrudes, Record!Keeps, Record!Held
<1>9. ASSUME NEW c \in Calls, Record!AsksRecorder(c)
      PROVE  RecordInvariant'
  BY <1>9 DEF Record!AsksRecorder, Record!Goes
<1>10. ASSUME NEW c \in Calls, Record!StartsRecorder(c)
       PROVE  RecordInvariant'
  BY <1>10, RecordingAssumption DEF Record!StartsRecorder, Record!Goes
<1>11. ASSUME NEW c \in Calls, Record!Spawns(c)
       PROVE  RecordInvariant'
  BY <1>11, RecordingAssumption DEF Record!Spawns, Record!Goes
<1>12. ASSUME NEW c \in Calls, Record!LimitsItself(c)
       PROVE  RecordInvariant'
  BY <1>12 DEF Record!LimitsItself
<1>13. ASSUME NEW c \in Calls, Record!Finishes(c)
       PROVE  RecordInvariant'
  BY <1>13 DEF Record!Finishes, Record!Goes
<1>14. ASSUME NEW c \in Calls, Record!Stops(c)
       PROVE  RecordInvariant'
  BY <1>14, RecordingAssumption DEF Record!Stops, Record!Goes
<1>15. ASSUME NEW c \in Calls, Record!Ends(c)
       PROVE  RecordInvariant'
  BY <1>15, RecordingAssumption DEF Record!Ends, Record!Goes, Record!Held, Record!Keeps
<1>16. ASSUME NEW c \in Calls, Record!Prepares(c)
       PROVE  RecordInvariant'
  BY <1>16 DEF Record!Prepares, Record!Goes, Record!Clean
<1>17. ASSUME NEW p \in Record!Processes, Record!ShutsDown(p)
       PROVE  RecordInvariant'
  BY <1>17 DEF Record!ShutsDown
<1>18. ASSUME NEW p \in Record!Processes, Record!Exits(p)
       PROVE  RecordInvariant'
  BY <1>18 DEF Record!Exits
<1>19. CASE UNCHANGED Record!vars
  BY <1>19 DEF Record!vars
<1> QED
  BY <1>1, <1>2, <1>3, <1>4, <1>5, <1>6, <1>7, <1>8, <1>9, <1>10, <1>11, <1>12, <1>13, <1>14,
     <1>15, <1>16, <1>17, <1>18, <1>19 DEF Record!Next

\* A recording is usable only if nothing has got into it, also after it was found so
\* (prepare_chrome_companion_only and the finalization).
THEOREM UsableMovies == Record!Spec => []UsableIsClean
<1>1. RecordInvariant => UsableIsClean
  BY DEF RecordInvariant, CleanIsFinal, Final, UsableIsClean, Record!UsableIsClean
<1> QED BY <1>1, RecordInit, RecordStep, PTL DEF Record!Spec

-----------------------------------------------------------------------------
(* The clipboard                                                            *)

RequestType ==
    [does : {"nothing", "get", "count", "intent", "receipt"},
     stage : {"free", "asked", "looked", "answered"}, op : Operations \union {"none"},
     says : {"none", "intent", "completed", "compacted", "room", "full", "stored", "refused",
             "lost"}]

ClipboardTypes ==
    /\ docs \in 0 .. MaxDocs /\ doc \in 0 .. docs
    /\ lane \in Seq(Deliveries)
    /\ step \in {"ready", "get", "count", "intent", "writing", "receipt"}
    /\ asked \in [1 .. MaxDocs -> RequestType]
    /\ receipts \in [Operations -> {"none", "intent", "completed", "compacted"}]
    /\ wrote \subseteq Deliveries
    /\ answer \in [Deliveries -> {"pending", "unheard", "unknown", "no_effect", "written",
                                  "written_before"}]

Asking(d) == asked[d].stage \in {"asked", "looked"}
Written(o) == \E v \in wrote : Of[v] = o
Kept == {"completed", "compacted"}

\* The lane's deliveries are each there once and have not been answered; a document that has
\* not been opened has asked for nothing.
LaneInOrder ==
    /\ doc = 0 => lane = <<>>
    /\ lane = <<>> => step = "ready"
    /\ \A i, j \in 1 .. Len(lane) : lane[i] = lane[j] => i = j
    /\ \A i \in 1 .. Len(lane) : answer[lane[i]] \in {"pending", "unheard"}
    /\ \A d \in 1 .. MaxDocs : d > docs => asked[d].stage = "free"

\* One request is at work at a time: that of the document, or of the last one that ended.
OneRequest ==
    /\ \A d \in 1 .. MaxDocs : Asking(d) => doc \in {0, d} /\ asked[d].op \in Operations
    /\ \A d, e \in 1 .. MaxDocs : Asking(d) /\ Asking(e) => d = e
    /\ step \in {"get", "count", "intent", "receipt"} =>
          asked[doc].does = step /\ asked[doc].op = Of[Head(lane)] /\ asked[doc].stage # "free"
    /\ doc # 0 /\ step \in {"ready", "writing"} => asked[doc].stage = "free"

\* What a request found is still so when it stores, and when its answer is heard.
RequestsAreSound ==
    /\ \A d \in 1 .. MaxDocs :
        /\ asked[d].stage = "looked" /\ asked[d].does = "intent" => receipts[asked[d].op] = "none"
        /\ asked[d].stage = "looked" /\ asked[d].does = "receipt" =>
              receipts[asked[d].op] = "intent"
        /\ Asking(d) /\ asked[d].does = "receipt" => Written(asked[d].op)
    /\ doc # 0 /\ asked[doc].stage = "answered" =>
        /\ asked[doc].does = "intent" /\ asked[doc].says = "stored" =>
              receipts[asked[doc].op] = "intent" /\ ~Written(asked[doc].op)
        /\ asked[doc].does = "receipt" /\ asked[doc].says = "stored" =>
              receipts[asked[doc].op] \in Kept
        /\ asked[doc].does = "get" /\ asked[doc].says \in Kept => receipts[asked[doc].op] \in Kept

\* The write happens between its intent and its receipt, and once.
WriteIsBracketed ==
    /\ step = "writing" => receipts[Of[Head(lane)]] = "intent" /\ ~Written(Of[Head(lane)])
    /\ step = "receipt" => Head(lane) \in wrote
    /\ \A o \in Operations : /\ receipts[o] = "none" => ~Written(o)
                             /\ receipts[o] \in Kept => Written(o)
    /\ \A v, w \in wrote : Of[v] = Of[w] => v = w
    /\ \A v \in wrote : /\ answer[v] # "pending" \/ (step = "receipt" /\ v = Head(lane))
                        /\ answer[v] # "no_effect"
    /\ \A v \in Deliveries : answer[v] \in {"written", "written_before"} => receipts[Of[v]] \in Kept

ClipboardInvariant ==
    ClipboardTypes /\ LaneInOrder /\ OneRequest /\ RequestsAreSound /\ WriteIsBracketed

Says == {"none", "intent", "completed", "compacted", "room", "full", "stored", "refused", "lost"}
Heard == {"unheard", "unknown", "no_effect", "written", "written_before"}

\* An answer to a request leaves the rest of it.
Replied(q, x) == [q EXCEPT !.stage = "answered", !.says = x]
Looked(q) == [q EXCEPT !.stage = "looked"]

\* A request that moves on stays what it was asked for.
LEMMA RequestMoves ==
    ASSUME NEW q \in RequestType
    PROVE  /\ Looked(q) \in RequestType /\ Looked(q).does = q.does /\ Looked(q).op = q.op
           /\ Looked(q).stage = "looked" /\ Looked(q).says = q.says
           /\ \A x \in Says :
                /\ Replied(q, x) \in RequestType /\ Replied(q, x).does = q.does
                /\ Replied(q, x).op = q.op
                /\ Replied(q, x).stage = "answered" /\ Replied(q, x).says = x
BY DEF RequestType, Says, Looked, Replied

\* The worker ends: every request at work is refused, every delivery in the lane unheard.
LEMMA ClipboardWorkerEnds ==
    ASSUME ClipboardInvariant, Clipboard!WorkerEnds
    PROVE  ClipboardInvariant'
<1> USE ClipboardAssumption
<1>0. /\ UNCHANGED <<doc, docs, lane, step, receipts, wrote>>
      /\ asked' = [d \in 1 .. MaxDocs |->
                      IF Asking(d) THEN Replied(asked[d], "lost") ELSE asked[d]]
      /\ answer' = [v \in Deliveries |->
                       IF \E i \in DOMAIN lane : lane[i] = v THEN "unheard" ELSE answer[v]]
  BY DEF Clipboard!WorkerEnds, Clipboard!Working, Clipboard!Docs, Asking, Replied
<1>1. \A d \in 1 .. MaxDocs :
        /\ asked'[d] \in RequestType /\ asked'[d].does = asked[d].does
        /\ asked'[d].op = asked[d].op
        /\ Asking(d) => asked'[d].stage = "answered" /\ asked'[d].says = "lost"
        /\ ~Asking(d) => asked'[d] = asked[d]
  <2> SUFFICES ASSUME NEW d \in 1 .. MaxDocs
               PROVE  /\ asked'[d] \in RequestType /\ asked'[d].does = asked[d].does
                      /\ asked'[d].op = asked[d].op
                      /\ Asking(d) => asked'[d].stage = "answered" /\ asked'[d].says = "lost"
                      /\ ~Asking(d) => asked'[d] = asked[d]
    OBVIOUS
  <2>1. asked[d] \in RequestType
    BY DEF ClipboardInvariant, ClipboardTypes
  <2>2. CASE Asking(d)
    <3>1. asked'[d] = Replied(asked[d], "lost")
      BY <1>0, <2>2
    <3> QED BY <2>1, <2>2, <3>1, RequestMoves DEF Says
  <2>3. CASE ~Asking(d)
    BY <1>0, <2>1, <2>3
  <2> QED BY <2>2, <2>3
<1>2. asked' \in [1 .. MaxDocs -> RequestType]
  BY <1>0, <1>1
<1>3. \A v \in Deliveries : answer'[v] = "unheard" \/ answer'[v] = answer[v]
  BY <1>0
<1>4. \A i \in 1 .. Len(lane) : answer'[lane[i]] = "unheard"
  BY <1>0 DEF ClipboardInvariant, ClipboardTypes
<1>5. ClipboardTypes'
  BY <1>0, <1>2, <1>3 DEF ClipboardInvariant, ClipboardTypes
<1>6. LaneInOrder'
  BY <1>0, <1>1, <1>4 DEF ClipboardInvariant, LaneInOrder, Asking
<1>7. /\ \A d \in 1 .. MaxDocs : ~Asking(d)'
      /\ doc # 0 => doc \in 1 .. MaxDocs
      /\ step # "ready" => doc # 0
  BY <1>1, SMTT(30) DEF ClipboardInvariant, ClipboardTypes, LaneInOrder, Asking
<1>8. OneRequest'
  BY <1>0, <1>1, <1>7 DEF ClipboardInvariant, OneRequest, Asking
<1>9. RequestsAreSound'
  <2>1. doc # 0 /\ asked'[doc].stage = "answered" /\ asked'[doc].says # "lost"
            => asked'[doc] = asked[doc]
    BY <1>1, <1>7
  <2>2. \A d \in 1 .. MaxDocs : asked'[d].stage # "looked"
    BY <1>7 DEF Asking
  <2> QED BY <1>0, <1>7, <2>1, <2>2 DEF ClipboardInvariant, RequestsAreSound, Written, Kept
<1>10. WriteIsBracketed'
  BY <1>0, <1>3 DEF ClipboardInvariant, ClipboardTypes, WriteIsBracketed, Written, Kept
<1> QED BY <1>5, <1>6, <1>8, <1>9, <1>10 DEF ClipboardInvariant

\* A delivery joins the lane, of a document that is there or of a new one.
LEMMA ClipboardDelivers ==
    ASSUME ClipboardInvariant, NEW v \in Deliveries, Clipboard!Delivers(v)
    PROVE  ClipboardInvariant'
<1> USE ClipboardAssumption DEF ClipboardInvariant, Asking, Written, Kept, Clipboard!Docs
<1>1. ClipboardTypes'
  BY DEF Clipboard!Delivers, Clipboard!Working, ClipboardTypes, RequestType
<1>2. LaneInOrder'
  BY <1>1, SMTT(30) DEF Clipboard!Delivers, Clipboard!Working, LaneInOrder, ClipboardTypes, RequestType
<1>3. OneRequest'
  BY <1>1 DEF Clipboard!Delivers, Clipboard!Working, LaneInOrder, OneRequest, ClipboardTypes,
     RequestType
<1>4. RequestsAreSound'
  BY <1>1 DEF Clipboard!Delivers, Clipboard!Working, ClipboardTypes, LaneInOrder, OneRequest,
     RequestsAreSound, WriteIsBracketed, RequestType
<1>5. WriteIsBracketed'
  BY <1>1 DEF Clipboard!Delivers, Clipboard!Working, ClipboardTypes, LaneInOrder, OneRequest,
     RequestsAreSound, WriteIsBracketed, RequestType
<1> QED BY <1>1, <1>2, <1>3, <1>4, <1>5

\* The worker reads the receipts for a request.
LEMMA ClipboardLooks ==
    ASSUME ClipboardInvariant, NEW d \in Clipboard!Docs, Clipboard!Looks(d)
    PROVE  ClipboardInvariant'
<1> USE ClipboardAssumption DEF ClipboardInvariant, Asking, Written, Kept, Clipboard!Docs
<1>0. asked[d] \in RequestType /\ d \in 1 .. MaxDocs
  BY DEF ClipboardTypes
<1>a. \/ asked' = [asked EXCEPT ![d] = Looked(asked[d])]
      \/ \E x \in Says : asked' = [asked EXCEPT ![d] = Replied(asked[d], x)]
  <2>1. asked[d].op \in Operations
    BY <1>0 DEF Clipboard!Looks, OneRequest
  <2>2. receipts[asked[d].op] \in Says /\ "room" \in Says /\ "refused" \in Says
    BY <2>1 DEF ClipboardTypes, Says
  <2> QED BY <2>2 DEF Clipboard!Looks, Looked, Replied
<1>1. ClipboardTypes'
  <2>1. \E r \in RequestType : asked' = [asked EXCEPT ![d] = r]
    BY <1>0, <1>a, RequestMoves
  <2>2. asked' \in [1 .. MaxDocs -> RequestType]
    BY <1>0, <2>1 DEF ClipboardTypes
  <2> QED BY <2>2 DEF Clipboard!Looks, ClipboardTypes
<1>2. LaneInOrder'
  BY <1>1 DEF Clipboard!Looks, Clipboard!Active, LaneInOrder, ClipboardTypes, RequestType
<1>3. OneRequest'
  BY <1>1, SMTT(60) DEF Clipboard!Looks, Clipboard!Active, LaneInOrder, OneRequest, ClipboardTypes,
     RequestType
<1>4. RequestsAreSound'
  BY <1>1, SMTT(60) DEF Clipboard!Looks, Clipboard!Active, ClipboardTypes, LaneInOrder, OneRequest,
     RequestsAreSound, WriteIsBracketed, RequestType
<1>5. WriteIsBracketed'
  BY <1>1 DEF Clipboard!Looks, Clipboard!Active, ClipboardTypes, LaneInOrder, OneRequest,
     RequestsAreSound, WriteIsBracketed, RequestType
<1> QED BY <1>1, <1>2, <1>3, <1>4, <1>5

\* The worker stores what a request asks for, after it has looked.
LEMMA ClipboardStores ==
    ASSUME ClipboardInvariant, NEW d \in Clipboard!Docs, Clipboard!Stores(d)
    PROVE  ClipboardInvariant'
<1> USE ClipboardAssumption DEF ClipboardInvariant, Asking, Written, Kept, Clipboard!Docs
<1>0. asked[d] \in RequestType /\ d \in 1 .. MaxDocs
  BY DEF ClipboardTypes
<1>a. \E x \in Says : asked' = [asked EXCEPT ![d] = Replied(asked[d], x)]
  BY DEF Clipboard!Stores, Replied, Says
<1>1. ClipboardTypes'
  <2>1. asked' \in [1 .. MaxDocs -> RequestType]
    BY <1>0, <1>a, RequestMoves DEF ClipboardTypes
  <2>2. receipts' \in [Operations -> {"none", "intent", "completed", "compacted"}]
    BY DEF Clipboard!Stores, Clipboard!Reclaimed, ClipboardTypes
  <2> QED BY <2>1, <2>2 DEF Clipboard!Stores, ClipboardTypes
<1>2. LaneInOrder'
  BY <1>1 DEF Clipboard!Stores, Clipboard!Active, Clipboard!Reclaimed, LaneInOrder,
     ClipboardTypes, RequestType
<1>3. OneRequest'
  BY <1>1 DEF Clipboard!Stores, Clipboard!Active, Clipboard!Reclaimed, LaneInOrder, OneRequest,
     ClipboardTypes, RequestType
<1>4. RequestsAreSound'
  BY <1>1, SMTT(60) DEF Clipboard!Stores, Clipboard!Active, Clipboard!Reclaimed, ClipboardTypes,
     LaneInOrder, OneRequest, RequestsAreSound, WriteIsBracketed, RequestType
<1>5. WriteIsBracketed'
  BY <1>1, SMTT(60) DEF Clipboard!Stores, Clipboard!Active, Clipboard!Reclaimed, ClipboardTypes,
     LaneInOrder, OneRequest, RequestsAreSound, WriteIsBracketed, RequestType
<1> QED BY <1>1, <1>2, <1>3, <1>4, <1>5

\* The document begins with the first delivery of its lane.
LEMMA ClipboardBegins ==
    ASSUME ClipboardInvariant, Clipboard!Begins
    PROVE  ClipboardInvariant'
<1> USE ClipboardAssumption DEF ClipboardInvariant, Asking, Written, Kept, Clipboard!Docs
<1>0. doc \in 1 .. MaxDocs /\ Head(lane) \in Deliveries /\ Of[Head(lane)] \in Operations
  BY DEF Clipboard!Begins, ClipboardTypes, LaneInOrder
<1>1. ClipboardTypes'
  <2>1. [does |-> "get", stage |-> "asked", op |-> Of[Head(lane)], says |-> "none"] \in RequestType
    BY <1>0 DEF RequestType
  <2>2. asked' \in [1 .. MaxDocs -> RequestType]
    BY <1>0, <2>1 DEF Clipboard!Begins, Clipboard!Asks, Clipboard!Now, ClipboardTypes
  <2> QED BY <2>2 DEF Clipboard!Begins, ClipboardTypes
<1>2. LaneInOrder'
  BY <1>1 DEF Clipboard!Begins, Clipboard!Asks, Clipboard!Now, LaneInOrder, ClipboardTypes,
     RequestType
<1>3. OneRequest'
  BY <1>1 DEF Clipboard!Begins, Clipboard!Asks, Clipboard!Now, LaneInOrder, OneRequest,
     ClipboardTypes, RequestType
<1>4. RequestsAreSound'
  BY <1>1 DEF Clipboard!Begins, Clipboard!Asks, Clipboard!Now, ClipboardTypes, LaneInOrder,
     OneRequest, RequestsAreSound, WriteIsBracketed, RequestType
<1>5. WriteIsBracketed'
  BY <1>1 DEF Clipboard!Begins, Clipboard!Asks, Clipboard!Now, ClipboardTypes, LaneInOrder,
     OneRequest, RequestsAreSound, WriteIsBracketed, RequestType
<1> QED BY <1>1, <1>2, <1>3, <1>4, <1>5

\* The document is closed: its lane is unheard, its last request goes on.
LEMMA ClipboardDocumentEnds ==
    ASSUME ClipboardInvariant, Clipboard!DocumentEnds
    PROVE  ClipboardInvariant'
<1> USE ClipboardAssumption DEF ClipboardInvariant, Asking, Written, Kept, Clipboard!Docs
<1>1. ClipboardTypes'
  <2>1. wrote' \subseteq Deliveries
    <3>1. step = "writing" => Head(lane) \in Deliveries
      BY DEF LaneInOrder, ClipboardTypes
    <3> QED BY <3>1 DEF Clipboard!DocumentEnds, Clipboard!Now, ClipboardTypes
  <2>2. answer' \in [Deliveries -> {"pending"} \union Heard]
    BY DEF Clipboard!DocumentEnds, ClipboardTypes, Heard
  <2> QED BY <2>1, <2>2 DEF Clipboard!DocumentEnds, ClipboardTypes, Heard
<1>2. LaneInOrder'
  BY <1>1 DEF Clipboard!DocumentEnds, Clipboard!Now, LaneInOrder, ClipboardTypes, RequestType
<1>3. OneRequest'
  BY <1>1 DEF Clipboard!DocumentEnds, Clipboard!Now, LaneInOrder, OneRequest, ClipboardTypes,
     RequestType
<1>4. RequestsAreSound'
  BY <1>1 DEF Clipboard!DocumentEnds, Clipboard!Now, ClipboardTypes, LaneInOrder, OneRequest,
     RequestsAreSound, WriteIsBracketed, RequestType
<1>5. WriteIsBracketed'
  BY <1>1 DEF Clipboard!DocumentEnds, Clipboard!Now, ClipboardTypes, LaneInOrder, OneRequest,
     RequestsAreSound, WriteIsBracketed, RequestType
<1> QED BY <1>1, <1>2, <1>3, <1>4, <1>5

NextRequest(what) == [does |-> what, stage |-> "asked", op |-> Of[Head(lane)], says |-> "none"]
Free == [does |-> "nothing", stage |-> "free", op |-> "none", says |-> "none"]

\* The document works for the first delivery, and nobody else is at work.
Works ==
    /\ doc # 0 /\ lane # <<>> /\ asked[doc].stage \in {"free", "answered"}
    /\ UNCHANGED <<doc, docs, receipts>>

\* What a working document knows.
LEMMA AtWork ==
    ASSUME ClipboardInvariant, Works
    PROVE  /\ doc \in 1 .. MaxDocs /\ docs \in 0 .. MaxDocs /\ doc <= docs
           /\ Head(lane) \in Deliveries /\ Of[Head(lane)] \in Operations
           /\ NextRequest("get") \in RequestType /\ NextRequest("count") \in RequestType
           /\ NextRequest("intent") \in RequestType /\ NextRequest("receipt") \in RequestType
           /\ Free \in RequestType
           /\ \A d \in 1 .. MaxDocs : ~Asking(d)
<1>1. doc \in 1 .. MaxDocs /\ docs \in 0 .. MaxDocs /\ doc <= docs
  BY ClipboardAssumption DEF Works, ClipboardInvariant, ClipboardTypes
<1>2. Head(lane) \in Deliveries /\ Of[Head(lane)] \in Operations
  BY ClipboardAssumption DEF Works, ClipboardInvariant, ClipboardTypes
<1>3. \A d \in 1 .. MaxDocs : ~Asking(d)
  BY <1>1 DEF Works, ClipboardInvariant, OneRequest, Asking
<1> QED BY <1>1, <1>2, <1>3 DEF NextRequest, Free, RequestType

\* The document puts its next request.
LEMMA AfterAsk ==
    ASSUME ClipboardInvariant, Works, NEW what \in {"get", "count", "intent", "receipt"},
           step' = what, asked' = [asked EXCEPT ![doc] = NextRequest(what)],
           UNCHANGED <<lane, answer>>,
           \/ what # "receipt" /\ step # "receipt" /\ wrote' = wrote
           \/ what = "receipt" /\ step = "writing" /\ wrote' = wrote \union {Head(lane)}
    PROVE  ClipboardInvariant'
<1> DEFINE r == NextRequest(what)
           v == Head(lane)
<1>0. /\ doc \in 1 .. MaxDocs /\ docs \in 0 .. MaxDocs /\ doc <= docs
      /\ v \in Deliveries /\ Of[v] \in Operations /\ r \in RequestType
      /\ \A d \in 1 .. MaxDocs : ~Asking(d)
  BY AtWork
<1>1. /\ asked'[doc] = r /\ \A d \in 1 .. MaxDocs : d # doc => asked'[d] = asked[d]
      /\ asked' \in [1 .. MaxDocs -> RequestType]
  BY <1>0 DEF ClipboardInvariant, ClipboardTypes
<1>2. r.does = what /\ r.stage = "asked" /\ r.op = Of[v] /\ r.says = "none"
  BY DEF NextRequest
<1>3. UNCHANGED <<doc, docs, lane, answer, receipts>> /\ doc # 0 /\ lane # <<>>
  BY DEF Works
<1> HIDE DEF r, v
<1>4. ClipboardTypes'
  BY <1>0, <1>1, <1>3 DEF ClipboardInvariant, ClipboardTypes, v
<1>5. LaneInOrder'
  BY <1>0, <1>1, <1>2, <1>3 DEF ClipboardInvariant, ClipboardTypes, LaneInOrder
<1>6. OneRequest'
  BY <1>0, <1>1, <1>2, <1>3 DEF ClipboardInvariant, OneRequest, Asking, v
<1>7. RequestsAreSound'
  <2>1. \A d \in 1 .. MaxDocs : asked'[d].stage # "looked" /\ (Asking(d)' => d = doc)
    BY <1>0, <1>1, <1>2 DEF Asking
  <2>2. what = "receipt" => \E w \in wrote' : Of[w] = Of[v]
    BY <1>0 DEF v
  <2> QED BY <1>1, <1>2, <1>3, <2>1, <2>2 DEF RequestsAreSound, Asking, Written
<1>8. WriteIsBracketed'
  BY <1>0, <1>3, SMTT(30)
  DEF ClipboardInvariant, ClipboardTypes, LaneInOrder, WriteIsBracketed, Written, Kept, v
<1> QED BY <1>4, <1>5, <1>6, <1>7, <1>8 DEF ClipboardInvariant

\* The intent is stored: the document writes.
LEMMA AfterIntent ==
    ASSUME ClipboardInvariant, Works, step = "intent", asked[doc].stage = "answered",
           asked[doc].says = "stored", step' = "writing",
           asked' = [asked EXCEPT ![doc] = Free], UNCHANGED <<lane, answer, wrote>>
    PROVE  ClipboardInvariant'
<1> DEFINE v == Head(lane)
<1>0. /\ doc \in 1 .. MaxDocs /\ docs \in 0 .. MaxDocs /\ doc <= docs
      /\ v \in Deliveries /\ Of[v] \in Operations /\ Free \in RequestType
      /\ \A d \in 1 .. MaxDocs : ~Asking(d)
  BY AtWork
<1>1. /\ asked'[doc] = Free /\ \A d \in 1 .. MaxDocs : d # doc => asked'[d] = asked[d]
      /\ asked' \in [1 .. MaxDocs -> RequestType]
  BY <1>0 DEF ClipboardInvariant, ClipboardTypes
<1>2. Free.stage = "free"
  BY DEF Free
<1>3. UNCHANGED <<doc, docs, lane, answer, receipts, wrote>> /\ doc # 0 /\ lane # <<>>
  BY DEF Works
<1>4. receipts[Of[v]] = "intent" /\ ~Written(Of[v])
  BY <1>3 DEF ClipboardInvariant, OneRequest, RequestsAreSound
<1> HIDE DEF v
<1>5. ClipboardTypes' /\ LaneInOrder'
  BY <1>0, <1>1, <1>2, <1>3 DEF ClipboardInvariant, ClipboardTypes, LaneInOrder
<1>6. OneRequest' /\ RequestsAreSound'
  <2>1. \A d \in 1 .. MaxDocs : ~Asking(d)' /\ asked'[d].stage # "looked"
    BY <1>0, <1>1, <1>2 DEF Asking
  <2> QED BY <1>1, <1>2, <1>3, <2>1 DEF OneRequest, RequestsAreSound
<1>7. WriteIsBracketed'
  BY <1>3, <1>4 DEF ClipboardInvariant, WriteIsBracketed, Written, Kept, v
<1> QED BY <1>5, <1>6, <1>7 DEF ClipboardInvariant

\* The delivery is answered: as written only if a receipt is there, as without effect only if
\* it did not write.
LEMMA AfterTell ==
    ASSUME ClipboardInvariant, Works, NEW effect \in Heard,
           step' = "ready", asked' = [asked EXCEPT ![doc] = Free], lane' = Tail(lane),
           answer' = [answer EXCEPT ![Head(lane)] = IF @ = "pending" THEN effect ELSE @],
           wrote' = wrote \/ (step = "writing" /\ wrote' = wrote \union {Head(lane)}),
           effect = "no_effect" => wrote' = wrote /\ step # "receipt",
           effect \in {"written", "written_before"} => receipts[Of[Head(lane)]] \in Kept
    PROVE  ClipboardInvariant'
<1> DEFINE v == Head(lane)
<1>0. /\ doc \in 1 .. MaxDocs /\ docs \in 0 .. MaxDocs /\ doc <= docs
      /\ v \in Deliveries /\ Of[v] \in Operations /\ Free \in RequestType
      /\ \A d \in 1 .. MaxDocs : ~Asking(d)
  BY AtWork
<1>1. /\ asked'[doc] = Free /\ \A d \in 1 .. MaxDocs : d # doc => asked'[d] = asked[d]
      /\ asked' \in [1 .. MaxDocs -> RequestType]
  BY <1>0 DEF ClipboardInvariant, ClipboardTypes
<1>2. Free.stage = "free"
  BY DEF Free
<1>3. UNCHANGED <<doc, docs, receipts>> /\ doc # 0 /\ lane # <<>>
  BY DEF Works
<1>4. /\ \A w \in Deliveries : w # v => answer'[w] = answer[w]
      /\ answer'[v] = IF answer[v] = "pending" THEN effect ELSE answer[v]
      /\ answer' \in [Deliveries -> {"pending"} \union Heard]
  BY <1>0 DEF ClipboardInvariant, ClipboardTypes, Heard
<1>5. /\ lane' \in Seq(Deliveries) /\ Len(lane') = Len(lane) - 1 /\ lane[1] = v
      /\ \A i \in 1 .. Len(lane') : lane'[i] = lane[i + 1] /\ lane'[i] # v
  BY <1>3 DEF ClipboardInvariant, ClipboardTypes, LaneInOrder
<1> HIDE DEF v
<1>6. ClipboardTypes'
  BY <1>0, <1>1, <1>3, <1>4, <1>5 DEF ClipboardInvariant, ClipboardTypes, Heard, v
<1>7. LaneInOrder'
  <2>1. \A i, j \in 1 .. Len(lane') : lane'[i] = lane'[j] => i = j
    BY <1>5 DEF ClipboardInvariant, ClipboardTypes, LaneInOrder
  <2>2. \A i \in 1 .. Len(lane') : answer'[lane'[i]] \in {"pending", "unheard"}
    BY <1>4, <1>5 DEF ClipboardInvariant, ClipboardTypes, LaneInOrder
  <2> QED BY <1>0, <1>1, <1>2, <1>3, <2>1, <2>2
          DEF ClipboardInvariant, ClipboardTypes, LaneInOrder
<1>8. OneRequest' /\ RequestsAreSound'
  <2>1. \A d \in 1 .. MaxDocs : ~Asking(d)' /\ asked'[d].stage # "looked"
    BY <1>0, <1>1, <1>2 DEF Asking
  <2> QED BY <1>1, <1>2, <1>3, <2>1 DEF OneRequest, RequestsAreSound
<1>9. WriteIsBracketed'
  <2>1. step = "writing" => receipts[Of[v]] = "intent" /\ ~Written(Of[v])
    BY DEF ClipboardInvariant, WriteIsBracketed, v
  <2>2. \A o \in Operations : /\ receipts'[o] = "none" => ~Written(o)'
                              /\ receipts'[o] \in Kept => Written(o)'
    BY <1>0, <1>3, <2>1 DEF ClipboardInvariant, WriteIsBracketed, Written, Kept, v
  <2>3. \A u, w \in wrote' : Of[u] = Of[w] => u = w
    BY <1>0, <2>1 DEF ClipboardInvariant, WriteIsBracketed, Written, v
  <2>4. answer[v] \in {"pending", "unheard"}
    BY <1>5, <1>3 DEF ClipboardInvariant, ClipboardTypes, LaneInOrder
  <2>5. \A w \in wrote' : answer'[w] # "pending" /\ answer'[w] # "no_effect"
    <3> SUFFICES ASSUME NEW w \in wrote'
                 PROVE  answer'[w] # "pending" /\ answer'[w] # "no_effect"
      OBVIOUS
    <3>1. CASE w # v
      BY <1>0, <1>4, <3>1 DEF ClipboardInvariant, ClipboardTypes, WriteIsBracketed, v
    <3>2. CASE w = v
      <4>1. effect = "no_effect" /\ w \in wrote => answer[v] # "pending"
        BY <3>2 DEF ClipboardInvariant, WriteIsBracketed, v
      <4> QED BY <1>4, <2>4, <3>2, <4>1 DEF Heard
    <3> QED BY <3>1, <3>2
  <2>6. \A w \in Deliveries :
           answer'[w] \in {"written", "written_before"} => receipts'[Of[w]] \in Kept
    BY <1>3, <1>4, <2>4 DEF ClipboardInvariant, WriteIsBracketed, v
  <2> QED BY <2>2, <2>3, <2>5, <2>6 DEF WriteIsBracketed
<1> QED BY <1>6, <1>7, <1>8, <1>9 DEF ClipboardInvariant

\* The document hears the answer to its request.
LEMMA ClipboardHears ==
    ASSUME ClipboardInvariant, Clipboard!Hears
    PROVE  ClipboardInvariant'
<1> DEFINE v == Head(lane)
<1>1. Works /\ asked[doc].stage = "answered" /\ step = asked[doc].does /\ UNCHANGED wrote
  BY DEF Clipboard!Hears, Works
<1>2. /\ doc \in 1 .. MaxDocs /\ asked[doc] \in RequestType
      /\ v \in Deliveries /\ Of[v] \in Operations
  BY <1>1, AtWork DEF ClipboardInvariant, ClipboardTypes
<1>3. step \in {"get", "count", "intent", "receipt"} /\ asked[doc].op = Of[v]
  <2>1. step # "writing" /\ step # "ready"
    BY <1>1 DEF ClipboardInvariant, OneRequest, Works
  <2> QED BY <1>1, <2>1 DEF ClipboardInvariant, ClipboardTypes, OneRequest
<1>4. /\ asked[doc].does = "receipt" /\ asked[doc].says = "stored" => receipts[Of[v]] \in Kept
      /\ asked[doc].does = "get" /\ asked[doc].says \in Kept => receipts[Of[v]] \in Kept
  BY <1>1, <1>3 DEF ClipboardInvariant, RequestsAreSound, Works
<1>5. \/ step = "get" /\ step' = "count" /\ Clipboard!Asks("count") /\ UNCHANGED <<lane, answer>>
      \/ step = "count" /\ step' = "intent" /\ Clipboard!Asks("intent")
         /\ UNCHANGED <<lane, answer>>
      \/ /\ step = "intent" /\ asked[doc].says = "stored" /\ step' = "writing"
         /\ asked' = [asked EXCEPT ![doc] = Free] /\ UNCHANGED <<lane, answer>>
      \/ step = "get" /\ asked[doc].says \in Kept /\ Clipboard!Tells("written_before")
      \/ step = "receipt" /\ asked[doc].says = "stored" /\ Clipboard!Tells("written")
      \/ step # "receipt" /\ Clipboard!Tells("no_effect")
      \/ Clipboard!Tells("unknown")
  BY <1>1 DEF Clipboard!Hears, Clipboard!Failure, Clipboard!Free, Free, Kept
<1>6. CASE step = "get" /\ step' = "count" /\ Clipboard!Asks("count") /\ UNCHANGED <<lane, answer>>
  BY <1>1, <1>6, AfterAsk DEF Clipboard!Asks, Clipboard!Now, NextRequest
<1>7. CASE /\ step = "count" /\ step' = "intent" /\ Clipboard!Asks("intent")
           /\ UNCHANGED <<lane, answer>>
  BY <1>1, <1>7, AfterAsk DEF Clipboard!Asks, Clipboard!Now, NextRequest
<1>8. CASE /\ step = "intent" /\ asked[doc].says = "stored" /\ step' = "writing"
           /\ asked' = [asked EXCEPT ![doc] = Free] /\ UNCHANGED <<lane, answer>>
  BY <1>1, <1>8, AfterIntent
<1>9. CASE \E effect \in Heard :
              /\ Clipboard!Tells(effect)
              /\ effect = "no_effect" => step # "receipt"
              /\ effect \in {"written", "written_before"} => receipts[Of[v]] \in Kept
  BY <1>1, <1>9, AfterTell DEF Clipboard!Tells, Clipboard!Now, Clipboard!Free, Free
<1> QED BY <1>1, <1>4, <1>5, <1>6, <1>7, <1>8, <1>9 DEF Heard

\* Chrome writes the clipboard, and says whether it did.
LEMMA ClipboardWrites ==
    ASSUME ClipboardInvariant, Clipboard!Writes
    PROVE  ClipboardInvariant'
<1>1. lane # <<>> /\ doc # 0 /\ step = "writing" /\ UNCHANGED <<doc, docs, receipts>>
  BY DEF Clipboard!Writes, ClipboardInvariant, LaneInOrder
<1>2. Works
  BY <1>1 DEF ClipboardInvariant, OneRequest, Works
<1>3. \/ /\ wrote' = wrote \union {Head(lane)} /\ step' = "receipt" /\ Clipboard!Asks("receipt")
         /\ UNCHANGED <<lane, answer>>
      \/ Clipboard!Tells("unknown") /\ wrote' \in {wrote, wrote \union {Head(lane)}}
  BY <1>1 DEF Clipboard!Writes, Clipboard!HasReceipt, Clipboard!Failure, Clipboard!Now
<1>4. CASE /\ wrote' = wrote \union {Head(lane)} /\ step' = "receipt"
           /\ Clipboard!Asks("receipt") /\ UNCHANGED <<lane, answer>>
  BY <1>1, <1>2, <1>4, AfterAsk DEF Clipboard!Asks, Clipboard!Now, NextRequest
<1>5. CASE Clipboard!Tells("unknown") /\ wrote' \in {wrote, wrote \union {Head(lane)}}
  BY <1>1, <1>2, <1>5, AfterTell
  DEF Clipboard!Tells, Clipboard!Now, Clipboard!Free, Free, Heard
<1> QED BY <1>3, <1>4, <1>5

\* No document is open and nothing has been asked for at first.
LEMMA ClipboardInit == Clipboard!Init => ClipboardInvariant
BY ClipboardAssumption
   DEF Clipboard!Init, Clipboard!Docs, Clipboard!Free, ClipboardInvariant, ClipboardTypes,
       RequestType, LaneInOrder, OneRequest, RequestsAreSound, WriteIsBracketed, Asking, Written,
       Kept

\* Every step of the document, the worker and Chrome keeps the account of writes.
LEMMA ClipboardStep ==
    ClipboardInvariant /\ [Clipboard!Next]_(Clipboard!vars) => ClipboardInvariant'
<1> SUFFICES ASSUME ClipboardInvariant, [Clipboard!Next]_(Clipboard!vars)
             PROVE  ClipboardInvariant'
  OBVIOUS
<1>1. CASE UNCHANGED Clipboard!vars
  BY <1>1 DEF Clipboard!vars, ClipboardInvariant, ClipboardTypes, LaneInOrder, OneRequest,
     RequestsAreSound, WriteIsBracketed, Asking, Written
<1> QED
  BY <1>1, ClipboardDelivers, ClipboardLooks, ClipboardStores, ClipboardWorkerEnds,
     ClipboardBegins, ClipboardHears, ClipboardWrites, ClipboardDocumentEnds
  DEF Clipboard!Next

\* A delivery that is answered as written has a receipt, and what has a receipt was
\* written once, however documents and workers end meanwhile.
THEOREM ReceiptsOfWrites == Clipboard!Spec => []ReceiptsAreTrue
<1>1. ClipboardInvariant => ReceiptsAreTrue
  <2> SUFFICES ASSUME ClipboardInvariant
               PROVE  ReceiptsAreTrue
    OBVIOUS
  <2>1. ASSUME NEW o \in Operations
        PROVE  Cardinality({v \in wrote : Of[v] = o}) <= 1
    <3> DEFINE S == {v \in wrote : Of[v] = o}
    <3>1. \A v, w \in S : v = w
      BY DEF ClipboardInvariant, WriteIsBracketed
    <3>2. CASE S = {}
      BY <3>2, FS_EmptySet
    <3>3. CASE \E v \in S : S = {v}
      BY <3>3, FS_Singleton
    <3> QED BY <3>1, <3>2, <3>3
  <2>2. Clipboard!WritesOnce
    <3>1. \A S : Clipboard!Cardinality(S) = Cardinality(S)
      BY Zenon DEF Clipboard!Cardinality, Cardinality
    <3> QED BY <2>1, <3>1, Zenon DEF Clipboard!WritesOnce
  <2> QED BY <2>2 DEF ReceiptsAreTrue, Clipboard!ReceiptsAreTrue,
                      ClipboardInvariant, WriteIsBracketed, Written, Kept
<1> QED BY <1>1, ClipboardInit, ClipboardStep, PTL DEF Clipboard!Spec

-----------------------------------------------------------------------------
(* The native port                                                          *)

Ports == 1 .. MaxPorts
Commands == Small \union Large
Frames ==
    {Port!Ack, Port!Trouble} \union {Port!Command(c) : c \in Small}
        \union {Port!Piece(c, i) : c \in Large, i \in {0, 1}}

PortTypes ==
    /\ worker \in {"idle", "opening", "hello", "connected", "asleep"}
    /\ used \in 0 .. MaxPorts /\ port \in 0 .. used
    /\ relay \in 0 .. MaxPorts
    /\ down \in [Ports -> Seq(Frames)]
    /\ sentBy \in [Commands -> 0 .. MaxPorts]
    /\ running \in [Commands -> 0 .. MaxPorts]
    /\ entry \in [Large -> {"none", "first", "whole"}]
    /\ digest \in [Large -> 0 .. MaxPorts]
    /\ started \subseteq Commands
    /\ answers \subseteq [of : Commands, by : 1 .. MaxPorts, effect : {"none", "done"}]

\* Frame f is on its way down port p.
Coming(p, f) == \E k \in 1 .. Len(down[p]) : down[p][k] = f
NoneComing(c) == \A p \in Ports, i \in {0, 1} : ~Coming(p, Port!Piece(c, i))
NoFirst(c) == \A p \in Ports : ~Coming(p, Port!Piece(c, 0))

\* What comes down a port was sent by it; a transfer's pieces are in order and there once.
FramesInOrder ==
    /\ \A p \in Ports :
        /\ \A c \in Small : Coming(p, Port!Command(c)) => sentBy[c] = p
        /\ \A c \in Large, i \in {0, 1} : Coming(p, Port!Piece(c, i)) => sentBy[c] = p
    /\ \A p \in Ports : \A k, m \in 1 .. Len(down[p]), c \in Large, i, j \in {0, 1} :
        down[p][k] = Port!Piece(c, i) /\ down[p][m] = Port!Piece(c, j)
            => (i <= j <=> k <= m)

\* A worker without a port has no transfer, and a transfer came by the worker's port.
TransfersAreHome ==
    /\ worker \in {"idle", "opening", "asleep"} => port = 0
    /\ \A c \in Large : /\ entry[c] # "none" => port # 0 /\ sentBy[c] = port
                        /\ digest[c] # 0 => sentBy[c] = digest[c]
    /\ \A c \in Commands : /\ running[c] # 0 => sentBy[c] = running[c]
                           /\ c \in started => sentBy[c] # 0

\* A transfer goes forward only: what was given up or has run does not come again.
TransfersGoForward ==
    /\ \A c \in Large :
        /\ entry[c] = "first" => NoFirst(c)
        /\ entry[c] = "whole" \/ digest[c] # 0 \/ c \in started => NoneComing(c)
        /\ c \in started => entry[c] = "none" /\ digest[c] = 0
    /\ \A a \in answers :
        /\ a.by = sentBy[a.of]
        /\ a.effect = "none" =>
              a.of \in Large /\ entry[a.of] = "none" /\ NoFirst(a.of) /\ a.of \notin started

PortInvariant == PortTypes /\ FramesInOrder /\ TransfersAreHome /\ TransfersGoForward

\* The fields of a frame tell what it is.
LEMMA FrameFacts ==
    /\ \A c, d, i, j : Port!Piece(c, i) = Port!Piece(d, j) <=> c = d /\ i = j
    /\ \A c, d : Port!Command(c) = Port!Command(d) <=> c = d
    /\ \A c, d, i : Port!Piece(c, i) # Port!Command(d)
    /\ \A c, i : /\ Port!Piece(c, i).is = "piece" /\ Port!Piece(c, i).of = c
                 /\ Port!Piece(c, i).index = i
                 /\ Port!Piece(c, i) # Port!Ack /\ Port!Piece(c, i) # Port!Trouble
    /\ \A c : /\ Port!Command(c).is = "command" /\ Port!Command(c).of = c
              /\ Port!Command(c) # Port!Ack /\ Port!Command(c) # Port!Trouble
    /\ Port!Ack.is = "ack" /\ Port!Trouble.is = "error"
<1>1. /\ \A c, d, i, j : Port!Piece(c, i) = Port!Piece(d, j) <=> c = d /\ i = j
      /\ \A c, d : Port!Command(c) = Port!Command(d) <=> c = d
  BY DEF Port!Piece, Port!Command
<1>2. /\ \A c, i : /\ Port!Piece(c, i).is = "piece" /\ Port!Piece(c, i).of = c
                   /\ Port!Piece(c, i).index = i
      /\ \A c : Port!Command(c).is = "command" /\ Port!Command(c).of = c
      /\ Port!Ack.is = "ack" /\ Port!Trouble.is = "error"
  BY DEF Port!Piece, Port!Command, Port!Ack, Port!Trouble
<1>3. \A c, d, i : Port!Piece(c, i) # Port!Command(d)
  BY <1>2
<1>4. /\ \A c, i : Port!Piece(c, i) # Port!Ack /\ Port!Piece(c, i) # Port!Trouble
      /\ \A c : Port!Command(c) # Port!Ack /\ Port!Command(c) # Port!Trouble
  BY <1>2
<1> QED BY <1>1, <1>2, <1>3, <1>4

\* The worker takes the next frame off its port.
LEMMA PortTakes ==
    ASSUME PortInvariant, NEW at \in Ports, port = at, down[at] # <<>>, Port!Takes, UNCHANGED sentBy
    PROVE  /\ FramesInOrder' /\ down' \in [Ports -> Seq(Frames)]
           /\ \A p \in Ports : \A f : Coming(p, f)' => Coming(p, f)
           /\ Head(down[at]) \in Frames /\ Coming(at, Head(down[at]))
           /\ \A c \in Large, i \in {0, 1} : Head(down[at]) = Port!Piece(c, i) =>
                 /\ ~Coming(at, Port!Piece(c, i))' /\ (i = 1 => NoneComing(c)')
                 /\ NoFirst(c)'
<1> USE PortAssumption
<1>1. down[at] \in Seq(Frames) /\ Len(down[at]) \in Nat
  BY DEF PortInvariant, PortTypes
<1>2. /\ down'[at] = Tail(down[at]) /\ \A p \in Ports : p # at => down'[p] = down[p]
      /\ down' \in [Ports -> Seq(Frames)]
  BY <1>1 DEF Port!Takes, PortInvariant, PortTypes
<1>3. /\ Len(down[at]) > 0 /\ Len(down'[at]) = Len(down[at]) - 1
      /\ \A k \in 1 .. Len(down'[at]) :
            down'[at][k] = down[at][k + 1] /\ k + 1 \in 1 .. Len(down[at])
  BY <1>1, <1>2
<1>4. Head(down[at]) = down[at][1] /\ Head(down[at]) \in Frames
  BY <1>1, <1>3
<1>5. \A p \in Ports : \A f : Coming(p, f)' => Coming(p, f)
  <2> SUFFICES ASSUME NEW p \in Ports, NEW f, NEW k \in 1 .. Len(down'[p]), down'[p][k] = f
               PROVE  Coming(p, f)
    BY DEF Coming
  <2>1. CASE p = at
    BY <1>3, <2>1 DEF Coming
  <2>2. CASE p # at
    BY <1>2, <2>2 DEF Coming
  <2> QED BY <2>1, <2>2
<1>6. Coming(at, Head(down[at]))
  BY <1>3, <1>4 DEF Coming
<1>7. ASSUME NEW p \in Ports, NEW k \in 1 .. Len(down'[p]), NEW m \in 1 .. Len(down'[p]),
             NEW c \in Large, NEW i \in {0, 1}, NEW j \in {0, 1},
             down'[p][k] = Port!Piece(c, i), down'[p][m] = Port!Piece(c, j)
      PROVE  i <= j <=> k <= m
  <2>1. CASE p = at
    <3>1. /\ k \in 1 .. Len(down'[at]) /\ m \in 1 .. Len(down'[at])
          /\ down'[at][k] = Port!Piece(c, i) /\ down'[at][m] = Port!Piece(c, j)
      BY <1>7, <2>1
    <3>2. /\ k + 1 \in 1 .. Len(down[at]) /\ down[at][k + 1] = Port!Piece(c, i)
          /\ m + 1 \in 1 .. Len(down[at]) /\ down[at][m + 1] = Port!Piece(c, j)
      BY <1>3, <3>1
    <3>3. i <= j <=> k + 1 <= m + 1
      BY <3>2 DEF PortInvariant, FramesInOrder
    <3> QED BY <1>1, <3>3
  <2>2. CASE p # at
    BY <1>2, <1>7, <2>2, SMTT(30) DEF PortInvariant, FramesInOrder
  <2> QED BY <2>1, <2>2
<1>8. FramesInOrder'
  <2>1. \A p \in Ports : /\ \A c \in Small : Coming(p, Port!Command(c))' => sentBy'[c] = p
                         /\ \A c \in Large, i \in {0, 1} :
                               Coming(p, Port!Piece(c, i))' => sentBy'[c] = p
    BY <1>5 DEF PortInvariant, FramesInOrder
  <2> QED BY <1>7, <2>1 DEF FramesInOrder
<1>9. ASSUME NEW c \in Large, NEW i \in {0, 1}, Head(down[at]) = Port!Piece(c, i)
      PROVE  /\ ~Coming(at, Port!Piece(c, i))' /\ (i = 1 => NoneComing(c)') /\ NoFirst(c)'
  <2>1. \A j \in {0, 1} : j <= i => ~Coming(at, Port!Piece(c, j))'
    <3> SUFFICES ASSUME NEW j \in {0, 1}, j <= i, NEW k \in 1 .. Len(down'[at]),
                        down'[at][k] = Port!Piece(c, j)
                 PROVE  FALSE
      BY DEF Coming
    <3>1. down[at][1] = Port!Piece(c, i) /\ down[at][k + 1] = Port!Piece(c, j)
      BY <1>3, <1>4, <1>9
    <3>2. 1 \in 1 .. Len(down[at]) /\ k + 1 \in 1 .. Len(down[at])
      BY <1>3
    <3>3. j <= i <=> k + 1 <= 1
      BY <1>1, <3>1, <3>2 DEF PortInvariant, FramesInOrder
    <3> QED BY <3>3
  <2>2. sentBy[c] = at
    BY <1>1, <1>6, <1>9 DEF PortInvariant, FramesInOrder
  <2>3. \A p \in Ports, j \in {0, 1} : p # at => ~Coming(p, Port!Piece(c, j))'
    BY <1>5, <2>2 DEF PortInvariant, FramesInOrder
  <2> QED BY <2>1, <2>3 DEF NoneComing, NoFirst
<1> QED BY <1>2, <1>4, <1>5, <1>6, <1>8, <1>9

\* A frame that is appended comes last.
LEMMA PortTells ==
    ASSUME PortInvariant, NEW p \in Ports, NEW f \in Frames,
           down' = [down EXCEPT ![p] = Append(@, f)]
    PROVE  /\ down' \in [Ports -> Seq(Frames)]
           /\ \A q \in Ports : q # p => down'[q] = down[q]
           /\ Len(down'[p]) = Len(down[p]) + 1 /\ Len(down[p]) \in Nat
           /\ \A k \in 1 .. Len(down[p]) : down'[p][k] = down[p][k]
           /\ down'[p][Len(down[p]) + 1] = f
           /\ \A q \in Ports : \A g : Coming(q, g)' => Coming(q, g) \/ (q = p /\ g = f)
<1>1. down[p] \in Seq(Frames)
  BY DEF PortInvariant, PortTypes
<1>2. down'[p] = Append(down[p], f) /\ \A q \in Ports : q # p => down'[q] = down[q]
  BY DEF PortInvariant, PortTypes
<1>3. /\ down' \in [Ports -> Seq(Frames)]
      /\ Len(down'[p]) = Len(down[p]) + 1 /\ Len(down[p]) \in Nat
      /\ \A k \in 1 .. Len(down[p]) : down'[p][k] = down[p][k]
      /\ down'[p][Len(down[p]) + 1] = f
  BY <1>1, <1>2 DEF PortInvariant, PortTypes
<1>4. ASSUME NEW q \in Ports, NEW g, Coming(q, g)'
      PROVE  Coming(q, g) \/ (q = p /\ g = f)
  <2>1. PICK k \in 1 .. Len(down'[q]) : down'[q][k] = g
    BY <1>4 DEF Coming
  <2>2. CASE q = p
    BY <1>3, <2>1, <2>2 DEF Coming
  <2>3. CASE q # p
    BY <1>2, <2>1, <2>3 DEF Coming
  <2> QED BY <2>2, <2>3
<1> QED BY <1>2, <1>3, <1>4

\* A frame that is no command's leaves the frames of the commands in order.
LEMMA PortSaysOther ==
    ASSUME PortInvariant, NEW p \in Ports, NEW f \in {Port!Ack, Port!Trouble},
           \/ down' = [down EXCEPT ![p] = Append(@, f)]
           \/ down' = down,
           UNCHANGED sentBy
    PROVE  /\ FramesInOrder' /\ down' \in [Ports -> Seq(Frames)]
           /\ \A q \in Ports, c \in Large, i \in {0, 1} :
                 Coming(q, Port!Piece(c, i))' => Coming(q, Port!Piece(c, i))
<1>1. CASE down' = down
  BY <1>1 DEF PortInvariant, PortTypes, FramesInOrder, Coming
<1>2. CASE down' = [down EXCEPT ![p] = Append(@, f)]
  <2>0. f \in Frames /\ \A c, i : Port!Piece(c, i) # f /\ Port!Command(c) # f
    BY FrameFacts DEF Frames
  <2>1. /\ down' \in [Ports -> Seq(Frames)]
        /\ \A q \in Ports : q # p => down'[q] = down[q]
        /\ Len(down'[p]) = Len(down[p]) + 1 /\ Len(down[p]) \in Nat
        /\ \A k \in 1 .. Len(down[p]) : down'[p][k] = down[p][k]
        /\ down'[p][Len(down[p]) + 1] = f
        /\ \A q \in Ports : \A g : Coming(q, g)' => Coming(q, g) \/ (q = p /\ g = f)
    BY <1>2, <2>0, PortTells
  <2>2. \A q \in Ports : \A g : Coming(q, g)' /\ g # f => Coming(q, g)
    BY <2>1
  <2>3. ASSUME NEW q \in Ports, NEW k \in 1 .. Len(down'[q]), NEW m \in 1 .. Len(down'[q]),
               NEW c \in Large, NEW i \in {0, 1}, NEW j \in {0, 1},
               down'[q][k] = Port!Piece(c, i), down'[q][m] = Port!Piece(c, j)
        PROVE  i <= j <=> k <= m
    <3>1. /\ k \in 1 .. Len(down[q]) /\ down[q][k] = Port!Piece(c, i)
          /\ m \in 1 .. Len(down[q]) /\ down[q][m] = Port!Piece(c, j)
      <4>1. CASE q = p
        <5>1. /\ k \in 1 .. Len(down[p]) + 1 /\ down'[p][k] = Port!Piece(c, i)
              /\ m \in 1 .. Len(down[p]) + 1 /\ down'[p][m] = Port!Piece(c, j)
          BY <2>1, <2>3, <4>1
        <5>2. k # Len(down[p]) + 1 /\ m # Len(down[p]) + 1
          BY <2>0, <2>1, <5>1
        <5>3. k \in 1 .. Len(down[p]) /\ m \in 1 .. Len(down[p])
          BY <2>1, <5>1, <5>2
        <5> QED BY <2>1, <4>1, <5>1, <5>3
      <4>2. CASE q # p
        BY <2>1, <2>3, <4>2
      <4> QED BY <4>1, <4>2
    <3> QED BY <3>1 DEF PortInvariant, FramesInOrder
  <2>4. FramesInOrder'
    <3>1. \A q \in Ports : /\ \A c \in Small : Coming(q, Port!Command(c))' => sentBy'[c] = q
                           /\ \A c \in Large, i \in {0, 1} :
                                 Coming(q, Port!Piece(c, i))' => sentBy'[c] = q
      BY <2>0, <2>2 DEF PortInvariant, FramesInOrder
    <3> QED BY <2>3, <3>1 DEF FramesInOrder
  <2> QED BY <2>0, <2>1, <2>2, <2>4
<1> QED BY <1>1, <1>2

\* Steps of the line: what they drop, a transfer or a running command, they drop for good.
LEMMA LineRests ==
    ASSUME PortInvariant, FramesInOrder', down' \in [Ports -> Seq(Frames)],
           \A p \in Ports, c \in Large, i \in {0, 1} :
              Coming(p, Port!Piece(c, i))' => Coming(p, Port!Piece(c, i)),
           UNCHANGED <<sentBy, started, answers>>,
           worker' \in {"idle", "opening", "hello", "connected", "asleep"},
           used' \in 0 .. MaxPorts, port' \in 0 .. used', relay' \in 0 .. MaxPorts,
           worker' \in {"idle", "opening", "asleep"} => port' = 0,
           \/ entry' = entry /\ (port' = port \/ port = 0)
           \/ entry' = [c \in Large |-> "none"],
           digest' \in {digest, [c \in Large |-> 0]},
           running' \in {running, [c \in Commands |-> 0]}
    PROVE  PortInvariant'
<1>1. PortTypes'
  <2>1. running' \in [Commands -> 0 .. MaxPorts] /\ digest' \in [Large -> 0 .. MaxPorts]
    BY PortAssumption DEF PortInvariant, PortTypes
  <2>2. entry' \in [Large -> {"none", "first", "whole"}]
    BY DEF PortInvariant, PortTypes
  <2>3. sentBy' \in [Commands -> 0 .. MaxPorts] /\ UNCHANGED <<started, answers>>
    BY DEF PortInvariant, PortTypes
  <2> QED BY <2>1, <2>2, <2>3, Zenon DEF PortInvariant, PortTypes
<1>2. /\ entry' \in [Large -> {"none", "first", "whole"}]
      /\ \A c \in Large : /\ entry'[c] \in {entry[c], "none"}
                          /\ entry'[c] # "none" => entry'[c] = entry[c] /\ port' = port
                          /\ digest'[c] \in {digest[c], 0}
  BY DEF PortInvariant, PortTypes, TransfersAreHome
<1>3. \A c \in Commands : running'[c] \in {running[c], 0}
  BY DEF PortInvariant
<1>4. TransfersAreHome'
  BY <1>2, <1>3 DEF PortInvariant, TransfersAreHome
<1>5. \A c \in Large : /\ NoFirst(c) => NoFirst(c)'
                       /\ NoneComing(c) => NoneComing(c)'
  BY DEF NoFirst, NoneComing
<1>6. TransfersGoForward'
  BY <1>2, <1>5 DEF PortInvariant, TransfersGoForward
<1> QED BY <1>1, <1>4, <1>6 DEF PortInvariant

\* The port, the worker, the hosts and the broker come and go.
LEMMA PortLineStep == PortInvariant /\ Port!Line => PortInvariant'
<1> SUFFICES ASSUME PortInvariant, Port!Line
             PROVE  PortInvariant'
  OBVIOUS
<1> USE PortAssumption DEF Port!hostVars, Port!transferVars, Port!commandVars, Port!Ports,
        Port!Commands
<1>0. ASSUME UNCHANGED <<down, sentBy>>
      PROVE  /\ FramesInOrder' /\ down' \in [Ports -> Seq(Frames)]
             /\ \A p \in Ports, c \in Large, i \in {0, 1} :
                   Coming(p, Port!Piece(c, i))' => Coming(p, Port!Piece(c, i))
  BY <1>0 DEF PortInvariant, PortTypes, FramesInOrder, Coming
<1>1. ASSUME \/ Port!Connects \/ Port!Opens \/ Port!OpenFails \/ Port!HelloTimesOut
             \/ Port!HearsClose \/ Port!WorkerDies \/ Port!Wakes \/ Port!BrokerDies
      PROVE  PortInvariant'
  <2>1. UNCHANGED <<down, sentBy, started, answers>>
    BY <1>1 DEF Port!Connects, Port!Opens, Port!OpenFails, Port!HelloTimesOut, Port!HearsClose,
       Port!WorkerDies, Port!Wakes, Port!BrokerDies
  <2>2. /\ worker' \in {"idle", "opening", "hello", "connected", "asleep"}
        /\ used' \in 0 .. MaxPorts /\ port' \in 0 .. used' /\ relay' \in 0 .. MaxPorts
        /\ worker' \in {"idle", "opening", "asleep"} => port' = 0
        /\ \/ entry' = entry /\ (port' = port \/ port = 0)
           \/ entry' = [c \in Large |-> "none"]
        /\ digest' \in {digest, [c \in Large |-> 0]}
        /\ running' \in {running, [c \in Commands |-> 0]}
    BY <1>1 DEF PortInvariant, PortTypes, TransfersAreHome, Commands,
       Port!Connects, Port!Opens, Port!OpenFails, Port!HelloTimesOut, Port!HearsClose,
       Port!WorkerDies, Port!Wakes, Port!BrokerDies, Port!Disconnected, Port!Reconnects,
       Port!ClearedTransfers, Port!NoTransfers
  <2> QED BY <1>0, <2>1, <2>2, LineRests
<1>2. ASSUME NEW p \in Ports, Port!Shuts(p) \/ Port!HostDies(p)
      PROVE  PortInvariant'
  <2>1. /\ UNCHANGED <<down, sentBy, started, answers, worker, used, port, entry, digest, running>>
        /\ relay' \in {relay, 0}
    BY <1>2 DEF Port!Shuts, Port!HostDies
  <2> QED BY <1>0, <2>1, LineRests DEF PortInvariant, PortTypes, TransfersAreHome
<1>3. ASSUME NEW p \in Ports, Port!Joins(p) \/ Port!IsRefused(p)
      PROVE  PortInvariant'
  <2>1. /\ UNCHANGED <<sentBy, started, answers, worker, used, port, entry, digest, running>>
        /\ relay' \in {relay, p}
        /\ \E f \in {Port!Ack, Port!Trouble} :
              down' = [down EXCEPT ![p] = Append(@, f)] \/ down' = down
    BY <1>3 DEF Port!Joins, Port!IsRefused, Port!Tells, PortInvariant, PortTypes
  <2>2. /\ FramesInOrder' /\ down' \in [Ports -> Seq(Frames)]
        /\ \A q \in Ports, c \in Large, i \in {0, 1} :
              Coming(q, Port!Piece(c, i))' => Coming(q, Port!Piece(c, i))
    BY <2>1, PortSaysOther
  <2> QED BY <2>1, <2>2, LineRests, SMTT(30) DEF PortInvariant, PortTypes, TransfersAreHome, Ports
<1>4. ASSUME Port!HearsAck \/ Port!Mismatches \/ Port!HearsTrouble
      PROVE  PortInvariant'
  <2>1. /\ port # 0 /\ down[port] # <<>> /\ Port!Takes
        /\ UNCHANGED <<sentBy, started, answers, used, relay, digest, running>>
        /\ \/ UNCHANGED <<port, entry>> /\ worker' \in {worker, "connected"}
           \/ worker' = "idle" /\ port' = 0 /\ entry' = [c \in Large |-> "none"]
    BY <1>4 DEF Port!HearsAck, Port!Mismatches, Port!HearsTrouble, Port!Frame,
       Port!Disconnected, Port!Reconnects, Port!ClearedTransfers, Port!NoTransfers
  <2>2. port \in Ports
    BY <2>1 DEF PortInvariant, PortTypes, Ports
  <2>3. /\ FramesInOrder' /\ down' \in [Ports -> Seq(Frames)]
        /\ \A p \in Ports : \A f : Coming(p, f)' => Coming(p, f)
    BY <2>1, <2>2, PortTakes
  <2> QED BY <2>1, <2>3, LineRests DEF PortInvariant, PortTypes, TransfersAreHome
<1> QED BY <1>1, <1>2, <1>3, <1>4 DEF Port!Line, Ports

\* The broker sends a command that it has not sent yet, so it is nowhere in the system.
LEMMA PortSends ==
    ASSUME PortInvariant, NEW c \in Commands, Port!Sends(c)
    PROVE  PortInvariant'
<1> USE PortAssumption DEF Port!hostVars, Port!transferVars, Port!commandVars
<1>1. /\ relay \in Ports /\ sentBy[c] = 0 /\ sentBy' = [sentBy EXCEPT ![c] = relay]
      /\ UNCHANGED <<worker, port, used, relay, entry, digest, running, started, answers>>
  BY DEF Port!Sends, PortInvariant, PortTypes, Ports
<1>2. /\ \A d \in Commands : d # c => sentBy'[d] = sentBy[d]
      /\ sentBy'[c] = relay /\ sentBy' \in [Commands -> 0 .. MaxPorts]
  BY <1>1 DEF PortInvariant, PortTypes, Ports
<1>3. /\ \A p \in Ports : c \in Small => ~Coming(p, Port!Command(c))
      /\ \A p \in Ports, i \in {0, 1} : c \in Large => ~Coming(p, Port!Piece(c, i))
  BY <1>1 DEF PortInvariant, FramesInOrder, Ports
<1>4. /\ running[c] = 0 /\ c \notin started /\ \A a \in answers : a.of # c
      /\ c \in Large => entry[c] = "none" /\ digest[c] = 0
  BY <1>1 DEF PortInvariant, PortTypes, TransfersAreHome, TransfersGoForward
<1>5. ASSUME FramesInOrder', down' \in [Ports -> Seq(Frames)],
             \A d \in Large : d # c => /\ NoFirst(d) => NoFirst(d)'
                                       /\ NoneComing(d) => NoneComing(d)'
      PROVE  PortInvariant'
  <2>1. PortTypes' /\ TransfersAreHome'
    BY <1>1, <1>2, <1>4, <1>5 DEF PortInvariant, PortTypes, TransfersAreHome
  <2>2. TransfersGoForward'
    BY <1>1, <1>2, <1>4, <1>5 DEF PortInvariant, PortTypes, TransfersGoForward
  <2> QED BY <1>5, <2>1, <2>2 DEF PortInvariant
<1>6. CASE down' = down
  <2>1. \A p \in Ports : \A f : Coming(p, f)' <=> Coming(p, f)
    BY <1>6 DEF Coming
  <2>2. FramesInOrder'
    BY <1>2, <1>3, <1>6, <2>1 DEF PortInvariant, FramesInOrder, Commands
  <2> QED BY <1>5, <1>6, <2>1, <2>2 DEF PortInvariant, PortTypes, NoFirst, NoneComing
<1>7. CASE c \in Small /\ down' = [down EXCEPT ![relay] = Append(@, Port!Command(c))]
  <2>0. Port!Command(c) \in Frames
    BY <1>7 DEF Frames
  <2>1. /\ down' \in [Ports -> Seq(Frames)]
        /\ \A q \in Ports : q # relay => down'[q] = down[q]
        /\ Len(down'[relay]) = Len(down[relay]) + 1 /\ Len(down[relay]) \in Nat
        /\ \A k \in 1 .. Len(down[relay]) : down'[relay][k] = down[relay][k]
        /\ down'[relay][Len(down[relay]) + 1] = Port!Command(c)
        /\ \A q \in Ports : \A g : Coming(q, g)' =>
              Coming(q, g) \/ (q = relay /\ g = Port!Command(c))
    BY <1>1, <1>7, <2>0, PortTells
  <2>2. \A q \in Ports : \A d, i : Coming(q, Port!Piece(d, i))' => Coming(q, Port!Piece(d, i))
    BY <2>1, FrameFacts
  <2>3. ASSUME NEW q \in Ports, NEW d, NEW i, NEW k \in 1 .. Len(down'[q]),
               down'[q][k] = Port!Piece(d, i)
        PROVE  k \in 1 .. Len(down[q]) /\ down[q][k] = Port!Piece(d, i)
    <3>1. CASE q = relay
      <4>1. k \in 1 .. Len(down[relay]) + 1 /\ down'[relay][k] = Port!Piece(d, i)
        BY <2>1, <2>3, <3>1
      <4>2. k # Len(down[relay]) + 1
        BY <2>1, <4>1, FrameFacts
      <4>3. k \in 1 .. Len(down[relay])
        BY <2>1, <4>1, <4>2
      <4> QED BY <2>1, <3>1, <4>1, <4>3
    <3>2. CASE q # relay
      BY <2>1, <2>3, <3>2
    <3> QED BY <3>1, <3>2
  <2>4. FramesInOrder'
    <3>1. ASSUME NEW p \in Ports, NEW d \in Small, Coming(p, Port!Command(d))'
          PROVE  sentBy'[d] = p
      <4>1. CASE d = c
        BY <1>1, <1>2, <1>3, <1>7, <2>1, <3>1, <4>1
      <4>2. CASE d # c
        <5>1. Coming(p, Port!Command(d))
          BY <2>1, <3>1, <4>2, FrameFacts
        <5> QED BY <1>2, <4>2, <5>1 DEF PortInvariant, FramesInOrder, Commands
      <4> QED BY <4>1, <4>2
    <3>2. ASSUME NEW p \in Ports, NEW d \in Large, NEW i \in {0, 1}, Coming(p, Port!Piece(d, i))'
          PROVE  sentBy'[d] = p
      BY <1>2, <1>7, <2>2, <3>2 DEF PortInvariant, FramesInOrder, Commands
    <3>3. ASSUME NEW p \in Ports, NEW k \in 1 .. Len(down'[p]), NEW m \in 1 .. Len(down'[p]),
                 NEW d \in Large, NEW i \in {0, 1}, NEW j \in {0, 1},
                 down'[p][k] = Port!Piece(d, i), down'[p][m] = Port!Piece(d, j)
          PROVE  i <= j <=> k <= m
      <4>1. /\ k \in 1 .. Len(down[p]) /\ down[p][k] = Port!Piece(d, i)
            /\ m \in 1 .. Len(down[p]) /\ down[p][m] = Port!Piece(d, j)
        BY <2>3, <3>3
      <4> QED BY <4>1 DEF PortInvariant, FramesInOrder
    <3> QED BY <3>1, <3>2, <3>3 DEF FramesInOrder
  <2> QED BY <1>5, <2>1, <2>2, <2>4 DEF NoFirst, NoneComing
<1>8. CASE /\ c \in Large
           /\ down' = [down EXCEPT ![relay] = @ \o <<Port!Piece(c, 0), Port!Piece(c, 1)>>]
  <2> DEFINE n == Len(down[relay])
  <2>0. Port!Piece(c, 0) \in Frames /\ Port!Piece(c, 1) \in Frames
    BY <1>8 DEF Frames
  <2>a. down[relay] \in Seq(Frames) /\ n \in Nat
    BY <1>1 DEF PortInvariant, PortTypes
  <2>b. /\ down'[relay] = down[relay] \o <<Port!Piece(c, 0), Port!Piece(c, 1)>>
        /\ \A q \in Ports : q # relay => down'[q] = down[q]
    BY <1>1, <1>8 DEF PortInvariant, PortTypes
  <2>1. /\ down' \in [Ports -> Seq(Frames)]
        /\ Len(down'[relay]) = n + 2
        /\ \A k \in 1 .. n : down'[relay][k] = down[relay][k]
        /\ down'[relay][n + 1] = Port!Piece(c, 0) /\ down'[relay][n + 2] = Port!Piece(c, 1)
    BY <1>1, <1>8, <2>0, <2>a, <2>b DEF PortInvariant, PortTypes
  <2> HIDE DEF n
  <2>2. ASSUME NEW q \in Ports, NEW g, NEW k \in 1 .. Len(down'[q]), down'[q][k] = g,
               \A i : g # Port!Piece(c, i)
        PROVE  k \in 1 .. Len(down[q]) /\ down[q][k] = g
    <3>1. CASE q = relay
      <4>1. k \in 1 .. n + 2 /\ down'[relay][k] = g
        BY <2>1, <2>2, <3>1
      <4>2. k # n + 1 /\ k # n + 2
        BY <2>1, <2>2, <4>1
      <4>3. k \in 1 .. n
        BY <2>a, <4>1, <4>2
      <4> QED BY <2>1, <3>1, <4>1, <4>3 DEF n
    <3>2. CASE q # relay
      BY <2>b, <2>2, <3>2
    <3> QED BY <3>1, <3>2
  <2>3. ASSUME NEW q \in Ports, NEW i \in {0, 1}, NEW k \in 1 .. Len(down'[q]),
               down'[q][k] = Port!Piece(c, i)
        PROVE  q = relay /\ k = n + 1 + i
    <3>1. \A m \in 1 .. Len(down[q]) : down[q][m] # Port!Piece(c, i)
      BY <1>3, <1>8 DEF Coming
    <3>2. q = relay
      BY <2>b, <2>3, <3>1
    <3>3. k \in 1 .. n + 2 /\ k \notin 1 .. n
      BY <2>1, <2>3, <3>1, <3>2 DEF n
    <3>4. k = n + 1 \/ k = n + 2
      BY <2>a, <3>3
    <3> QED BY <2>1, <2>3, <2>a, <3>2, <3>4, FrameFacts
  <2>4. ASSUME NEW q \in Ports, NEW g, Coming(q, g)', \A i : g # Port!Piece(c, i)
        PROVE  Coming(q, g)
    BY <2>2, <2>4 DEF Coming
  <2>5. FramesInOrder'
    <3>1. ASSUME NEW p \in Ports, NEW d \in Small, Coming(p, Port!Command(d))'
          PROVE  sentBy'[d] = p
      <4>1. Coming(p, Port!Command(d))
        BY <2>4, <3>1, FrameFacts
      <4> QED BY <1>2, <1>8, <4>1 DEF PortInvariant, FramesInOrder, Commands
    <3>2. ASSUME NEW p \in Ports, NEW d \in Large, NEW i \in {0, 1}, Coming(p, Port!Piece(d, i))'
          PROVE  sentBy'[d] = p
      <4>1. CASE d = c
        BY <1>2, <2>3, <3>2, <4>1 DEF Coming
      <4>2. CASE d # c
        <5>1. Coming(p, Port!Piece(d, i))
          BY <2>4, <3>2, <4>2, FrameFacts
        <5> QED BY <1>2, <4>2, <5>1 DEF PortInvariant, FramesInOrder, Commands
      <4> QED BY <4>1, <4>2
    <3>3. ASSUME NEW p \in Ports, NEW k \in 1 .. Len(down'[p]), NEW m \in 1 .. Len(down'[p]),
                 NEW d \in Large, NEW i \in {0, 1}, NEW j \in {0, 1},
                 down'[p][k] = Port!Piece(d, i), down'[p][m] = Port!Piece(d, j)
          PROVE  i <= j <=> k <= m
      <4>1. CASE d = c
        <5>1. k = n + 1 + i /\ m = n + 1 + j
          BY <2>3, <3>3, <4>1
        <5> QED BY <2>a, <5>1
      <4>2. CASE d # c
        <5>1. /\ k \in 1 .. Len(down[p]) /\ down[p][k] = Port!Piece(d, i)
              /\ m \in 1 .. Len(down[p]) /\ down[p][m] = Port!Piece(d, j)
          BY <2>2, <3>3, <4>2, FrameFacts
        <5> QED BY <5>1 DEF PortInvariant, FramesInOrder
      <4> QED BY <4>1, <4>2
    <3> QED BY <3>1, <3>2, <3>3 DEF FramesInOrder
  <2>6. \A d \in Large : d # c => \A q \in Ports, i \in {0, 1} :
           Coming(q, Port!Piece(d, i))' => Coming(q, Port!Piece(d, i))
    BY <2>4, FrameFacts
  <2> QED BY <1>5, <2>1, <2>5, <2>6 DEF NoFirst, NoneComing
<1>9. \/ down' = down
      \/ c \in Small /\ down' = [down EXCEPT ![relay] = Append(@, Port!Command(c))]
      \/ /\ c \in Large
         /\ down' = [down EXCEPT ![relay] = @ \o <<Port!Piece(c, 0), Port!Piece(c, 1)>>]
  <2>1. \/ down' = down
        \/ c \in Small /\ down' = [down EXCEPT ![relay] = @ \o <<Port!Command(c)>>]
        \/ /\ c \in Large
           /\ down' = [down EXCEPT ![relay] = @ \o <<Port!Piece(c, 0), Port!Piece(c, 1)>>]
    <3>1. \/ down' = down
          \/ Port!Tells(relay, IF c \in Small THEN <<Port!Command(c)>>
                               ELSE <<Port!Piece(c, 0), Port!Piece(c, 1)>>)
      BY DEF Port!Sends
    <3>2. c \in Small \/ c \in Large
      BY DEF Commands
    <3> QED BY <3>1, <3>2 DEF Port!Tells, PortInvariant, PortTypes
  <2>2. c \in Small => down[relay] \o <<Port!Command(c)>> = Append(down[relay], Port!Command(c))
    BY <1>1 DEF Frames, PortInvariant, PortTypes
  <2> QED BY <2>1, <2>2
<1> QED BY <1>6, <1>7, <1>8, <1>9

\* A transfer is given up, and the answer says so.
LEMMA PortGivesUp ==
    ASSUME PortInvariant, NEW c \in Large, port \in Ports, sentBy[c] = port,
           c \notin started, FramesInOrder', down' \in [Ports -> Seq(Frames)],
           \A d \in Large : /\ NoFirst(d) => NoFirst(d)'
                            /\ NoneComing(d) => NoneComing(d)',
           NoFirst(c)',
           entry' = [entry EXCEPT ![c] = "none"],
           digest' \in {digest, [digest EXCEPT ![c] = 0]},
           answers' = answers \union {[of |-> c, by |-> port, effect |-> "none"]},
           UNCHANGED <<worker, port, used, relay, sentBy, running, started>>
    PROVE  PortInvariant'
<1> DEFINE a == [of |-> c, by |-> port, effect |-> "none"]
<1>1. a \in [of : Commands, by : 1 .. MaxPorts, effect : {"none", "done"}]
  BY DEF Ports, Commands
<1>2. a.of = c /\ a.by = port /\ a.effect = "none" /\ answers' = answers \union {a}
  OBVIOUS
<1>3. /\ entry'[c] = "none"
      /\ \A d \in Large : /\ d # c => entry'[d] = entry[d]
                          /\ digest'[d] \in {digest[d], 0}
      /\ entry' \in [Large -> {"none", "first", "whole"}] /\ digest' \in [Large -> 0 .. MaxPorts]
  BY PortAssumption DEF PortInvariant, PortTypes
<1> HIDE DEF a
<1>4. PortTypes'
  BY <1>1, <1>2, <1>3 DEF PortInvariant, PortTypes
<1>5. TransfersAreHome'
  BY <1>3 DEF PortInvariant, TransfersAreHome
<1>6. TransfersGoForward'
  <2>1. \A d \in Large :
           /\ entry'[d] = "first" => NoFirst(d)'
           /\ entry'[d] = "whole" \/ digest'[d] # 0 \/ d \in started' => NoneComing(d)'
           /\ d \in started' => entry'[d] = "none" /\ digest'[d] = 0
    BY <1>3 DEF PortInvariant, TransfersGoForward
  <2>2. ASSUME NEW b \in answers'
        PROVE  /\ b.by = sentBy'[b.of]
               /\ b.effect = "none" => /\ b.of \in Large /\ entry'[b.of] = "none"
                                       /\ NoFirst(b.of)' /\ b.of \notin started'
    <3>1. CASE b \in answers
      BY <1>3, <3>1 DEF PortInvariant, TransfersGoForward
    <3>2. CASE b = a
      BY <1>2, <1>3, <3>2
    <3> QED BY <1>2, <3>1, <3>2
  <2> QED BY <2>1, <2>2 DEF TransfersGoForward
<1> QED BY <1>4, <1>5, <1>6 DEF PortInvariant

\* A short command arrives and runs.
LEMMA PortHearsCommand ==
    ASSUME PortInvariant, Port!HearsCommand
    PROVE  PortInvariant'
<1> USE PortAssumption DEF Port!hostVars, Port!transferVars, Port!commandVars
<1> DEFINE c == Head(down[port]).of
<1>1. /\ port # 0 /\ down[port] # <<>> /\ Head(down[port]).is = "command" /\ Port!Takes
      /\ running' = [running EXCEPT ![c] = port] /\ started' = started \union {c}
      /\ UNCHANGED <<worker, port, used, relay, entry, digest, sentBy, answers>>
  BY DEF Port!HearsCommand, Port!Frame, Port!Runs
<1>2. port \in Ports
  BY <1>1 DEF PortInvariant, PortTypes, Ports
<1>3. /\ FramesInOrder' /\ down' \in [Ports -> Seq(Frames)]
      /\ \A p \in Ports : \A f : Coming(p, f)' => Coming(p, f)
      /\ Head(down[port]) \in Frames /\ Coming(port, Head(down[port]))
  BY <1>1, <1>2, PortTakes
<1>4. c \in Small /\ Head(down[port]) = Port!Command(c)
  <2>1. Head(down[port]) \in {Port!Command(d) : d \in Small}
    BY <1>1, <1>3, FrameFacts DEF Frames
  <2> QED BY <2>1, FrameFacts
<1>5. sentBy[c] = port /\ c \in Commands /\ c \notin Large
  BY <1>2, <1>3, <1>4 DEF PortInvariant, FramesInOrder, Commands
<1> HIDE DEF c
<1>6. PortTypes'
  BY <1>1, <1>2, <1>3, <1>5 DEF PortInvariant, PortTypes, Ports
<1>7. TransfersAreHome'
  BY <1>1, <1>2, <1>5 DEF PortInvariant, PortTypes, TransfersAreHome, Ports
<1>8. \A d \in Large : /\ NoFirst(d) => NoFirst(d)'
                       /\ NoneComing(d) => NoneComing(d)'
  BY <1>3 DEF NoFirst, NoneComing
<1>9. TransfersGoForward'
  BY <1>1, <1>5, <1>8 DEF PortInvariant, TransfersGoForward
<1> QED BY <1>3, <1>6, <1>7, <1>9 DEF PortInvariant

\* A piece of a long command arrives, and is taken or is the end of its transfer.
LEMMA PortHearsPiece ==
    ASSUME PortInvariant, Port!HearsPiece
    PROVE  PortInvariant'
<1> USE PortAssumption DEF Port!hostVars, Port!transferVars, Port!commandVars
<1>1. /\ port # 0 /\ down[port] # <<>> /\ Head(down[port]).is = "piece" /\ Port!Takes
      /\ UNCHANGED <<worker, port, used, relay, sentBy, running, started>>
  BY DEF Port!HearsPiece, Port!Frame
<1>2. port \in Ports /\ port \in 1 .. MaxPorts
  BY <1>1 DEF PortInvariant, PortTypes, Ports
<1>3. /\ FramesInOrder' /\ down' \in [Ports -> Seq(Frames)]
      /\ \A p \in Ports : \A f : Coming(p, f)' => Coming(p, f)
      /\ Head(down[port]) \in Frames /\ Coming(port, Head(down[port]))
      /\ \A d \in Large, j \in {0, 1} : Head(down[port]) = Port!Piece(d, j) =>
            (j = 1 => NoneComing(d)') /\ NoFirst(d)'
  BY <1>1, <1>2, PortTakes
<1>4. PICK c \in Large, i \in {0, 1} : Head(down[port]) = Port!Piece(c, i)
  <2>1. Head(down[port]) \in {Port!Piece(d, j) : d \in Large, j \in {0, 1}}
    BY <1>1, <1>3, FrameFacts DEF Frames
  <2> QED BY <2>1
<1>5. \/ /\ i = 0 => entry[c] = "none"
         /\ i # 0 => entry[c] = "first"
         /\ entry' = [entry EXCEPT ![c] = IF i = 0 THEN "first" ELSE "whole"]
         /\ digest' = [digest EXCEPT ![c] = IF i = 0 THEN 0 ELSE port]
         /\ UNCHANGED answers
      \/ /\ entry' = [entry EXCEPT ![c] = "none"] /\ UNCHANGED digest
         /\ answers' = answers \union {[of |-> c, by |-> port, effect |-> "none"]}
  <2>1. Head(down[port]).of = c /\ Head(down[port]).index = i
    BY <1>4, FrameFacts
  <2> QED BY <1>1, <2>1 DEF Port!HearsPiece, Port!Accepts, Port!Answer
<1>6. sentBy[c] = port /\ c \in Commands
  BY <1>2, <1>3, <1>4 DEF PortInvariant, FramesInOrder, Commands
<1>7. c \notin started /\ entry[c] # "whole" /\ digest[c] = 0
  <2>1. ~NoneComing(c)
    BY <1>2, <1>3, <1>4 DEF NoneComing
  <2> QED BY <1>4, <2>1 DEF PortInvariant, TransfersGoForward
<1>8. (i = 1 => NoneComing(c)') /\ NoFirst(c)'
  BY <1>3, <1>4
<1>9. \A d \in Large : /\ NoFirst(d) => NoFirst(d)'
                       /\ NoneComing(d) => NoneComing(d)'
  BY <1>3 DEF NoFirst, NoneComing
<1>10. \A a \in answers : a.of = c => a.effect # "none" \/ i # 0
  BY <1>2, <1>3, <1>4 DEF PortInvariant, TransfersGoForward, NoFirst
<1>11. \A a \in answers : a.of = c /\ a.effect = "none" => entry[c] = "none"
  BY DEF PortInvariant, TransfersGoForward
<1>12. CASE /\ i = 0 => entry[c] = "none"
            /\ i # 0 => entry[c] = "first"
            /\ entry' = [entry EXCEPT ![c] = IF i = 0 THEN "first" ELSE "whole"]
            /\ digest' = [digest EXCEPT ![c] = IF i = 0 THEN 0 ELSE port]
            /\ UNCHANGED answers
  <2>1. /\ entry'[c] = IF i = 0 THEN "first" ELSE "whole"
        /\ digest'[c] = IF i = 0 THEN 0 ELSE port
        /\ \A d \in Large : d # c => entry'[d] = entry[d] /\ digest'[d] = digest[d]
        /\ entry' \in [Large -> {"none", "first", "whole"}] /\ digest' \in [Large -> 0 .. MaxPorts]
    BY <1>2, <1>4, <1>12 DEF PortInvariant, PortTypes
  <2>2. PortTypes'
    BY <1>1, <1>3, <1>12, <2>1 DEF PortInvariant, PortTypes
  <2>3. TransfersAreHome'
    BY <1>1, <1>6, <1>12, <2>1 DEF PortInvariant, TransfersAreHome
  <2>4. TransfersGoForward'
    <3>0. i = 0 \/ i = 1
      BY <1>4
    <3>1. ASSUME NEW d \in Large
          PROVE  /\ entry'[d] = "first" => NoFirst(d)'
                 /\ entry'[d] = "whole" \/ digest'[d] # 0 \/ d \in started' => NoneComing(d)'
                 /\ d \in started' => entry'[d] = "none" /\ digest'[d] = 0
      <4>1. CASE d = c
        <5>1. d \notin started' /\ NoFirst(d)'
          BY <1>1, <1>7, <1>8, <4>1
        <5>2. CASE i = 0
          BY <2>1, <4>1, <5>1, <5>2
        <5>3. CASE i = 1
          BY <1>8, <4>1, <5>1, <5>3
        <5> QED BY <3>0, <5>2, <5>3
      <4>2. CASE d # c
        BY <1>1, <1>9, <2>1, <4>2 DEF PortInvariant, TransfersGoForward
      <4> QED BY <4>1, <4>2
    <3>2. \A a \in answers : a.of = c => a.effect # "none"
      BY <1>12, <1>10, <1>11
    <3>3. \A a \in answers' :
             /\ a.by = sentBy'[a.of]
             /\ a.effect = "none" => /\ a.of \in Large /\ entry'[a.of] = "none" /\ NoFirst(a.of)'
                                     /\ a.of \notin started'
      BY <1>1, <1>9, <1>12, <2>1, <3>2 DEF PortInvariant, TransfersGoForward
    <3> QED BY <3>1, <3>3 DEF TransfersGoForward
  <2> QED BY <1>3, <2>2, <2>3, <2>4 DEF PortInvariant
<1>13. CASE /\ entry' = [entry EXCEPT ![c] = "none"] /\ UNCHANGED digest
            /\ answers' = answers \union {[of |-> c, by |-> port, effect |-> "none"]}
  BY <1>1, <1>2, <1>3, <1>4, <1>6, <1>7, <1>8, <1>9, <1>13, PortGivesUp
<1> QED BY <1>5, <1>12, <1>13

\* A transfer's time is up.
LEMMA PortExpires ==
    ASSUME PortInvariant, NEW c \in Large, Port!Expires(c)
    PROVE  PortInvariant'
<1>1. /\ UNCHANGED <<worker, port, used, relay, down, sentBy, running, started, digest>>
      /\ entry[c] # "none" /\ entry' = [entry EXCEPT ![c] = "none"]
      /\ port # 0 /\ sentBy[c] = port
      /\ answers' = answers \union {[of |-> c, by |-> port, effect |-> "none"]}
  BY DEF Port!Expires, Port!Answer, Port!hostVars, PortInvariant, TransfersAreHome
<1>2. port \in Ports
  BY <1>1, PortAssumption DEF PortInvariant, PortTypes, Ports
<1>3. /\ FramesInOrder' /\ down' \in [Ports -> Seq(Frames)]
      /\ \A p \in Ports : \A f : Coming(p, f)' <=> Coming(p, f)
  BY <1>1 DEF PortInvariant, PortTypes, FramesInOrder, Coming
<1>4. c \notin started /\ NoFirst(c)
  BY <1>1 DEF PortInvariant, PortTypes, TransfersGoForward, NoneComing, NoFirst
<1>5. \A d \in Large : /\ NoFirst(d) => NoFirst(d)'
                       /\ NoneComing(d) => NoneComing(d)'
  BY <1>3 DEF NoFirst, NoneComing
<1> QED BY <1>1, <1>2, <1>3, <1>4, <1>5, PortGivesUp

\* The digest of a transfer is there: it runs, or it is the end of it.
LEMMA PortDigested ==
    ASSUME PortInvariant, NEW c \in Large, Port!Digested(c)
    PROVE  PortInvariant'
<1> USE PortAssumption DEF Port!hostVars, Port!transferVars, Port!commandVars
<1>1. /\ UNCHANGED <<worker, port, used, relay, down, sentBy>>
      /\ digest[c] # 0 /\ digest' = [digest EXCEPT ![c] = 0]
      /\ entry' = [entry EXCEPT ![c] = "none"]
      /\ \/ /\ entry[c] = "whole" /\ digest[c] = port /\ UNCHANGED answers
            /\ running' = [running EXCEPT ![c] = port] /\ started' = started \union {c}
         \/ UNCHANGED <<answers, running, started>>
         \/ /\ answers' = answers \union {[of |-> c, by |-> port, effect |-> "none"]}
            /\ digest[c] = port /\ UNCHANGED <<running, started>>
  BY DEF Port!Digested, Port!StillThere, Port!Runs, Port!Answer
<1>2. /\ c \in Commands /\ sentBy[c] = digest[c] /\ digest[c] \in Ports /\ c \notin started
      /\ NoFirst(c) /\ NoneComing(c)
  BY <1>1 DEF PortInvariant, PortTypes, TransfersAreHome, TransfersGoForward, Commands, Ports,
     NoneComing, NoFirst
<1>3. /\ FramesInOrder' /\ down' \in [Ports -> Seq(Frames)]
      /\ \A p \in Ports : \A f : Coming(p, f)' <=> Coming(p, f)
  BY <1>1 DEF PortInvariant, PortTypes, FramesInOrder, Coming
<1>4. \A d \in Large : /\ NoFirst(d) => NoFirst(d)'
                       /\ NoneComing(d) => NoneComing(d)'
  BY <1>3 DEF NoFirst, NoneComing
<1>5. /\ entry'[c] = "none" /\ digest'[c] = 0
      /\ \A d \in Large : d # c => entry'[d] = entry[d] /\ digest'[d] = digest[d]
      /\ entry' \in [Large -> {"none", "first", "whole"}] /\ digest' \in [Large -> 0 .. MaxPorts]
  BY <1>1 DEF PortInvariant, PortTypes
<1>6. CASE /\ entry[c] = "whole" /\ digest[c] = port /\ UNCHANGED answers
           /\ running' = [running EXCEPT ![c] = port] /\ started' = started \union {c}
  <2>1. PortTypes'
    BY <1>1, <1>2, <1>3, <1>5, <1>6 DEF PortInvariant, PortTypes, Ports
  <2>2. TransfersAreHome'
    BY <1>1, <1>2, <1>5, <1>6 DEF PortInvariant, PortTypes, TransfersAreHome, Ports
  <2>3. TransfersGoForward'
    BY <1>1, <1>2, <1>4, <1>5, <1>6 DEF PortInvariant, TransfersGoForward
  <2> QED BY <1>3, <2>1, <2>2, <2>3 DEF PortInvariant
<1>7. CASE UNCHANGED <<answers, running, started>>
  <2>1. PortTypes' /\ TransfersAreHome'
    BY <1>1, <1>3, <1>5, <1>7 DEF PortInvariant, PortTypes, TransfersAreHome
  <2>2. TransfersGoForward'
    BY <1>1, <1>2, <1>4, <1>5, <1>7 DEF PortInvariant, TransfersGoForward
  <2> QED BY <1>3, <2>1, <2>2 DEF PortInvariant
<1>8. CASE /\ answers' = answers \union {[of |-> c, by |-> port, effect |-> "none"]}
           /\ digest[c] = port /\ UNCHANGED <<running, started>>
  BY <1>1, <1>2, <1>3, <1>4, <1>5, <1>8, PortGivesUp
<1> QED BY <1>1, <1>6, <1>7, <1>8

\* A command ends, and is answered if its port is still the worker's.
LEMMA PortFinishes ==
    ASSUME PortInvariant, NEW c \in Commands, Port!Finishes(c)
    PROVE  PortInvariant'
<1> USE PortAssumption DEF Port!hostVars, Port!transferVars, Port!commandVars
<1> DEFINE a == [of |-> c, by |-> running[c], effect |-> "done"]
<1>1. /\ UNCHANGED <<worker, port, used, relay, down, sentBy, entry, digest, started>>
      /\ running[c] # 0 /\ running' = [running EXCEPT ![c] = 0]
      /\ answers' = answers \/ answers' = answers \union {a}
  BY DEF Port!Finishes, Port!Answer, Port!ReplyPort
<1>2. running[c] \in 1 .. MaxPorts /\ sentBy[c] = running[c]
  BY <1>1 DEF PortInvariant, PortTypes, TransfersAreHome
<1>3. a \in [of : Commands, by : 1 .. MaxPorts, effect : {"none", "done"}]
  BY <1>2
<1>4. a.of = c /\ a.by = running[c] /\ a.effect = "done"
  OBVIOUS
<1>5. /\ FramesInOrder'
      /\ \A d \in Large : (NoFirst(d)' <=> NoFirst(d)) /\ (NoneComing(d)' <=> NoneComing(d))
  BY <1>1 DEF PortInvariant, FramesInOrder, Coming, NoFirst, NoneComing
<1> HIDE DEF a
<1>6. PortTypes' /\ TransfersAreHome'
  BY <1>1, <1>3 DEF PortInvariant, PortTypes, TransfersAreHome
<1>7. TransfersGoForward'
  BY <1>1, <1>2, <1>4, <1>5 DEF PortInvariant, TransfersGoForward
<1> QED BY <1>5, <1>6, <1>7 DEF PortInvariant

\* No port is open at first.
LEMMA PortInit == Port!Init => PortInvariant
BY PortAssumption
   DEF Port!Init, Port!Ports, Port!Commands, PortInvariant, PortTypes, FramesInOrder,
       TransfersAreHome, TransfersGoForward, NoFirst, NoneComing, Coming, Ports, Commands

\* Every step of the port, the worker, the hosts and the broker keeps frames in order.
LEMMA PortStep == PortInvariant /\ [Port!Next]_(Port!vars) => PortInvariant'
<1> SUFFICES ASSUME PortInvariant, [Port!Next]_(Port!vars)
             PROVE  PortInvariant'
  OBVIOUS
<1>1. CASE UNCHANGED Port!vars
  BY <1>1 DEF Port!vars, Port!hostVars, Port!transferVars, Port!commandVars, PortInvariant,
     PortTypes, FramesInOrder, TransfersAreHome, TransfersGoForward, NoFirst, NoneComing, Coming
<1> QED
  BY <1>1, PortLineStep, PortHearsCommand, PortHearsPiece, PortSends, PortFinishes, PortExpires,
     PortDigested
  DEF Port!Next, Port!Traffic, Port!Commands, Commands

\* What the Extension answers for a command is true: without effect only if it never
\* runs, and on the port that it came by.
THEOREM AnswersOfThePort == Port!Spec => []AnswersAreSound
<1>1. PortInvariant => AnswersAreSound
  BY DEF PortInvariant, TransfersGoForward, AnswersAreSound, Port!AnswersAreSound,
     Port!NoEffectIsTrue, Port!AnswersStayHome
<1> QED BY <1>1, PortInit, PortStep, PTL DEF Port!Spec

-----------------------------------------------------------------------------
(* The client: its connection and its requests                              *)

SocketStates == {"unused", "dialing", "ready", "lost", "ended"}

ClientTypes ==
    /\ peer \in 0 .. MaxConns /\ dialing \in Nat
    /\ connected \in BOOLEAN /\ closed \in BOOLEAN
    /\ connected => peer \in Conns
    /\ socket \in [Conns -> SocketStates]
    /\ call \in [Calls -> Call]
    /\ fate \in [Calls \X Conns -> {"none", "transit", "done", "void"}]

\* While a connection is dialled the one before has been closed.
OneConnection ==
    /\ \A n \in Conns : socket[n] = "ready" => n = peer /\ ~closed
    /\ dialing # 0 => \A n \in Conns : socket[n] # "ready"

\* An attempt that may be made again has written less than it may.
Counts(k) ==
    /\ k.pc \in {"idle", "reconnect", "sent"} => k.outcome = "none"
    /\ k.pc = "idle" => k.writes = 0
    /\ k.pc = "reconnect" => Reading(k) /\ k.writes < k.try
    /\ k.pc = "sent" => k.writes <= k.try /\ k.on \in Conns
    /\ k.probing => k.method = "open" /\ k.writes = 0
    /\ k.method # "read" => k.writes <= 1
    /\ k.outcome = "refused" => k.writes = 0
AttemptsCount == \A c \in Calls : Counts(call[c])

ClientInvariant == ClientTypes /\ OneConnection /\ AttemptsCount

Sent(k, n) ==
    [k EXCEPT !.pc = "sent", !.on = n, !.writes = IF k.probing THEN @ ELSE @ + 1]
Again(k) == [k EXCEPT !.pc = "reconnect", !.try = 2]
Overdue(k, b) == [k EXCEPT !.over = b]
Aborted(k) == [k EXCEPT !.aborted = TRUE]

Probed(k) == [k EXCEPT !.probing = FALSE, !.try = 1]

\* The fields of an attempt that ends.
LEMMA CallEnds ==
    ASSUME NEW k \in Call, NEW o \in Outcomes
    PROVE  /\ Ended(k, o) \in Call /\ Ended(k, o).pc = "ended" /\ Ended(k, o).outcome = o
           /\ Ended(k, o).writes = k.writes /\ Ended(k, o).method = k.method
           /\ Ended(k, o).probing = k.probing /\ Ended(k, o).on = k.on
BY DEF Ended, Call

\* The fields of an attempt that is late or given up.
LEMMA CallMarked ==
    ASSUME NEW k \in Call, NEW b \in BOOLEAN
    PROVE  /\ Overdue(k, b) \in Call /\ Overdue(k, b).pc = k.pc
           /\ Overdue(k, b).outcome = k.outcome /\ Overdue(k, b).writes = k.writes
           /\ Overdue(k, b).method = k.method /\ Overdue(k, b).probing = k.probing
           /\ Overdue(k, b).on = k.on /\ Overdue(k, b).try = k.try
           /\ Aborted(k) \in Call /\ Aborted(k).pc = k.pc
           /\ Aborted(k).outcome = k.outcome /\ Aborted(k).writes = k.writes
           /\ Aborted(k).method = k.method /\ Aborted(k).probing = k.probing
           /\ Aborted(k).on = k.on /\ Aborted(k).try = k.try
BY DEF Overdue, Aborted, Call

\* The fields of an attempt that is written.
LEMMA CallSent ==
    ASSUME NEW k \in Call, NEW n \in Conns, k.probing \/ k.writes <= 1
    PROVE  /\ Sent(k, n) \in Call /\ Sent(k, n).pc = "sent" /\ Sent(k, n).on = n
           /\ Sent(k, n).outcome = k.outcome /\ Sent(k, n).method = k.method
           /\ Sent(k, n).probing = k.probing /\ Sent(k, n).try = k.try
           /\ Sent(k, n).writes = IF k.probing THEN k.writes ELSE k.writes + 1
<1> DEFINE w == IF k.probing THEN k.writes ELSE k.writes + 1
<1>1. w \in 0 .. 2 /\ n \in 0 .. MaxConns
  BY ClientAssumption DEF Call, Conns
<1>2. Sent(k, n) = [k EXCEPT !.pc = "sent", !.on = n, !.writes = w]
  BY DEF Sent
<1> HIDE DEF w
<1>3. Sent(k, n) \in Call /\ Sent(k, n).writes = w
  BY <1>1, <1>2 DEF Call
<1>4. /\ Sent(k, n).pc = "sent" /\ Sent(k, n).on = n
      /\ Sent(k, n).outcome = k.outcome /\ Sent(k, n).method = k.method
      /\ Sent(k, n).probing = k.probing /\ Sent(k, n).try = k.try
  BY <1>2 DEF Call
<1> QED BY <1>3, <1>4 DEF w

\* The fields of a call whose status probe has been answered.
LEMMA CallProbed ==
    ASSUME NEW k \in Call
    PROVE  /\ Probed(k) \in Call /\ ~Probed(k).probing /\ Probed(k).try = 1
           /\ Probed(k).pc = k.pc /\ Probed(k).outcome = k.outcome
           /\ Probed(k).method = k.method /\ Probed(k).writes = k.writes
<1>1. 1 \in 1 .. 2
  OBVIOUS
<1>2. Probed(k) \in Call
  BY <1>1, Zenon DEF Probed, Call
<1> QED BY <1>2 DEF Probed, Call

\* The fields of a call that is to be made again.
LEMMA CallAgain ==
    ASSUME NEW k \in Call
    PROVE  /\ Again(k) \in Call /\ Again(k).pc = "reconnect" /\ Again(k).try = 2
           /\ Again(k).outcome = k.outcome /\ Again(k).method = k.method
           /\ Again(k).probing = k.probing /\ Again(k).writes = k.writes
<1>1. 2 \in 1 .. 2
  OBVIOUS
<1>2. Again(k) \in Call
  BY <1>1, Zenon DEF Again, Call
<1> QED BY <1>2 DEF Again, Call

\* An attempt that ends has written no more than it had.
LEMMA EndedCounts ==
    ASSUME NEW k \in Call, Counts(k), NEW o \in Outcomes, o = "refused" => k.writes = 0
    PROVE  Ended(k, o) \in Call /\ Counts(Ended(k, o))
BY CallEnds DEF Counts

\* An attempt that fails ends, or is made once more if it is a read's first.
LEMMA FailedCounts ==
    ASSUME NEW k \in Call, Counts(k), k.pc = "sent", NEW o \in {"lost", "timeout"}
    PROVE  /\ Failed(k, o) \in Call /\ Counts(Failed(k, o))
           /\ Failed(k, o).pc \in {"reconnect", "ended"}
           /\ Failed(k, o).pc = "ended" => Failed(k, o).outcome = o
<1>1. o \in Outcomes /\ o # "refused"
  BY DEF Outcomes
<1>2. CASE MayRetry(k, o)
  <2>1. Failed(k, o) = Again(k)
    BY <1>2 DEF Failed, Again
  <2>2. k.writes <= 1 /\ k.writes \in Nat
    BY <1>2 DEF Counts, MayRetry, Call
  <2>3. Reading(Again(k))
    BY <1>2, CallAgain DEF MayRetry, Reading
  <2>4. Counts(Again(k))
    BY <2>2, <2>3, CallAgain DEF Counts
  <2> QED BY <2>1, <2>4, CallAgain
<1>3. CASE ~MayRetry(k, o)
  <2>1. Failed(k, o) = Ended(k, o)
    BY <1>3 DEF Failed
  <2> QED BY <1>1, <2>1, EndedCounts, CallEnds
<1> QED BY <1>2, <1>3

\* An attempt is written, or it has been given up before.
LEMMA OnceCounts ==
    ASSUME NEW k \in Call, NEW n \in Conns, k.outcome = "none",
           k.probing => k.method = "open" /\ k.writes = 0,
           ~k.probing => k.writes < k.try,
           k.method # "read" => k.writes = 0
    PROVE  /\ Once(k, n) \in Call /\ Counts(Once(k, n))
           /\ Once(k, n).probing = k.probing
           /\ \/ Once(k, n).pc = "sent" /\ Once(k, n).on = n
              \/ Once(k, n).pc = "ended" /\ Once(k, n).outcome \in {"cancelled", "timeout"}
<1>1. k.writes \in 0 .. 2 /\ k.try \in 1 .. 2
  BY DEF Call
<1>2. CASE Once(k, n) = Sent(k, n)
  <2>1. k.probing \/ k.writes <= 1
    BY <1>1
  <2>2. /\ Sent(k, n) \in Call /\ Sent(k, n).pc = "sent" /\ Sent(k, n).on = n
        /\ Sent(k, n).outcome = k.outcome /\ Sent(k, n).method = k.method
        /\ Sent(k, n).probing = k.probing /\ Sent(k, n).try = k.try
        /\ Sent(k, n).writes = IF k.probing THEN k.writes ELSE k.writes + 1
    BY <2>1, CallSent
  <2>3. Counts(Sent(k, n))
    <3>1. CASE k.probing
      BY <1>1, <2>2, <3>1 DEF Counts
    <3>2. CASE ~k.probing
      BY <1>1, <2>2, <3>2 DEF Counts
    <3> QED BY <3>1, <3>2
  <2> QED BY <1>2, <2>2, <2>3
<1>3. ASSUME NEW o \in {"cancelled", "timeout"}, Once(k, n) = Ended(k, o)
      PROVE  /\ Once(k, n) \in Call /\ Counts(Once(k, n))
             /\ Once(k, n).probing = k.probing
             /\ Once(k, n).pc = "ended" /\ Once(k, n).outcome = o
  <2>1. o \in Outcomes /\ o # "refused"
    BY DEF Outcomes
  <2>2. /\ Ended(k, o) \in Call /\ Ended(k, o).pc = "ended" /\ Ended(k, o).outcome = o
        /\ Ended(k, o).writes = k.writes /\ Ended(k, o).method = k.method
        /\ Ended(k, o).probing = k.probing
    BY <2>1, CallEnds
  <2>3. Counts(Ended(k, o))
    BY <1>1, <2>1, <2>2 DEF Counts
  <2> QED BY <1>3, <2>2, <2>3
<1>4. \/ Once(k, n) = Ended(k, "cancelled") \/ Once(k, n) = Ended(k, "timeout")
      \/ Once(k, n) = Sent(k, n)
  BY DEF Once, Sent
<1> QED BY <1>2, <1>3, <1>4

\* A call that awaits a reconnection may be written again.
LEMMA AwaitedCounts ==
    ASSUME NEW k \in Call, Counts(k), k.pc = "reconnect", NEW n \in Conns
    PROVE  /\ Once(k, n) \in Call /\ Counts(Once(k, n))
           /\ Once(k, n).probing = k.probing
           /\ \/ Once(k, n).pc = "sent" /\ Once(k, n).on = n
              \/ Once(k, n).pc = "ended" /\ Once(k, n).outcome \in {"cancelled", "timeout"}
<1>1. /\ k.outcome = "none" /\ k.writes < k.try /\ Reading(k)
      /\ k.probing => k.method = "open" /\ k.writes = 0
  BY DEF Counts
<1>2. k.method # "read" => k.writes = 0
  BY <1>1 DEF Reading
<1> QED BY <1>1, <1>2, OnceCounts

\* Calls go on as #reconnect has it: no connection is there but the attached one.
LEMMA Continued ==
    ASSUME ClientInvariant, NEW calls \in [Calls -> Call], \A c \in Calls : Counts(calls[c]),
           NEW live \in [Conns -> SocketStates],
           \A n \in Conns : live[n] = "ready" => socket[n] = "ready",
           Continue(calls, live), UNCHANGED closed,
           fate' \in [Calls \X Conns -> {"none", "transit", "done", "void"}]
    PROVE  /\ ClientInvariant'
           /\ \A c \in Calls : \/ call'[c] = calls[c]
                               \/ call'[c].pc = "ended" /\ calls[c].pc = "reconnect"
                                  /\ call'[c].outcome = "unavailable"
<1>1. NextConn \in Nat /\ NextConn # 0
  <2>1. IsFiniteSet(Conns)
    BY ClientAssumption, FS_Interval DEF Conns
  <2>2. IsFiniteSet({n \in Conns : socket[n] # "unused"})
    BY <2>1, FS_Subset
  <2>3. Cardinality({n \in Conns : socket[n] # "unused"}) \in Nat
    BY <2>2, FS_CardinalityType
  <2> QED BY <2>3 DEF NextConn
<1>2. CASE Waiting(calls) = {} \/ dialing # 0
  BY <1>2 DEF Continue, ClientInvariant, ClientTypes, OneConnection, AttemptsCount
<1>3. CASE ~(Waiting(calls) = {} \/ dialing # 0) /\ closed
  <2>1. /\ call' = [c \in Calls |-> IF c \in Waiting(calls)
                                    THEN Ended(calls[c], "unavailable") ELSE calls[c]]
        /\ socket' = live /\ UNCHANGED <<peer, connected, dialing>>
    BY <1>3 DEF Continue
  <2>2. \A c \in Calls : /\ call'[c] \in Call /\ Counts(call'[c])
                         /\ \/ call'[c] = calls[c]
                            \/ call'[c].pc = "ended" /\ calls[c].pc = "reconnect"
                               /\ call'[c].outcome = "unavailable"
    <3> SUFFICES ASSUME NEW c \in Calls
                 PROVE  /\ call'[c] \in Call /\ Counts(call'[c])
                        /\ \/ call'[c] = calls[c]
                           \/ call'[c].pc = "ended" /\ calls[c].pc = "reconnect"
                              /\ call'[c].outcome = "unavailable"
      OBVIOUS
    <3>1. CASE c \in Waiting(calls)
      <4>1. call'[c] = Ended(calls[c], "unavailable") /\ calls[c].pc = "reconnect"
        BY <2>1, <3>1 DEF Waiting
      <4> QED BY <4>1, EndedCounts, CallEnds DEF Outcomes
    <3>2. CASE c \notin Waiting(calls)
      BY <2>1, <3>2
    <3> QED BY <3>1, <3>2
  <2>3. call' \in [Calls -> Call]
    BY <2>1, <2>2
  <2> QED BY <2>1, <2>2, <2>3 DEF ClientInvariant, ClientTypes, OneConnection, AttemptsCount
<1>4. CASE ~(Waiting(calls) = {} \/ dialing # 0) /\ ~closed
  <2>1. /\ call' = calls /\ dialing' = NextConn /\ peer' = 0 /\ connected' = FALSE
        /\ socket' = [n \in Conns |->
              IF n = NextConn THEN "dialing"
              ELSE IF n = peer /\ live[n] = "ready" THEN "ended" ELSE live[n]]
    BY <1>4 DEF Continue
  <2>2. \A n \in Conns : socket'[n] # "ready" /\ socket'[n] \in SocketStates
    BY <2>1 DEF ClientInvariant, OneConnection, SocketStates
  <2>3. socket' \in [Conns -> SocketStates]
    BY <2>1, <2>2
  <2>4. ClientTypes'
    <3>1. peer' \in 0 .. MaxConns /\ dialing' \in Nat /\ call' \in [Calls -> Call]
      BY <1>1, <2>1, ClientAssumption
    <3>2. connected' \in BOOLEAN /\ closed' \in BOOLEAN /\ ~connected'
      BY <2>1, Zenon DEF ClientInvariant, ClientTypes
    <3> QED BY <2>3, <3>1, <3>2, Zenon DEF ClientTypes
  <2>5. OneConnection' /\ AttemptsCount'
    BY <2>1, <2>2 DEF OneConnection, AttemptsCount
  <2> QED BY <2>1, <2>4, <2>5 DEF ClientInvariant
<1> QED BY <1>2, <1>3, <1>4

\* The call's own request has been carried out: its answer is there, or has been heard.
Due(c) ==
    \/ call[c].pc = "sent" /\ ~call[c].probing /\ fate[<<c, call[c].on>>] = "done"
    \/ call[c].pc = "ended" /\ call[c].outcome = "answer"

\* The connection that a call waits for is not to be had.
LEMMA ClientDialFails ==
    ASSUME ClientInvariant, DialFailed
    PROVE  ClientInvariant' /\ \A c \in Calls : Due(c)' => Due(c)
<1>1. /\ dialing' = 0 /\ UNCHANGED <<peer, connected, closed, fate>>
      /\ socket' = [n \in Conns |-> IF n = dialing THEN "ended" ELSE socket[n]]
      /\ call' = [c \in Calls |-> IF call[c].pc = "reconnect"
                                  THEN Ended(call[c], "unavailable") ELSE call[c]]
  BY DEF DialFailed
<1>2. ASSUME NEW c \in Calls
      PROVE  call'[c] \in Call /\ Counts(call'[c]) /\ (Due(c)' => Due(c))
  <2>1. call[c] \in Call /\ Counts(call[c])
    BY DEF ClientInvariant, ClientTypes, AttemptsCount
  <2>2. CASE call[c].pc = "reconnect"
    <3>1. call'[c] = Ended(call[c], "unavailable")
      BY <1>1, <2>2
    <3>2. "unavailable" \in Outcomes
      BY DEF Outcomes
    <3>3. /\ call'[c] \in Call /\ Counts(call'[c])
          /\ call'[c].pc = "ended" /\ call'[c].outcome = "unavailable"
      BY <2>1, <3>1, <3>2, EndedCounts, CallEnds
    <3> QED BY <3>3 DEF Due
  <2>3. CASE call[c].pc # "reconnect"
    BY <1>1, <2>1, <2>3 DEF Due
  <2> QED BY <2>2, <2>3
<1>3. call' \in [Calls -> Call] /\ socket' \in [Conns -> SocketStates]
  BY <1>1, <1>2 DEF ClientInvariant, ClientTypes, SocketStates
<1>4. ClientTypes'
  BY <1>1, <1>3 DEF ClientInvariant, ClientTypes
<1>5. OneConnection'
  BY <1>1 DEF ClientInvariant, OneConnection
<1> QED BY <1>2, <1>4, <1>5 DEF ClientInvariant, AttemptsCount

\* The broker drops the connection that is dialled.
LEMMA ClientDialDrops ==
    ASSUME ClientInvariant, DialDropped
    PROVE  ClientInvariant' /\ \A c \in Calls : Due(c)' => Due(c)
<1>1. /\ UNCHANGED <<peer, connected, closed, dialing, call, fate>>
      /\ socket' = [socket EXCEPT ![dialing] = "lost"]
  BY DEF DialDropped
<1> QED BY <1>1 DEF ClientInvariant, ClientTypes, OneConnection, AttemptsCount, SocketStates, Due

\* The connection is there: the calls that wait for it go on, or the client has been closed.
LEMMA ClientDialReady ==
    ASSUME ClientInvariant, DialReady
    PROVE  ClientInvariant' /\ \A c \in Calls : Due(c)' => Due(c)
<1>1. dialing \in Conns /\ dialing # 0 /\ dialing' = 0 /\ UNCHANGED closed
  BY ClientAssumption DEF DialReady, Conns
<1>2. CASE closed
  <2>1. /\ socket' = [socket EXCEPT ![dialing] = "ended"]
        /\ call' = [c \in Calls |-> IF call[c].pc = "reconnect"
                                    THEN Ended(call[c], "unavailable") ELSE call[c]]
        /\ UNCHANGED <<peer, connected, fate>>
    BY <1>2 DEF DialReady, Attachable
  <2>2. ASSUME NEW c \in Calls
        PROVE  call'[c] \in Call /\ Counts(call'[c]) /\ (Due(c)' => Due(c))
    <3>1. call[c] \in Call /\ Counts(call[c])
      BY DEF ClientInvariant, ClientTypes, AttemptsCount
    <3>2. CASE call[c].pc = "reconnect"
      <4>1. call'[c] = Ended(call[c], "unavailable")
        BY <2>1, <3>2
      <4>2. "unavailable" \in Outcomes
        BY DEF Outcomes
      <4>3. /\ call'[c] \in Call /\ Counts(call'[c])
            /\ call'[c].pc = "ended" /\ call'[c].outcome = "unavailable"
        BY <3>1, <4>1, <4>2, EndedCounts, CallEnds
      <4> QED BY <4>3 DEF Due
    <3>3. CASE call[c].pc # "reconnect"
      BY <2>1, <3>1, <3>3 DEF Due
    <3> QED BY <3>2, <3>3
  <2>3. call' \in [Calls -> Call] /\ socket' \in [Conns -> SocketStates]
    BY <2>1, <2>2 DEF ClientInvariant, ClientTypes, SocketStates
  <2>4. ClientTypes'
    BY <1>1, <2>1, <2>3 DEF ClientInvariant, ClientTypes
  <2>5. OneConnection'
    BY <1>1, <2>1 DEF ClientInvariant, ClientTypes, OneConnection
  <2> QED BY <2>2, <2>4, <2>5 DEF ClientInvariant, AttemptsCount
<1>3. CASE ~closed
  <2>1. /\ socket' = [socket EXCEPT ![dialing] = "ready"]
        /\ peer' = dialing /\ connected' = TRUE
        /\ call' = [c \in Calls |-> IF call[c].pc = "reconnect"
                                    THEN Once(call[c], dialing) ELSE call[c]]
        /\ fate' = [m \in Calls \X Conns |->
              IF m[2] = dialing /\ call[m[1]].pc = "reconnect" /\ call'[m[1]].pc = "sent"
              THEN "transit" ELSE fate[m]]
    BY <1>3 DEF DialReady, Attachable
  <2>2. ASSUME NEW c \in Calls
        PROVE  call'[c] \in Call /\ Counts(call'[c]) /\ (Due(c)' => Due(c))
    <3>1. call[c] \in Call /\ Counts(call[c])
      BY DEF ClientInvariant, ClientTypes, AttemptsCount
    <3>2. CASE call[c].pc = "reconnect"
      <4>1. call'[c] = Once(call[c], dialing)
        BY <2>1, <3>2
      <4>2. /\ call'[c] \in Call /\ Counts(call'[c])
            /\ \/ call'[c].pc = "sent" /\ call'[c].on = dialing
               \/ call'[c].pc = "ended" /\ call'[c].outcome \in {"cancelled", "timeout"}
        BY <1>1, <3>1, <3>2, <4>1, AwaitedCounts
      <4>3. call'[c].pc = "sent" => fate'[<<c, dialing>>] = "transit"
        BY <1>1, <2>1, <3>2
      <4> QED BY <4>2, <4>3 DEF Due
    <3>3. CASE call[c].pc # "reconnect"
      <4>1. call'[c] = call[c]
        BY <2>1, <3>3
      <4>2. call[c].pc = "sent" => fate'[<<c, call[c].on>>] = fate[<<c, call[c].on>>]
        BY <2>1, <3>1, <3>3 DEF Counts
      <4> QED BY <3>1, <4>1, <4>2 DEF Due
    <3> QED BY <3>2, <3>3
  <2>3. call' \in [Calls -> Call] /\ socket' \in [Conns -> SocketStates]
    BY <2>1, <2>2 DEF ClientInvariant, ClientTypes, SocketStates
  <2>4. fate' \in [Calls \X Conns -> {"none", "transit", "done", "void"}]
    BY <2>1 DEF ClientInvariant, ClientTypes
  <2>5. ClientTypes'
    <3>1. peer' \in 0 .. MaxConns /\ dialing' \in Nat /\ peer' \in Conns
      BY <1>1, <2>1, ClientAssumption DEF Conns
    <3>2. connected' \in BOOLEAN /\ closed' \in BOOLEAN
      BY <1>1, <2>1, Zenon DEF ClientInvariant, ClientTypes
    <3> QED BY <2>3, <2>4, <3>1, <3>2, Zenon DEF ClientTypes
  <2>6. OneConnection'
    BY <1>1, <1>3, <2>1 DEF ClientInvariant, ClientTypes, OneConnection
  <2> QED BY <2>2, <2>5, <2>6 DEF ClientInvariant, AttemptsCount
<1> QED BY <1>2, <1>3

\* One call changes, and nothing of the connection.
LEMMA OneCallChanges ==
    ASSUME ClientInvariant, NEW c \in Calls, NEW k \in Call, Counts(k),
           call' = [call EXCEPT ![c] = k],
           fate' \in [Calls \X Conns -> {"none", "transit", "done", "void"}],
           UNCHANGED <<peer, connected, closed, dialing, socket>>
    PROVE  ClientInvariant'
<1>1. call' \in [Calls -> Call] /\ \A d \in Calls : call'[d] = IF d = c THEN k ELSE call[d]
  BY DEF ClientInvariant, ClientTypes
<1>2. ClientTypes'
  BY <1>1 DEF ClientInvariant, ClientTypes
<1>3. OneConnection'
  BY DEF ClientInvariant, OneConnection
<1> QED BY <1>1, <1>2, <1>3 DEF ClientInvariant, AttemptsCount

\* An answer is heard: it ends the call, or a probe is followed by the call's own request.
LEMMA ClientAnswers ==
    ASSUME ClientInvariant, NEW c \in Calls, Answer(c)
    PROVE  ClientInvariant' /\ \A d \in Calls : Due(d)' => Due(d)
<1>0. call[c] \in Call /\ Counts(call[c])
  BY DEF ClientInvariant, ClientTypes, AttemptsCount
<1>1. /\ call[c].pc = "sent" /\ call[c].on = peer /\ peer \in Conns
      /\ fate[<<c, peer>>] = "done" /\ UNCHANGED <<peer, connected, closed, dialing, socket>>
  BY <1>0 DEF Answer, Counts
<1>2. CASE ~call[c].probing
  <2>1. call' = [call EXCEPT ![c] = Ended(call[c], "answer")] /\ fate' = fate
    BY <1>2 DEF Answer
  <2>2. Ended(call[c], "answer") \in Call /\ Counts(Ended(call[c], "answer"))
    BY <1>0, EndedCounts DEF Outcomes
  <2>3. ClientInvariant'
    BY <2>1, <2>2, <1>1, OneCallChanges DEF ClientInvariant, ClientTypes
  <2>4. \A d \in Calls : d # c => call'[d] = call[d]
    BY <2>1 DEF ClientInvariant, ClientTypes
  <2> QED BY <1>1, <1>2, <2>1, <2>3, <2>4 DEF Due
<1>3. CASE call[c].probing
  <2> DEFINE k == Probed(call[c])
  <2>1. PICK next \in {Once(k, peer), Ended(k, "refused")} :
           /\ call' = [call EXCEPT ![c] = next]
           /\ fate' = [m \in Calls \X Conns |->
                IF m[1] # c THEN fate[m]
                ELSE IF next.pc = "sent" /\ m[2] = peer THEN "transit" ELSE "void"]
    BY <1>3 DEF Answer, Probed
  <2>2. call[c].writes = 0 /\ call[c].outcome = "none"
    BY <1>0, <1>1, <1>3 DEF Counts
  <2>3. /\ k \in Call /\ k.writes = 0 /\ k.outcome = "none" /\ k.pc = "sent"
        /\ k.method = call[c].method
    BY <1>0, <1>1, <2>2, CallProbed
  <2>4. ~k.probing /\ k.try = 1
    BY <1>0, CallProbed
  <2> HIDE DEF k
  <2>5. /\ Once(k, peer) \in Call /\ Counts(Once(k, peer))
        /\ \/ Once(k, peer).pc = "sent" /\ Once(k, peer).on = peer
           \/ Once(k, peer).pc = "ended" /\ Once(k, peer).outcome \in {"cancelled", "timeout"}
    BY <1>1, <2>3, <2>4, OnceCounts
  <2>6. /\ Ended(k, "refused") \in Call /\ Counts(Ended(k, "refused"))
        /\ Ended(k, "refused").pc = "ended" /\ Ended(k, "refused").outcome = "refused"
    <3>1. "refused" \in Outcomes
      BY DEF Outcomes
    <3> QED BY <2>3, <2>4, <3>1, CallEnds DEF Counts
  <2>7. fate' \in [Calls \X Conns -> {"none", "transit", "done", "void"}]
    BY <2>1 DEF ClientInvariant, ClientTypes
  <2>8. ClientInvariant'
    BY <1>1, <2>1, <2>5, <2>6, <2>7, OneCallChanges
  <2>9. ASSUME NEW d \in Calls, Due(d)'
        PROVE  Due(d)
    <3>1. CASE d = c
      <4>1. call'[c] = next
        BY <2>1 DEF ClientInvariant, ClientTypes
      <4>2. next.pc = "sent" => next.on = peer /\ fate'[<<c, peer>>] = "transit"
        BY <1>1, <2>1, <2>5, <2>6
      <4>3. next.pc = "ended" => next.outcome # "answer"
        BY <2>1, <2>5, <2>6
      <4> QED BY <2>9, <3>1, <4>1, <4>2, <4>3 DEF Due
    <3>2. CASE d # c
      <4>1. call'[d] = call[d]
        BY <2>1, <3>2 DEF ClientInvariant, ClientTypes
      <4>2. call[d].pc = "sent" => fate'[<<d, call[d].on>>] = fate[<<d, call[d].on>>]
        BY <2>1, <3>2 DEF ClientInvariant, AttemptsCount, Counts
      <4> QED BY <2>9, <4>1, <4>2 DEF Due
    <3> QED BY <3>1, <3>2
  <2> QED BY <2>8, <2>9
<1> QED BY <1>2, <1>3

\* The deadline of a call that waits for a connection goes by.
LEMMA ClientLate ==
    ASSUME ClientInvariant, NEW c \in Calls, Later(c)
    PROVE  ClientInvariant' /\ \A d \in Calls : Due(d)' => Due(d)
<1>1. /\ call' = [call EXCEPT ![c] = Overdue(call[c], TRUE)] /\ call[c].pc = "reconnect"
      /\ UNCHANGED <<peer, connected, closed, dialing, socket, fate>>
  BY DEF Later, Overdue
<1>2. call[c] \in Call /\ Counts(call[c])
  BY DEF ClientInvariant, ClientTypes, AttemptsCount
<1>3. /\ Overdue(call[c], TRUE) \in Call /\ Counts(Overdue(call[c], TRUE))
      /\ Overdue(call[c], TRUE).pc = "reconnect"
  BY <1>1, <1>2, CallMarked DEF Counts, Reading
<1>4. ClientInvariant'
  BY <1>1, <1>3, OneCallChanges DEF ClientInvariant, ClientTypes
<1>5. call'[c] = Overdue(call[c], TRUE) /\ \A d \in Calls : d # c => call'[d] = call[d]
  BY <1>1 DEF ClientInvariant, ClientTypes
<1> QED BY <1>1, <1>3, <1>4, <1>5 DEF Due

\* A cancellation follows the request of a call, and finds it or comes too late.
LEMMA CancelKeeps ==
    ASSUME ClientInvariant, NEW c \in Calls, call[c].pc = "sent", Cancel(c)
    PROVE  /\ fate' \in [Calls \X Conns -> {"none", "transit", "done", "void"}]
           /\ \A m \in Calls \X Conns : fate'[m] = "done" => fate[m] = "done"
<1>1. call[c].on \in Conns
  BY DEF ClientInvariant, AttemptsCount, Counts
<1>2. PICK f \in {"void", fate[<<c, call[c].on>>]} : fate' = [fate EXCEPT ![<<c, call[c].on>>] = f]
  BY DEF Cancel
<1> QED BY <1>1, <1>2 DEF ClientInvariant, ClientTypes

\* The timer of an attempt fires.
LEMMA ClientTimesOut ==
    ASSUME ClientInvariant, NEW c \in Calls, Timeout(c)
    PROVE  ClientInvariant' /\ \A d \in Calls : Due(d)' => Due(d)
<1>1. PICK over \in BOOLEAN :
         Continue([call EXCEPT ![c] = Failed(Overdue(call[c], over), "timeout")], socket)
  <2>1. PICK over \in {~(Reading(call[c]) /\ call[c].try = 1), TRUE} :
           Continue([call EXCEPT ![c] = Failed([@ EXCEPT !.over = over], "timeout")], socket)
    BY DEF Timeout
  <2>2. over \in BOOLEAN
    BY <2>1
  <2> QED BY <2>1, <2>2 DEF Overdue
<1>2. call[c].pc = "sent" /\ UNCHANGED closed /\ Cancel(c)
  BY DEF Timeout
<1>3. call[c] \in Call /\ Counts(call[c])
  BY DEF ClientInvariant, ClientTypes, AttemptsCount
<1> DEFINE k == Overdue(call[c], over)
           calls == [call EXCEPT ![c] = Failed(k, "timeout")]
<1>4. k \in Call /\ Counts(k) /\ k.pc = "sent"
  BY <1>2, <1>3, CallMarked DEF Counts, Reading
<1>5. /\ Failed(k, "timeout") \in Call /\ Counts(Failed(k, "timeout"))
      /\ Failed(k, "timeout").pc \in {"reconnect", "ended"}
      /\ Failed(k, "timeout").pc = "ended" => Failed(k, "timeout").outcome = "timeout"
  <2> HIDE DEF k
  <2> QED BY <1>4, FailedCounts
<1>6. /\ calls \in [Calls -> Call] /\ calls[c] = Failed(k, "timeout")
      /\ \A d \in Calls : d # c => calls[d] = call[d]
  <2> HIDE DEF k
  <2> QED BY <1>5 DEF ClientInvariant, ClientTypes
<1>7. \A d \in Calls : Counts(calls[d])
  <2> HIDE DEF calls, k
  <2> QED BY <1>5, <1>6 DEF ClientInvariant, AttemptsCount
<1>8. /\ fate' \in [Calls \X Conns -> {"none", "transit", "done", "void"}]
      /\ \A m \in Calls \X Conns : fate'[m] = "done" => fate[m] = "done"
  BY <1>2, CancelKeeps
<1>9. socket \in [Conns -> SocketStates]
  BY DEF ClientInvariant, ClientTypes
<1>10. /\ ClientInvariant'
       /\ \A d \in Calls : \/ call'[d] = calls[d]
                           \/ call'[d].pc = "ended" /\ call'[d].outcome = "unavailable"
  <2>1. Continue(calls, socket)
    BY <1>1
  <2> HIDE DEF calls
  <2> QED BY <1>2, <1>6, <1>7, <1>8, <1>9, <2>1, Continued
<1>11. ASSUME NEW d \in Calls, Due(d)'
       PROVE  Due(d)
  <2> HIDE DEF calls, k
  <2>1. call'[d] = calls[d]
    BY <1>10, <1>11 DEF Due
  <2>2. d # c
    BY <1>5, <1>6, <1>11, <2>1 DEF Due
  <2>3. call'[d] = call[d] /\ (call[d].pc = "sent" => call[d].on \in Conns)
    BY <1>6, <2>1, <2>2 DEF ClientInvariant, AttemptsCount, Counts
  <2> QED BY <1>8, <1>11, <2>3 DEF Due
<1> QED BY <1>10, <1>11

\* The host gives up a tool call.
LEMMA ClientAborts ==
    ASSUME ClientInvariant, NEW c \in Calls, Abort(c)
    PROVE  ClientInvariant' /\ \A d \in Calls : Due(d)' => Due(d)
<1> DEFINE k == Aborted(call[c])
<1>1. /\ call[c].pc \notin {"idle", "ended"}
      /\ UNCHANGED <<peer, connected, closed, dialing, socket>>
  BY DEF Abort, Open
<1>2. call[c] \in Call /\ Counts(call[c])
  BY DEF ClientInvariant, ClientTypes, AttemptsCount
<1>3. k \in Call /\ Counts(k) /\ k.pc = call[c].pc
  BY <1>2, CallMarked DEF Counts, Reading
<1>4. CASE call[c].pc = "sent"
  <2>1. Cancel(c) /\ call' = [call EXCEPT ![c] = Ended(k, "cancelled")]
    BY <1>4 DEF Abort, Aborted
  <2>2. /\ fate' \in [Calls \X Conns -> {"none", "transit", "done", "void"}]
        /\ \A m \in Calls \X Conns : fate'[m] = "done" => fate[m] = "done"
    BY <1>4, <2>1, CancelKeeps
  <2> HIDE DEF k
  <2>3. /\ Ended(k, "cancelled") \in Call /\ Counts(Ended(k, "cancelled"))
        /\ Ended(k, "cancelled").pc = "ended" /\ Ended(k, "cancelled").outcome = "cancelled"
    <3>1. "cancelled" \in Outcomes
      BY DEF Outcomes
    <3> QED BY <1>3, <3>1, EndedCounts, CallEnds
  <2>4. ClientInvariant'
    BY <1>1, <2>1, <2>2, <2>3, OneCallChanges
  <2>5. /\ call'[c] = Ended(k, "cancelled")
        /\ \A d \in Calls : d # c => call'[d] = call[d]
        /\ \A d \in Calls : call[d].pc = "sent" => call[d].on \in Conns
    BY <2>1 DEF ClientInvariant, ClientTypes, AttemptsCount, Counts
  <2> QED BY <2>2, <2>3, <2>4, <2>5 DEF Due
<1>5. CASE call[c].pc # "sent"
  <2>1. call' = [call EXCEPT ![c] = k] /\ UNCHANGED fate
    BY <1>5 DEF Abort, Aborted
  <2> HIDE DEF k
  <2>2. ClientInvariant'
    BY <1>1, <1>3, <2>1, OneCallChanges DEF ClientInvariant, ClientTypes
  <2>3. call'[c] = k /\ \A d \in Calls : d # c => call'[d] = call[d]
    BY <2>1 DEF ClientInvariant, ClientTypes
  <2> QED BY <1>1, <1>3, <1>5, <2>1, <2>2, <2>3 DEF Due
<1> QED BY <1>4, <1>5

\* A connection dies; that of the client fails every request on its way.
LEMMA ClientLoses ==
    ASSUME ClientInvariant, NEW n \in Conns, ConnectionLost(n)
    PROVE  ClientInvariant' /\ \A d \in Calls : Due(d)' => Due(d)
<1> DEFINE calls == [c \in Calls |-> IF call[c].pc = "sent" THEN Failed(call[c], "lost")
                                     ELSE call[c]]
           live == [socket EXCEPT ![n] = "lost"]
<1>1. UNCHANGED <<closed, fate>>
  BY DEF ConnectionLost
<1>2. ASSUME NEW c \in Calls
      PROVE  /\ calls[c] \in Call /\ Counts(calls[c])
             /\ \/ calls[c] = call[c] /\ call[c].pc # "sent"
                \/ calls[c].pc \in {"reconnect", "ended"} /\ call[c].pc = "sent"
                   /\ (calls[c].pc = "ended" => calls[c].outcome = "lost")
  <2>1. call[c] \in Call /\ Counts(call[c])
    BY DEF ClientInvariant, ClientTypes, AttemptsCount
  <2>2. CASE call[c].pc = "sent"
    <3>1. calls[c] = Failed(call[c], "lost")
      BY <2>2
    <3> HIDE DEF calls
    <3> QED BY <2>1, <2>2, <3>1, FailedCounts
  <2>3. CASE call[c].pc # "sent"
    BY <2>1, <2>3
  <2> QED BY <2>2, <2>3
<1>3. calls \in [Calls -> Call]
  BY <1>2
<1>4. live \in [Conns -> SocketStates] /\ \A m \in Conns : live[m] = "ready" => socket[m] = "ready"
  BY DEF ClientInvariant, ClientTypes, SocketStates
<1> HIDE DEF calls, live
<1>5. CASE Continue(calls, live)
  <2>1. /\ ClientInvariant'
        /\ \A d \in Calls : \/ call'[d] = calls[d]
                            \/ call'[d].pc = "ended" /\ call'[d].outcome = "unavailable"
    BY <1>1, <1>2, <1>3, <1>4, <1>5, Continued DEF ClientInvariant, ClientTypes
  <2> QED BY <1>1, <1>2, <2>1 DEF Due
<1>6. CASE call' = calls /\ socket' = live /\ connected' = FALSE /\ UNCHANGED <<peer, dialing>>
  <2>1. ClientTypes'
    <3>1. connected' \in BOOLEAN /\ closed' \in BOOLEAN /\ ~connected'
      BY <1>1, <1>6, Zenon DEF ClientInvariant, ClientTypes
    <3>2. peer' \in 0 .. MaxConns /\ dialing' \in Nat
      BY <1>6 DEF ClientInvariant, ClientTypes
    <3>3. fate' \in [Calls \X Conns -> {"none", "transit", "done", "void"}]
      BY <1>1 DEF ClientInvariant, ClientTypes
    <3> QED BY <1>3, <1>4, <1>6, <3>1, <3>2, <3>3, Zenon DEF ClientTypes
  <2>2. OneConnection'
    BY <1>1, <1>4, <1>6 DEF ClientInvariant, OneConnection
  <2>3. AttemptsCount'
    BY <1>2, <1>6 DEF AttemptsCount
  <2>4. \A d \in Calls : Due(d)' => Due(d)
    BY <1>1, <1>2, <1>6 DEF Due
  <2> QED BY <2>1, <2>2, <2>3, <2>4 DEF ClientInvariant
<1>7. CASE socket' = live /\ UNCHANGED <<peer, connected, dialing, call>>
  <2>1. ClientTypes'
    BY <1>1, <1>4, <1>7 DEF ClientInvariant, ClientTypes
  <2>2. OneConnection'
    BY <1>1, <1>4, <1>7 DEF ClientInvariant, OneConnection
  <2> QED BY <1>1, <1>7, <2>1, <2>2 DEF ClientInvariant, AttemptsCount, Due
<1> QED BY <1>5, <1>6, <1>7 DEF ConnectionLost, calls, live

\* The process shuts down.
LEMMA ClientCloses ==
    ASSUME ClientInvariant, Close
    PROVE  ClientInvariant' /\ \A d \in Calls : Due(d)' => Due(d)
<1>1. /\ closed' = TRUE /\ connected' = FALSE /\ UNCHANGED <<peer, dialing, fate>>
      /\ socket' = [n \in Conns |-> IF n = peer /\ socket[n] = "ready" THEN "ended"
                                    ELSE socket[n]]
      /\ call' = [c \in Calls |-> IF call[c].pc = "sent" THEN Ended(call[c], "unavailable")
                                  ELSE call[c]]
  BY DEF Close
<1>2. ASSUME NEW c \in Calls
      PROVE  call'[c] \in Call /\ Counts(call'[c]) /\ (Due(c)' => Due(c))
  <2>1. call[c] \in Call /\ Counts(call[c])
    BY DEF ClientInvariant, ClientTypes, AttemptsCount
  <2>2. CASE call[c].pc = "sent"
    <3>1. call'[c] = Ended(call[c], "unavailable")
      BY <1>1, <2>2
    <3>2. "unavailable" \in Outcomes
      BY DEF Outcomes
    <3>3. /\ call'[c] \in Call /\ Counts(call'[c])
          /\ call'[c].pc = "ended" /\ call'[c].outcome = "unavailable"
      BY <2>1, <3>1, <3>2, EndedCounts, CallEnds
    <3> QED BY <3>3 DEF Due
  <2>3. CASE call[c].pc # "sent"
    BY <1>1, <2>1, <2>3 DEF Due
  <2> QED BY <2>2, <2>3
<1>3. call' \in [Calls -> Call] /\ socket' \in [Conns -> SocketStates]
  BY <1>1, <1>2 DEF ClientInvariant, ClientTypes, SocketStates
<1>4. ClientTypes'
  <2>1. connected' \in BOOLEAN /\ closed' \in BOOLEAN /\ ~connected'
    BY <1>1, Zenon
  <2>2. /\ peer' \in 0 .. MaxConns /\ dialing' \in Nat
        /\ fate' \in [Calls \X Conns -> {"none", "transit", "done", "void"}]
    BY <1>1 DEF ClientInvariant, ClientTypes
  <2> QED BY <1>3, <2>1, <2>2, Zenon DEF ClientTypes
<1>5. OneConnection'
  BY <1>1 DEF ClientInvariant, OneConnection
<1> QED BY <1>2, <1>4, <1>5 DEF ClientInvariant, AttemptsCount

\* No step of the client by itself makes an answer due that was not.
LEMMA ClientSteps ==
    ASSUME ClientInvariant, ClientStep
    PROVE  ClientInvariant' /\ \A d \in Calls : Due(d)' => Due(d)
BY ClientDialFails, ClientDialDrops, ClientDialReady, ClientAnswers, ClientLate, ClientTimesOut,
   ClientAborts, ClientLoses, ClientCloses DEF ClientStep

NewCall(m, b) == [NoCall EXCEPT !.method = m, !.probing = b]
Awaiting(k) == [k EXCEPT !.pc = "reconnect"]

\* The fields of a call that is made.
LEMMA CallIsNew ==
    ASSUME NEW m \in Methods, NEW b \in BOOLEAN
    PROVE  /\ NewCall(m, b) \in Call /\ NewCall(m, b).method = m /\ NewCall(m, b).probing = b
           /\ NewCall(m, b).pc = "idle" /\ NewCall(m, b).writes = 0 /\ NewCall(m, b).try = 1
           /\ NewCall(m, b).outcome = "none"
           /\ NoCall \in Call /\ Counts(NoCall) /\ NoCall.pc = "idle"
<1>1. NoCall \in Call
  BY ClientAssumption DEF NoCall, Call, Methods, Outcomes
<1>2. /\ NoCall.pc = "idle" /\ NoCall.writes = 0 /\ NoCall.try = 1 /\ NoCall.outcome = "none"
      /\ ~NoCall.probing
  BY DEF NoCall
<1>3. Counts(NoCall)
  BY <1>2 DEF Counts
<1>4. NewCall(m, b) \in Call
  BY <1>1, Zenon DEF NewCall, Call
<1>5. /\ NewCall(m, b).method = m /\ NewCall(m, b).probing = b
      /\ NewCall(m, b).pc = NoCall.pc /\ NewCall(m, b).writes = NoCall.writes
      /\ NewCall(m, b).try = NoCall.try /\ NewCall(m, b).outcome = NoCall.outcome
  BY <1>1 DEF NewCall, Call
<1> QED BY <1>1, <1>2, <1>3, <1>4, <1>5

\* The fields of a call that awaits a connection.
LEMMA CallAwaits ==
    ASSUME NEW k \in Call
    PROVE  /\ Awaiting(k) \in Call /\ Awaiting(k).pc = "reconnect" /\ Awaiting(k).try = k.try
           /\ Awaiting(k).outcome = k.outcome /\ Awaiting(k).method = k.method
           /\ Awaiting(k).probing = k.probing /\ Awaiting(k).writes = k.writes
BY DEF Awaiting, Call

\* A request is made: on the connection, after a new one, or not at all.
LEMMA ClientRequests ==
    ASSUME ClientInvariant, NEW c \in Calls, NEW m \in Methods, Request(c, m)
    PROVE  /\ ClientInvariant' /\ ~Due(c)'
           /\ \A d \in Calls : d # c => (Due(d)' => Due(d))
<1> DEFINE k == NewCall(m, m = "open" /\ ~connected)
           next == IF connected THEN Once(k, peer)
                   ELSE IF Reading(k) THEN Awaiting(k) ELSE Ended(k, "refused")
           calls == [call EXCEPT ![c] = next]
<1>1. /\ Continue(calls, socket) /\ UNCHANGED closed
      /\ fate' = [i \in Calls \X Conns |->
            IF i[1] # c THEN fate[i]
            ELSE IF next.pc = "sent" /\ i[2] = peer THEN "transit" ELSE "none"]
  BY DEF Request, NewCall, Awaiting
<1>2. /\ k \in Call /\ k.method = m /\ (k.probing <=> (m = "open" /\ ~connected))
      /\ k.pc = "idle" /\ k.writes = 0 /\ k.try = 1 /\ k.outcome = "none"
  BY CallIsNew
<1> HIDE DEF k
<1>3. /\ next \in Call /\ Counts(next)
      /\ \/ next.pc = "sent" /\ next.on = peer /\ peer \in Conns
         \/ next.pc = "reconnect"
         \/ next.pc = "ended" /\ next.outcome # "answer"
  <2>1. CASE connected
    <3>1. peer \in Conns /\ next = Once(k, peer)
      BY <2>1 DEF ClientInvariant, ClientTypes
    <3> HIDE DEF next
    <3> QED BY <1>2, <2>1, <3>1, OnceCounts
  <2>2. CASE ~connected /\ Reading(k)
    <3>1. next = Awaiting(k)
      BY <2>2
    <3> HIDE DEF next
    <3> QED BY <1>2, <2>2, <3>1, CallAwaits DEF Counts, Reading
  <2>3. CASE ~connected /\ ~Reading(k)
    <3>1. next = Ended(k, "refused")
      BY <2>3
    <3>2. "refused" \in Outcomes /\ ~k.probing
      BY <2>3 DEF Outcomes, Reading
    <3> HIDE DEF next
    <3> QED BY <1>2, <3>1, <3>2, CallEnds DEF Counts
  <2> QED BY <2>1, <2>2, <2>3
<1> HIDE DEF next
<1>4. /\ calls \in [Calls -> Call] /\ calls[c] = next
      /\ \A d \in Calls : d # c => calls[d] = call[d]
  BY <1>3 DEF ClientInvariant, ClientTypes
<1> HIDE DEF calls
<1>5. \A d \in Calls : Counts(calls[d])
  BY <1>3, <1>4 DEF ClientInvariant, AttemptsCount
<1>6. fate' \in [Calls \X Conns -> {"none", "transit", "done", "void"}]
  BY <1>1 DEF ClientInvariant, ClientTypes
<1>7. /\ ClientInvariant'
      /\ \A d \in Calls : \/ call'[d] = calls[d]
                          \/ call'[d].pc = "ended" /\ call'[d].outcome = "unavailable"
  <2>1. socket \in [Conns -> SocketStates]
    BY DEF ClientInvariant, ClientTypes
  <2> QED BY <1>1, <1>4, <1>5, <1>6, <2>1, Continued
<1>8. ~Due(c)'
  <2>1. fate'[<<c, peer>>] = "transit" \/ ~(next.pc = "sent" /\ peer \in Conns)
    BY <1>1
  <2> QED BY <1>3, <1>4, <1>7, <2>1 DEF Due
<1>9. ASSUME NEW d \in Calls, d # c, Due(d)'
      PROVE  Due(d)
  <2>1. call'[d] = call[d]
    BY <1>4, <1>7, <1>9 DEF Due
  <2>2. call[d].pc = "sent" => fate'[<<d, call[d].on>>] = fate[<<d, call[d].on>>]
    BY <1>1, <1>9 DEF ClientInvariant, AttemptsCount, Counts
  <2> QED BY <1>9, <2>1, <2>2 DEF Due
<1> QED BY <1>7, <1>8, <1>9

-----------------------------------------------------------------------------
(* The registry                                                             *)

ServerTypes ==
    /\ bound \in [Sessions -> Tasks \union {NoTask}]
    /\ owner \in [Sessions -> [task : Tasks, on : Conns] \union {NoOwner}]
    /\ tool \in [Calls -> Tool]
    /\ reply \in [Calls -> Reply]

\* A session that the broker has is that of the task.
IsOf(own, s, t) == own[s].on = 0 \/ own[s].task = t

\* What a tool call is at says which task it is of, and that its session is that task's.
Fits(own, t) ==
    /\ t.step \notin {"status", "open"} => t.session \in Sessions /\ IsOf(own, t.session, t.task)
    /\ t.step = "open" \/ t.name = "resume" => t.task \in Tasks
    /\ t.name = "open" => t.step = "open"

\* Whoever may name a session, in the registry, in a request or in an answer, is its task;
\* the answer to an opening names one.
NamedByItsTask ==
    /\ \A s \in Sessions : bound[s] # NoTask => IsOf(owner, s, bound[s])
    /\ \A c \in Calls :
        /\ Fits(owner, tool[c])
        /\ tool[c].step = "open" /\ reply[c] \in Sessions => IsOf(owner, reply[c], tool[c].task)
        /\ tool[c].step = "open" /\ Due(c) => reply[c] \in Sessions \union {"denied"}

McpInvariant == ClientInvariant /\ ServerTypes /\ NamedByItsTask

\* A session that the broker has is on a connection and of a task.
LEMMA OwnerIs ==
    ASSUME ServerTypes, NEW s \in Sessions
    PROVE  /\ owner[s] = NoOwner \/ (owner[s].on \in Conns /\ owner[s].task \in Tasks)
           /\ owner[s].on # 0 => owner[s].on \in Conns /\ owner[s].task \in Tasks
           /\ owner[s].task \in Tasks => owner[s].on \in Conns /\ owner[s].on # 0
           /\ NoOwner.on = 0 /\ NoOwner.task = NoTask
BY ServerAssumption, ClientAssumption DEF ServerTypes, NoOwner, Conns

\* The fields of a tool call.
LEMMA ToolIs ==
    ASSUME NEW t \in Tool
    PROVE  /\ t.name \in ToolNames /\ t.step \in Steps /\ t.task \in Tasks \union {NoTask}
           /\ t.session \in Sessions \union {NoSession}
           /\ NoTool \in Tool /\ NoTool.step = "status" /\ NoTool.name = "none"
BY DEF Tool, NoTool, ToolNames, Steps

\* The registry binds only what is its task's.
BindsItsOwn ==
    /\ bound' \in [Sessions -> Tasks \union {NoTask}]
    /\ \A s \in Sessions : bound'[s] # NoTask => IsOf(owner, s, bound'[s])

\* A tool call asks the broker.
LEMMA AskKeeps ==
    ASSUME McpInvariant, NEW c \in Calls, NEW t \in Tool, Ask(c, t), Fits(owner, t),
           UNCHANGED owner, BindsItsOwn
    PROVE  McpInvariant'
<1>1. MethodOf(t.step) \in Methods
  BY DEF MethodOf, Methods
<1>2. /\ ClientInvariant' /\ ~Due(c)'
      /\ \A d \in Calls : d # c => (Due(d)' => Due(d))
  BY <1>1, ClientRequests DEF Ask, McpInvariant
<1>3. /\ tool' \in [Calls -> Tool] /\ reply' \in [Calls -> Reply]
      /\ tool'[c] = t /\ reply'[c] = "none" /\ "none" \notin Sessions
      /\ \A d \in Calls : d # c => tool'[d] = tool[d] /\ reply'[d] = reply[d]
  BY ServerAssumption DEF Ask, McpInvariant, ServerTypes, Reply
<1>4. ServerTypes'
  BY <1>3 DEF McpInvariant, ServerTypes, BindsItsOwn
<1>5. NamedByItsTask'
  BY <1>2, <1>3, Zenon DEF McpInvariant, NamedByItsTask, BindsItsOwn
<1> QED BY <1>2, <1>4, <1>5 DEF McpInvariant

\* A tool call ends.
LEMMA ReturnKeeps ==
    ASSUME McpInvariant, NEW c \in Calls, Return(c), BindsItsOwn
    PROVE  McpInvariant'
<1>1. /\ UNCHANGED <<peer, connected, closed, dialing, socket, owner>>
      /\ call' = [call EXCEPT ![c] = NoCall] /\ reply' = [reply EXCEPT ![c] = "none"]
      /\ tool' = [tool EXCEPT ![c] = IF Outlived(c) THEN [@ EXCEPT !.name = "returned"]
                                     ELSE NoTool]
      /\ fate' = [m \in Calls \X Conns |->
            IF m[1] = c /\ ~(fate[m] = "transit" /\ Outlived(c)) THEN "none" ELSE fate[m]]
  BY DEF Return
<1>2. NoCall \in Call /\ Counts(NoCall) /\ NoCall.pc = "idle"
  <2>1. "read" \in Methods /\ FALSE \in BOOLEAN
    BY DEF Methods
  <2> QED BY <2>1, CallIsNew
<1>3. fate' \in [Calls \X Conns -> {"none", "transit", "done", "void"}]
  BY <1>1 DEF McpInvariant, ClientInvariant, ClientTypes
<1>4. ClientInvariant'
  BY <1>1, <1>2, <1>3, OneCallChanges DEF McpInvariant
<1>5. call'[c] = NoCall /\ \A d \in Calls : d # c => call'[d] = call[d]
  BY <1>1 DEF McpInvariant, ClientInvariant, ClientTypes
<1>6. \A d \in Calls : Due(d)' => d # c /\ Due(d)
  <2> SUFFICES ASSUME NEW d \in Calls, Due(d)'
               PROVE  d # c /\ Due(d)
    OBVIOUS
  <2>1. d # c
    BY <1>2, <1>5 DEF Due
  <2>2. call'[d] = call[d] /\ (call[d].pc = "sent" => call[d].on \in Conns)
    BY <1>5, <2>1 DEF McpInvariant, ClientInvariant, AttemptsCount, Counts
  <2>3. call[d].pc = "sent" => fate'[<<d, call[d].on>>] = fate[<<d, call[d].on>>]
    BY <1>1, <2>1, <2>2
  <2> QED BY <2>1, <2>2, <2>3 DEF Due
<1>7. /\ reply' \in [Calls -> Reply] /\ reply'[c] = "none" /\ "none" \notin Sessions
      /\ \A d \in Calls : d # c => reply'[d] = reply[d]
  BY <1>1, ServerAssumption DEF McpInvariant, ServerTypes, Reply
<1>8. /\ tool'[c] \in Tool /\ Fits(owner, tool'[c])
      /\ \A d \in Calls : d # c => tool'[d] = tool[d]
      /\ tool' \in [Calls -> Tool]
  <2> DEFINE r == [tool[c] EXCEPT !.name = "returned"]
  <2>1. tool[c] \in Tool /\ Fits(owner, tool[c])
    BY DEF McpInvariant, ServerTypes, NamedByItsTask
  <2>2. "returned" \in ToolNames
    BY DEF ToolNames
  <2>3. r \in Tool
    BY <2>1, <2>2, Zenon DEF Tool
  <2>4. /\ r.name = "returned" /\ r.step = tool[c].step /\ r.task = tool[c].task
        /\ r.session = tool[c].session
    BY <2>1 DEF Tool
  <2> HIDE DEF r
  <2>5. Fits(owner, r)
    BY <2>1, <2>4 DEF Fits
  <2>6. NoTool \in Tool /\ Fits(owner, NoTool)
    BY <2>1, ToolIs DEF Fits
  <2>7. tool' = [tool EXCEPT ![c] = r] \/ tool' = [tool EXCEPT ![c] = NoTool]
    BY <1>1 DEF r
  <2> QED BY <2>3, <2>5, <2>6, <2>7 DEF McpInvariant, ServerTypes
<1>9. ServerTypes'
  BY <1>1, <1>7, <1>8 DEF McpInvariant, ServerTypes, BindsItsOwn
<1>10. NamedByItsTask'
  BY <1>1, <1>6, <1>7, <1>8, Zenon DEF McpInvariant, NamedByItsTask, BindsItsOwn
<1> QED BY <1>4, <1>9, <1>10 DEF McpInvariant

\* A tool call begins.
LEMMA BeginKeeps ==
    ASSUME McpInvariant, NEW c \in Calls, NEW name \in ToolNames,
           NEW task \in Tasks \union {NoTask},
           NEW s \in Sessions \union {NoSession}, NEW l \in Leases \union {NoLease},
           NEW at \in Steps, NEW recovery \in {"none", "binding", "connection"},
           at \notin {"status", "open"} => s \in Sessions /\ IsOf(owner, s, task),
           at = "open" \/ name = "resume" => task \in Tasks, name = "open" => at = "open",
           Begin(c, name, task, s, l, at, recovery)
    PROVE  McpInvariant'
<1> DEFINE t == [name |-> name, step |-> at, task |-> task, session |-> s, lease |-> l,
                 recovery |-> recovery]
<1>1. t \in Tool
  BY DEF Tool
<1>2. /\ t.name = name /\ t.step = at /\ t.task = task /\ t.session = s
      /\ Ask(c, t) /\ UNCHANGED <<bound, owner>>
  BY DEF Begin
<1> HIDE DEF t
<1>3. Fits(owner, t)
  BY <1>2 DEF Fits
<1>4. BindsItsOwn
  BY <1>2 DEF BindsItsOwn, McpInvariant, ServerTypes, NamedByItsTask
<1> QED BY <1>1, <1>2, <1>3, <1>4, AskKeeps

\* The session that a task owns is the broker's for that task, if the broker has it.
LEMMA OwnedIsOf ==
    ASSUME McpInvariant, NEW t \in Tasks, NEW s, Owns(t, s)
    PROVE  s \in Sessions /\ IsOf(owner, s, t)
BY ServerAssumption DEF McpInvariant, NamedByItsTask, Owns

\* The names that the tools use.
LEMMA Names ==
    /\ {"status", "open", "close", "reserve", "release", "act", "resume"} \subseteq ToolNames
    /\ {"status", "open", "close", "reserve", "release", "act", "prepare"} \subseteq Steps
    /\ NoSession \in Sessions \union {NoSession} /\ NoLease \in Leases \union {NoLease}
    /\ NoTask \in Tasks \union {NoTask}
BY DEF ToolNames, Steps

\* Every tool begins with a question or with a session of its task.
LEMMA ToolsBegin ==
    ASSUME McpInvariant, NEW c \in Calls, NEW t \in Tasks,
           \/ Status(c) \/ OpenSession(c, t)
           \/ \E l \in Leases : ReleaseTab(c, t, l)
           \/ \E s \in Sessions :
                \/ CloseSession(c, t, s) \/ ReserveTab(c, t, s) \/ SessionTool(c, t, s)
                \/ PrepareResume(c, t, s)
                \/ \E l \in Leases : LeaseTool(c, t, s, l)
    PROVE  McpInvariant'
<1>1. CASE Status(c)
  <2>1. Begin(c, "status", NoTask, NoSession, NoLease, "status", "none")
    BY <1>1 DEF Status
  <2> QED BY <2>1, Names, BeginKeeps
<1>2. CASE OpenSession(c, t)
  <2>1. Begin(c, "open", t, NoSession, NoLease, "open", "none")
    BY <1>2 DEF OpenSession
  <2> QED BY <2>1, Names, BeginKeeps
<1>3. ASSUME NEW l \in Leases, ReleaseTab(c, t, l)
      PROVE  McpInvariant'
  <2>1. /\ Owns(t, leaseOf[l].session)
        /\ Begin(c, "release", t, leaseOf[l].session, l, "release", "none")
    BY <1>3 DEF ReleaseTab, OwnsLease
  <2>2. leaseOf[l].session \in Sessions /\ IsOf(owner, leaseOf[l].session, t)
    BY <2>1, OwnedIsOf
  <2> QED BY <2>1, <2>2, Names, BeginKeeps
<1>4. ASSUME NEW s \in Sessions, NEW name \in {"close", "reserve", "act", "resume"},
             NEW at \in {"close", "reserve", "act", "prepare"},
             Owns(t, s), Begin(c, name, t, s, NoLease, at, "none")
      PROVE  McpInvariant'
  <2>1. IsOf(owner, s, t)
    BY <1>4, OwnedIsOf
  <2>2. name \in ToolNames /\ at \in Steps /\ name # "open" /\ at # "open"
    BY Names
  <2> QED BY <1>4, <2>1, <2>2, Names, BeginKeeps
<1>5. ASSUME NEW s \in Sessions,
             \/ CloseSession(c, t, s) \/ ReserveTab(c, t, s) \/ SessionTool(c, t, s)
             \/ \E l \in Leases : LeaseTool(c, t, s, l)
      PROVE  McpInvariant'
  BY <1>4, <1>5 DEF CloseSession, ReserveTab, SessionTool, LeaseTool
<1>6. ASSUME NEW s \in Sessions, PrepareResume(c, t, s)
      PROVE  McpInvariant'
  <2>1. CASE Owns(t, s) /\ Begin(c, "resume", t, s, NoLease, "prepare", "none")
    BY <1>4, <2>1
  <2>2. CASE Begin(c, "resume", t, s, NoLease, "status", "binding")
    BY <2>2, Names, BeginKeeps
  <2> QED BY <1>6, <2>1, <2>2 DEF PrepareResume
<1> QED BY <1>1, <1>2, <1>3, <1>5, <1>6

\* A tool call ends without a trace in the registry.
LEMMA ToolEndsKeeps ==
    ASSUME McpInvariant, NEW c \in Calls, ToolEnds(c) \/ ResumeGivesUp(c)
    PROVE  McpInvariant'
<1>1. Return(c) /\ UNCHANGED bound
  BY DEF ToolEnds, ResumeGivesUp
<1>2. BindsItsOwn
  BY <1>1 DEF BindsItsOwn, McpInvariant, ServerTypes, NamedByItsTask
<1> QED BY <1>1, <1>2, ReturnKeeps

\* A session is bound to the task that it was opened for.
LEMMA SessionOpenedKeeps ==
    ASSUME McpInvariant, NEW c \in Calls, SessionOpened(c)
    PROVE  McpInvariant'
<1>1. Return(c) /\ bound' = [bound EXCEPT ![reply[c]] = tool[c].task] /\ tool[c].name = "open"
  BY DEF SessionOpened, Bind
<1>2. /\ tool[c].task \in Tasks
      /\ reply[c] \in Sessions => IsOf(owner, reply[c], tool[c].task)
  BY <1>1 DEF McpInvariant, NamedByItsTask, Fits
<1>3. BindsItsOwn
  BY <1>1, <1>2 DEF BindsItsOwn, McpInvariant, ServerTypes, NamedByItsTask
<1> QED BY <1>1, <1>3, ReturnKeeps

\* A session that was closed is forgotten.
LEMMA SessionClosedKeeps ==
    ASSUME McpInvariant, NEW c \in Calls, SessionClosed(c)
    PROVE  McpInvariant'
<1>1. Return(c) /\ bound' = [bound EXCEPT ![tool[c].session] = NoTask]
  BY DEF SessionClosed, Forget
<1>2. BindsItsOwn
  BY <1>1 DEF BindsItsOwn, McpInvariant, ServerTypes, NamedByItsTask
<1> QED BY <1>1, <1>2, ReturnKeeps

\* A reservation binds no session.
LEMMA TabReservedKeeps ==
    ASSUME McpInvariant, NEW c \in Calls, TabReserved(c)
    PROVE  McpInvariant'
<1>1. Return(c) /\ UNCHANGED bound
  BY DEF TabReserved
<1>2. BindsItsOwn
  BY <1>1 DEF BindsItsOwn, McpInvariant, ServerTypes, NamedByItsTask
<1> QED BY <1>1, <1>2, ReturnKeeps

\* A resume asks for the status, for a session, and then once more.
LEMMA ResumeAsks ==
    ASSUME McpInvariant, NEW c \in Calls, ResumeFails(c) \/ ResumeStatusRead(c)
    PROVE  McpInvariant'
<1> DEFINE f == [tool[c] EXCEPT !.step = "status", !.recovery = "connection"]
           o == [tool[c] EXCEPT !.step = "open"]
<1>1. tool[c] \in Tool /\ Fits(owner, tool[c]) /\ tool[c].name = "resume"
  BY DEF McpInvariant, ServerTypes, NamedByItsTask, ResumeFails, ResumeStatusRead
<1>2. f \in Tool /\ o \in Tool
  BY <1>1, Names, Zenon DEF Tool
<1>3. /\ f.step = "status" /\ f.name = "resume" /\ f.task = tool[c].task
      /\ o.step = "open" /\ o.name = "resume" /\ o.task = tool[c].task
  BY <1>1 DEF Tool
<1>4. /\ Ask(c, f) \/ Ask(c, o) \/ Return(c)
      /\ UNCHANGED bound /\ (Ask(c, f) \/ Ask(c, o) => UNCHANGED owner)
  BY DEF ResumeFails, ResumeStatusRead, Return
<1> HIDE DEF f, o
<1>5. Fits(owner, f) /\ Fits(owner, o)
  BY <1>1, <1>3 DEF Fits
<1>6. BindsItsOwn
  BY <1>4 DEF BindsItsOwn, McpInvariant, ServerTypes, NamedByItsTask
<1> QED BY <1>2, <1>4, <1>5, <1>6, AskKeeps, ReturnKeeps

\* The session that a resume was given is its task's, and is asked about.
LEMMA ResumeSessionOpenedKeeps ==
    ASSUME McpInvariant, NEW c \in Calls, ResumeSessionOpened(c)
    PROVE  McpInvariant'
<1> DEFINE p == [tool[c] EXCEPT !.step = "prepare", !.session = reply[c]]
<1>1. /\ tool[c] \in Tool /\ tool[c].name = "resume" /\ tool[c].step = "open"
      /\ tool[c].task \in Tasks
  BY DEF McpInvariant, ServerTypes, NamedByItsTask, Fits, ResumeSessionOpened
<1>2. reply[c] \in Sessions /\ IsOf(owner, reply[c], tool[c].task)
  BY <1>1 DEF McpInvariant, NamedByItsTask, ResumeSessionOpened, Answered, Due
<1>3. p \in Tool
  BY <1>1, <1>2, Names, Zenon DEF Tool
<1>4. p.step = "prepare" /\ p.session = reply[c] /\ p.task = tool[c].task /\ p.name = "resume"
  BY <1>1 DEF Tool
<1>5. /\ Ask(c, p) /\ UNCHANGED owner
      /\ \/ bound' = [bound EXCEPT ![reply[c]] = tool[c].task]
         \/ bound' = [[bound EXCEPT ![tool[c].session] = NoTask]
                      EXCEPT ![reply[c]] = tool[c].task]
  BY DEF ResumeSessionOpened, Bind, Forget
<1> HIDE DEF p
<1>6. Fits(owner, p)
  BY <1>1, <1>2, <1>4 DEF Fits
<1>7. /\ bound' \in [Sessions -> Tasks \union {NoTask}]
      /\ \A s \in Sessions : bound'[s] = IF s = reply[c] THEN tool[c].task ELSE bound'[s]
      /\ \A s \in Sessions : s # reply[c] => bound'[s] \in {bound[s], NoTask}
  BY <1>1, <1>2, <1>5 DEF McpInvariant, ServerTypes
<1>8. BindsItsOwn
  BY <1>1, <1>2, <1>7 DEF BindsItsOwn, McpInvariant, NamedByItsTask
<1> QED BY <1>3, <1>5, <1>6, <1>8, AskKeeps

-----------------------------------------------------------------------------
(* The broker, and the process                                              *)

\* The broker serves a request while no ended call waits to be carried on.
LEMMA ServedCall ==
    ASSUME McpInvariant, Settled, NEW c \in Calls, NEW n \in Conns, Execute(c, n)
    PROVE  /\ ClientInvariant' /\ (Due(c)' => ~call[c].probing)
           /\ \A d \in Calls : d # c => (Due(d)' => Due(d))
<1>1. /\ fate' = [fate EXCEPT ![<<c, n>>] = "done"]
      /\ UNCHANGED <<peer, connected, closed, dialing, socket, call>>
  BY DEF Execute
<1>2. fate' \in [Calls \X Conns -> {"none", "transit", "done", "void"}]
  BY <1>1 DEF McpInvariant, ClientInvariant, ClientTypes
<1>3. ClientInvariant'
  BY <1>1, <1>2 DEF McpInvariant, ClientInvariant, ClientTypes, OneConnection, AttemptsCount
<1>4. Due(c)' => ~call[c].probing
  BY <1>1 DEF Due, Settled
<1>5. ASSUME NEW d \in Calls, d # c, Due(d)'
      PROVE  Due(d)
  <2>1. call[d].pc = "sent" => call[d].on \in Conns
    BY DEF McpInvariant, ClientInvariant, AttemptsCount, Counts
  <2>2. call[d].pc = "sent" => fate'[<<d, call[d].on>>] = fate[<<d, call[d].on>>]
    BY <1>1, <1>5, <2>1 DEF McpInvariant, ClientInvariant, ClientTypes
  <2> QED BY <1>1, <1>5, <2>2 DEF Due
<1> QED BY <1>3, <1>4, <1>5

\* A broker that loses or ends sessions, or keeps them, contradicts no name of one.
LEMMA BrokerForgets ==
    ASSUME McpInvariant, ClientInvariant',
           owner' \in [Sessions -> [task : Tasks, on : Conns] \union {NoOwner}],
           \A s \in Sessions : owner'[s] \in {owner[s], NoOwner},
           UNCHANGED <<bound, tool>>,
           reply' \in [Calls -> Reply],
           \A d \in Calls : reply'[d] = reply[d] \/ reply'[d] \notin Sessions
                            \/ tool[d].step # "open",
           \A d \in Calls : Due(d)' /\ tool[d].step = "open" => Due(d) /\ reply'[d] = reply[d]
    PROVE  McpInvariant'
<1>1. NoOwner.on = 0
  BY DEF NoOwner
<1>2. \A s \in Sessions : \A x : IsOf(owner, s, x) => IsOf(owner', s, x)
  BY <1>1 DEF IsOf
<1>3. ServerTypes'
  BY DEF McpInvariant, ServerTypes
<1>4. \A d \in Calls : Fits(owner', tool'[d])
  BY <1>2 DEF McpInvariant, NamedByItsTask, Fits
<1>5. NamedByItsTask'
  <2>1. \A s \in Sessions : bound'[s] # NoTask => IsOf(owner', s, bound'[s])
    BY <1>2 DEF McpInvariant, NamedByItsTask
  <2>2. \A d \in Calls : tool'[d].step = "open" /\ reply'[d] \in Sessions
                           => IsOf(owner', reply'[d], tool'[d].task)
    BY <1>2 DEF McpInvariant, NamedByItsTask
  <2>3. \A d \in Calls : tool'[d].step = "open" /\ Due(d)'
                           => reply'[d] \in Sessions \union {"denied"}
    BY DEF McpInvariant, NamedByItsTask
  <2> QED BY <1>4, <2>1, <2>2, <2>3, Zenon DEF NamedByItsTask
<1> QED BY <1>3, <1>5 DEF McpInvariant

\* The broker gives a session to the task that asks for one: its own, or one nobody names.
LEMMA OpenForKeeps ==
    ASSUME McpInvariant, Settled, NEW c \in Calls, NEW n \in Conns, Execute(c, n),
           UNCHANGED <<bound, tool>>, tool[c].step = "open", OpenFor(c, tool[c].task, n)
    PROVE  McpInvariant'
<1> DEFINE t == tool[c].task
<1>1. /\ ClientInvariant' /\ (Due(c)' => ~call[c].probing)
      /\ \A d \in Calls : d # c => (Due(d)' => Due(d))
  BY ServedCall
<1>2. t \in Tasks
  BY DEF McpInvariant, NamedByItsTask, Fits
<1>3. CASE reply' = [reply EXCEPT ![c] = "denied"] /\ UNCHANGED owner
  <2>1. "denied" \in Reply /\ "denied" \notin Sessions
    BY ServerAssumption DEF Reply
  <2>2. /\ reply' \in [Calls -> Reply] /\ reply'[c] = "denied"
        /\ \A d \in Calls : d # c => reply'[d] = reply[d]
    BY <1>3, <2>1 DEF McpInvariant, ServerTypes
  <2>3. ServerTypes'
    BY <1>3, <2>2 DEF McpInvariant, ServerTypes
  <2>4. NamedByItsTask'
    BY <1>1, <1>3, <2>1, <2>2, Zenon DEF McpInvariant, NamedByItsTask
  <2> QED BY <1>1, <2>3, <2>4 DEF McpInvariant
<1>4. ASSUME NEW s \in Sessions, owner[s].task = t \/ s \in Unused,
             owner' = [owner EXCEPT ![s] = [task |-> t, on |-> n]],
             reply' = [reply EXCEPT ![c] = s]
      PROVE  McpInvariant'
  <2>1. /\ reply' \in [Calls -> Reply] /\ reply'[c] = s
        /\ \A d \in Calls : d # c => reply'[d] = reply[d]
    BY <1>4 DEF McpInvariant, ServerTypes, Reply
  <2>2. /\ owner' \in [Sessions -> [task : Tasks, on : Conns] \union {NoOwner}]
        /\ owner'[s].task = t /\ \A x \in Sessions : x # s => owner'[x] = owner[x]
    BY <1>2, <1>4 DEF McpInvariant, ServerTypes
  <2>3. ServerTypes'
    BY <2>1, <2>2 DEF McpInvariant, ServerTypes
  <2>4. ASSUME NEW x \in Tasks \union {NoTask}, IsOf(owner, s, x), owner[s].task = t
        PROVE  IsOf(owner', s, x)
    <3>1. owner[s].on # 0
      BY <1>2, <1>4, <2>4, OwnerIs DEF McpInvariant
    <3> QED BY <2>2, <2>4, <3>1 DEF IsOf
  <2>5. ASSUME NEW x, IsOf(owner, s, x), x = t
        PROVE  IsOf(owner', s, x)
    BY <2>2, <2>5 DEF IsOf
  <2>6. \A r \in Sessions : \A x : r # s => (IsOf(owner, r, x) => IsOf(owner', r, x))
    BY <2>2 DEF IsOf
  <2>7. \A r \in Sessions : bound'[r] # NoTask => IsOf(owner', r, bound'[r])
    <3> SUFFICES ASSUME NEW r \in Sessions, bound[r] # NoTask
                 PROVE  IsOf(owner', r, bound[r])
      OBVIOUS
    <3>1. IsOf(owner, r, bound[r]) /\ bound[r] \in Tasks \union {NoTask}
      BY DEF McpInvariant, NamedByItsTask, ServerTypes
    <3>2. r = s => owner[s].task = t
      BY <1>4 DEF Unused
    <3> QED BY <2>4, <2>6, <3>1, <3>2
  <2>8. \A d \in Calls : Fits(owner', tool'[d])
    <3> SUFFICES ASSUME NEW d \in Calls
                 PROVE  Fits(owner', tool[d])
      OBVIOUS
    <3>1. Fits(owner, tool[d]) /\ tool[d].task \in Tasks \union {NoTask}
      BY ToolIs DEF McpInvariant, NamedByItsTask, ServerTypes
    <3>2. tool[d].session = s => owner[s].task = t
      BY <1>4 DEF Unused
    <3> QED BY <2>4, <2>6, <3>1, <3>2 DEF Fits
  <2>9. ASSUME NEW d \in Calls, tool[d].step = "open", reply'[d] \in Sessions
        PROVE  IsOf(owner', reply'[d], tool[d].task)
    <3>1. CASE d = c
      BY <2>1, <2>2, <3>1 DEF IsOf
    <3>2. CASE d # c
      <4>1. reply'[d] = reply[d] /\ IsOf(owner, reply[d], tool[d].task)
        BY <2>1, <2>9, <3>2 DEF McpInvariant, NamedByItsTask
      <4>2. tool[d].task \in Tasks \union {NoTask}
        BY ToolIs DEF McpInvariant, ServerTypes
      <4>3. reply[d] = s => owner[s].task = t
        BY <1>4 DEF Unused
      <4> QED BY <2>4, <2>6, <2>9, <4>1, <4>2, <4>3
    <3> QED BY <3>1, <3>2
  <2>10. \A d \in Calls : tool'[d].step = "open" /\ Due(d)'
                            => reply'[d] \in Sessions \union {"denied"}
    BY <1>1, <2>1 DEF McpInvariant, NamedByItsTask
  <2>11. NamedByItsTask'
    BY <2>7, <2>8, <2>9, <2>10, Zenon DEF NamedByItsTask
  <2> QED BY <1>1, <2>3, <2>11 DEF McpInvariant
<1>5. Unused \subseteq Sessions
  BY DEF Unused
<1>6. \/ reply' = [reply EXCEPT ![c] = "denied"] /\ UNCHANGED owner
      \/ \E s \in Sessions :
           /\ owner[s].task = t \/ s \in Unused
           /\ owner' = [owner EXCEPT ![s] = [task |-> t, on |-> n]]
           /\ reply' = [reply EXCEPT ![c] = s]
  BY <1>5 DEF OpenFor
<1> HIDE DEF t
<1> QED BY <1>3, <1>4, <1>6

\* Any request that the broker serves.
LEMMA ServeKeeps ==
    ASSUME McpInvariant, Settled, NEW c \in Calls, NEW n \in Conns, Serve(c, n)
    PROVE  McpInvariant'
<1>1. Execute(c, n) /\ UNCHANGED <<bound, tool>>
  BY DEF Serve, serverVars
<1>2. /\ ClientInvariant' /\ (Due(c)' => ~call[c].probing)
      /\ \A d \in Calls : d # c => (Due(d)' => Due(d))
  BY <1>1, ServedCall
<1>3. {"ok", "denied"} \subseteq Reply /\ Leases \subseteq Reply /\ NoOwner.on = 0
      /\ "ok" \notin Sessions /\ "denied" \notin Sessions
  BY ServerAssumption DEF Reply, NoOwner
<1>4. ASSUME NEW r \in Reply, tool[c].step = "open" => r \notin Sessions /\ call[c].probing,
             reply' = [reply EXCEPT ![c] = r],
             owner' \in [Sessions -> [task : Tasks, on : Conns] \union {NoOwner}],
             \A s \in Sessions : owner'[s] \in {owner[s], NoOwner}
      PROVE  McpInvariant'
  <2>1. /\ reply' \in [Calls -> Reply] /\ reply'[c] = r
        /\ \A d \in Calls : d # c => reply'[d] = reply[d]
    BY <1>4 DEF McpInvariant, ServerTypes
  <2>2. \A d \in Calls : Due(d)' /\ tool[d].step = "open" => Due(d) /\ reply'[d] = reply[d]
    BY <1>2, <1>4, <2>1
  <2> QED BY <1>1, <1>2, <1>4, <2>1, <2>2, BrokerForgets
<1>5. CASE tool[c].step = "open" /\ ~call[c].probing
  <2>1. OpenFor(c, tool[c].task, n)
    BY <1>5 DEF Serve
  <2> QED BY <1>1, <1>5, <2>1, OpenForKeeps
<1>6. CASE ~(tool[c].step = "open" /\ ~call[c].probing)
  <2>1. owner \in [Sessions -> [task : Tasks, on : Conns] \union {NoOwner}]
    BY DEF McpInvariant, ServerTypes
  <2>2. \/ \E r \in {"ok", "denied"} : reply' = [reply EXCEPT ![c] = r] /\ UNCHANGED owner
        \/ \E r \in {"ok"} \union Leases :
             /\ reply' = [reply EXCEPT ![c] = r] /\ tool[c].step # "open"
             /\ \/ UNCHANGED owner
                \/ owner' = [owner EXCEPT ![tool[c].session] = NoOwner]
    BY <1>6 DEF Serve, UnusedLeases
  <2> QED BY <1>3, <1>4, <1>6, <2>1, <2>2
<1> QED BY <1>5, <1>6

\* The broker sees a connection end.
LEMMA BrokerDropsKeeps ==
    ASSUME McpInvariant, NEW n \in Conns, BrokerDrops(n)
    PROVE  McpInvariant'
<1>1. /\ UNCHANGED <<clientVars, bound, tool, reply>>
      /\ owner' = [s \in Sessions |-> IF s \in {x \in Sessions : owner[x].on = n} THEN NoOwner
                                      ELSE owner[s]]
  BY DEF BrokerDrops, serverVars
<1>2. /\ owner' \in [Sessions -> [task : Tasks, on : Conns] \union {NoOwner}]
      /\ \A s \in Sessions : owner'[s] \in {owner[s], NoOwner}
  BY <1>1 DEF McpInvariant, ServerTypes
<1>3. ClientInvariant' /\ \A d \in Calls : Due(d)' => Due(d)
  BY <1>1 DEF clientVars, McpInvariant, ClientInvariant, ClientTypes, OneConnection,
              AttemptsCount, Due
<1>4. reply' \in [Calls -> Reply]
  BY <1>1 DEF McpInvariant, ServerTypes
<1> QED BY <1>1, <1>2, <1>3, <1>4, BrokerForgets

\* What a returned call left behind is cleared away.
LEMMA DrainedKeeps ==
    ASSUME McpInvariant, Settled, NEW c \in Calls, Drained(c)
    PROVE  McpInvariant'
<1>1. /\ UNCHANGED <<peer, connected, closed, dialing, socket, call, bound, owner>>
      /\ fate' = [m \in Calls \X Conns |-> IF m[1] = c THEN "none" ELSE fate[m]]
      /\ tool' = [tool EXCEPT ![c] = NoTool] /\ reply' = [reply EXCEPT ![c] = "none"]
  BY DEF Drained
<1>2. fate' \in [Calls \X Conns -> {"none", "transit", "done", "void"}]
  BY <1>1 DEF McpInvariant, ClientInvariant, ClientTypes
<1>3. ClientInvariant'
  BY <1>1, <1>2 DEF McpInvariant, ClientInvariant, ClientTypes, OneConnection, AttemptsCount
<1>4. \A d \in Calls : d # c => (Due(d)' => Due(d))
  <2> SUFFICES ASSUME NEW d \in Calls, d # c, Due(d)'
               PROVE  Due(d)
    OBVIOUS
  <2>1. call[d].pc = "sent" => call[d].on \in Conns
    BY DEF McpInvariant, ClientInvariant, AttemptsCount, Counts
  <2>2. call[d].pc = "sent" => fate'[<<d, call[d].on>>] = fate[<<d, call[d].on>>]
    BY <1>1, <2>1
  <2> QED BY <1>1, <2>2 DEF Due
<1>5. /\ tool' \in [Calls -> Tool] /\ reply' \in [Calls -> Reply]
      /\ tool'[c] = NoTool /\ reply'[c] = "none" /\ "none" \notin Sessions
      /\ \A d \in Calls : d # c => tool'[d] = tool[d] /\ reply'[d] = reply[d]
  BY <1>1, ToolIs, ServerAssumption DEF McpInvariant, ServerTypes, Reply
<1>6. ServerTypes'
  BY <1>1, <1>5 DEF McpInvariant, ServerTypes
<1>7. NoTool.step = "status" /\ Fits(owner, NoTool)
  BY DEF NoTool, Fits
<1>8. NamedByItsTask'
  BY <1>1, <1>4, <1>5, <1>7, Zenon DEF McpInvariant, NamedByItsTask
<1> QED BY <1>3, <1>6, <1>8 DEF McpInvariant

\* A new process knows of nothing; the one before was closed, and its connection with it.
LEMMA NewProcessKeeps ==
    ASSUME McpInvariant, NewProcess
    PROVE  McpInvariant'
<1>1. /\ closed /\ dialing = 0 /\ NextConn \in Conns /\ UNCHANGED <<dialing, owner>>
      /\ peer' = NextConn /\ connected' = TRUE /\ closed' = FALSE
      /\ socket' = [socket EXCEPT ![NextConn] = "ready"]
      /\ call' = [c \in Calls |-> NoCall] /\ fate' = [m \in Calls \X Conns |-> "none"]
      /\ bound' = [s \in Sessions |-> NoTask] /\ tool' = [c \in Calls |-> NoTool]
      /\ reply' = [c \in Calls |-> "none"]
  BY DEF NewProcess
<1>2. NoCall \in Call /\ Counts(NoCall) /\ NoCall.pc = "idle"
  <2>1. "read" \in Methods /\ FALSE \in BOOLEAN
    BY DEF Methods
  <2> QED BY <2>1, CallIsNew
<1>3. ClientTypes'
  <2>1. connected' \in BOOLEAN /\ closed' \in BOOLEAN
    BY <1>1, Zenon
  <2>2. /\ peer' \in 0 .. MaxConns /\ peer' \in Conns /\ dialing' \in Nat
        /\ socket' \in [Conns -> SocketStates] /\ call' \in [Calls -> Call]
        /\ fate' \in [Calls \X Conns -> {"none", "transit", "done", "void"}]
    BY <1>1, <1>2, ClientAssumption
       DEF McpInvariant, ClientInvariant, ClientTypes, SocketStates, Conns
  <2> QED BY <2>1, <2>2, Zenon DEF ClientTypes
<1>4. OneConnection'
  BY <1>1 DEF McpInvariant, ClientInvariant, ClientTypes, OneConnection
<1>5. AttemptsCount' /\ \A c \in Calls : ~Due(c)'
  BY <1>1, <1>2 DEF AttemptsCount, Due
<1>6. ServerTypes'
  <2>1. NoTool \in Tool
    BY DEF Tool, NoTool, ToolNames, Steps
  <2> QED BY <1>1, <2>1 DEF McpInvariant, ServerTypes, Reply
<1>7. NoTool.step = "status" /\ Fits(owner', NoTool)
  BY DEF NoTool, Fits
<1>8. NamedByItsTask'
  BY <1>1, <1>5, <1>7, ServerAssumption DEF NamedByItsTask
<1> QED BY <1>3, <1>4, <1>5, <1>6, <1>8 DEF McpInvariant, ClientInvariant

\* A client that goes on leaves the registry and the broker alone.
LEMMA ClientLeavesNames ==
    ASSUME McpInvariant, ClientInvariant', \A d \in Calls : Due(d)' => Due(d),
           UNCHANGED <<bound, tool, reply, owner>>
    PROVE  McpInvariant'
<1>1. ServerTypes'
  BY DEF McpInvariant, ServerTypes
<1>2. NamedByItsTask'
  BY Zenon DEF McpInvariant, NamedByItsTask
<1> QED BY <1>1, <1>2 DEF McpInvariant

\* The process knows of nothing at first, and its connection is the only one.
LEMMA McpStarts ==
    ASSUME Init
    PROVE  McpInvariant
<1>1. NoCall \in Call /\ Counts(NoCall) /\ NoCall.pc = "idle"
  <2>1. "read" \in Methods /\ FALSE \in BOOLEAN
    BY DEF Methods
  <2> QED BY <2>1, CallIsNew
<1>2. ClientTypes
  <2>1. connected \in BOOLEAN /\ closed \in BOOLEAN
    BY Zenon DEF Init, ClientInit
  <2>2. /\ peer \in 0 .. MaxConns /\ peer \in Conns /\ dialing \in Nat
        /\ socket \in [Conns -> SocketStates] /\ call \in [Calls -> Call]
        /\ fate \in [Calls \X Conns -> {"none", "transit", "done", "void"}]
    BY <1>1, ClientAssumption DEF Init, ClientInit, SocketStates, Conns
  <2> QED BY <2>1, <2>2, Zenon DEF ClientTypes
<1>3. OneConnection
  BY DEF Init, ClientInit, OneConnection
<1>4. AttemptsCount /\ \A c \in Calls : ~Due(c)
  BY <1>1 DEF AttemptsCount, Due, Init, ClientInit
<1>5. ServerTypes
  <2>1. NoTool \in Tool
    BY DEF Tool, NoTool, ToolNames, Steps
  <2> QED BY <2>1 DEF Init, ServerTypes, Reply
<1>6. NoTool.step = "status" /\ Fits(owner, NoTool)
  BY DEF NoTool, Fits
<1>7. NamedByItsTask
  BY <1>4, <1>6, ServerAssumption DEF NamedByItsTask, Init
<1> QED BY <1>2, <1>3, <1>4, <1>5, <1>7 DEF McpInvariant, ClientInvariant

\* Every step of the process, its tools and the broker keeps sessions named by their task.
LEMMA McpStep ==
    ASSUME McpInvariant, [Next]_vars
    PROVE  McpInvariant'
<1>1. CASE Settled /\ Event
  <2>1. CASE ClientStep /\ UNCHANGED <<serverVars, brokerVars>>
    <3>1. UNCHANGED <<bound, tool, reply, owner>>
      BY <2>1 DEF serverVars, brokerVars
    <3> QED BY <2>1, <3>1, ClientSteps, ClientLeavesNames DEF McpInvariant
  <2> QED BY <1>1, <2>1, ToolsBegin, ServeKeeps, BrokerDropsKeeps, DrainedKeeps, NewProcessKeeps
          DEF Event
<1>2. ASSUME NEW c \in Calls,
             \/ ToolEnds(c) \/ SessionOpened(c) \/ SessionClosed(c) \/ TabReserved(c)
             \/ ResumeFails(c) \/ ResumeGivesUp(c) \/ ResumeStatusRead(c)
             \/ ResumeSessionOpened(c)
      PROVE  McpInvariant'
  BY <1>2, ToolEndsKeeps, SessionOpenedKeeps, SessionClosedKeeps, TabReservedKeeps, ResumeAsks,
     ResumeSessionOpenedKeeps
<1>3. CASE UNCHANGED vars
  <2>1. UNCHANGED <<clientVars, bound, tool, reply, owner>>
    BY <1>3 DEF vars, serverVars, brokerVars
  <2>2. ClientInvariant' /\ \A d \in Calls : Due(d)' => Due(d)
    BY <2>1 DEF clientVars, McpInvariant, ClientInvariant, ClientTypes, OneConnection,
                AttemptsCount, Due
  <2> QED BY <2>1, <2>2, ClientLeavesNames
<1> QED BY <1>1, <1>2, <1>3 DEF Next

\* However the connection fails or is replaced, what is not a read is written once.
THEOREM RequestsWrittenOnce == Spec => []WrittenOnce
<1>1. McpInvariant => WrittenOnce
  BY DEF McpInvariant, ClientInvariant, AttemptsCount, Counts, WrittenOnce
<1> QED BY <1>1, McpStarts, McpStep, PTL DEF Spec

\* The client holds no connection but the one it is attached to.
THEOREM OneLiveConnection == Spec => []NoStrayConnection
<1>1. McpInvariant => NoStrayConnection
  BY DEF McpInvariant, ClientInvariant, OneConnection, NoStrayConnection
<1> QED BY <1>1, McpStarts, McpStep, PTL DEF Spec

\* A request the broker serves for a session serves the task that owns the session.
THEOREM SessionsServeTheirTask == Spec => NoForeignUse
<1>1. ASSUME McpInvariant, NEW c \in Calls, NEW n \in Conns,
             tool[c].step \notin {"status", "open"}, owner[tool[c].session].on = n
      PROVE  owner[tool[c].session].task = tool[c].task
  <2>1. n # 0
    BY DEF Conns
  <2> QED BY <1>1, <2>1 DEF McpInvariant, NamedByItsTask, Fits, IsOf
<1> DEFINE ServesItsTask ==
      \A c \in Calls, n \in Conns :
        (/\ fate[<<c, n>>] = "transit" /\ fate'[<<c, n>>] = "done"
         /\ tool[c].step \notin {"status", "open"}
         /\ owner[tool[c].session].on = n)
           => owner[tool[c].session].task = tool[c].task
<1>2. McpInvariant => ServesItsTask
  BY <1>1
<1>3. NoForeignUse <=> [][ServesItsTask]_vars
  BY DEF NoForeignUse
<1> HIDE DEF ServesItsTask
<1> QED BY <1>2, <1>3, McpStarts, McpStep, PTL DEF Spec

=============================================================================
