--------------------------- MODULE ClipboardSource ---------------------------
(***************************************************************************)
(* Writing the clipboard at most once per operation.  The worker delivers  *)
(* the operation to the offscreen document, whose lane takes one delivery  *)
(* at a time: an intent goes to storage before the write and a receipt     *)
(* after it, both through a handler of the worker.  Document and worker    *)
(* end independently, at any step; a handler goes on without the document. *)
(*                                                                         *)
(* A document takes longer to open than the handler's calls to storage:    *)
(* when another opens, no request of the last one is still at work.  (A    *)
(* late one would pass the checks it made before the new document's, and   *)
(* put its intent over a receipt.)                                         *)
(*                                                                         *)
(* The binding of a record to its request is its operation; payloads, MIME *)
(* types, the storage quota and reading the clipboard are left out.        *)
(***************************************************************************)
EXTENDS Naturals, Sequences, FiniteSets

CONSTANTS
    Deliveries, Operations, Of, \* Of: the operation of each delivery
    Capacity,                   \* MAX_CLIPBOARD_SOURCE_RECEIPTS (512)
    MaxDocs, MaxUpsets          \* bounds: documents, endings and failures

VARIABLES
    doc, used,  \* the document or 0; documents so far
    lane,       \* clipboardWriteLane: the deliveries, in order
    step,       \* where the first one's work stands
    asked,      \* each document's request to the handler: [does, stage, says]
    receipts,   \* the record of each operation
    wrote,      \* the deliveries that changed the clipboard
    answer,     \* what the worker was told, by delivery
    upsets

vars == <<doc, used, lane, step, asked, receipts, wrote, answer, upsets>>

Docs == 1..MaxDocs
Free == [does |-> "nothing", stage |-> "free", op |-> "none", says |-> "none"]

Init ==
    /\ doc = 0 /\ used = 0 /\ lane = <<>> /\ step = "ready" /\ upsets = 0
    /\ asked = [d \in Docs |-> Free] /\ receipts = [o \in Operations |-> "none"]
    /\ wrote = {} /\ answer = [v \in Deliveries |-> "pending"]

Now == Head(lane)

----------------------------------------------------------------------------
(* The worker: delivery, and the handler of storage requests                *)

Working(d) == asked[d].stage \in {"asked", "looked"}

\* ensureOffscreenClipboard and the message.
Delivers(v) ==
    /\ answer[v] = "pending" /\ \A i \in DOMAIN lane : lane[i] # v
    /\ IF doc = 0
       THEN /\ used < MaxDocs /\ \A d \in Docs : ~Working(d)
            /\ used' = used + 1 /\ doc' = used'
       ELSE UNCHANGED <<doc, used>>
    /\ lane' = Append(lane, v)
    /\ UNCHANGED <<step, asked, receipts, wrote, answer, upsets>>

Active == {o \in Operations : receipts[o] \in {"intent", "completed"}}

\* A reclaimed receipt keeps the operation's identity.
Reclaimed == "compacted"

\* A request sees what is stored, and answers or prepares what it will store.
Looks(d) ==
    LET q == asked[d] IN
    /\ q.stage = "asked"
    /\ asked' = [asked EXCEPT ![d] =
         CASE q.does = "get" -> [q EXCEPT !.stage = "answered", !.says = receipts[q.op]]
           [] q.does = "count" /\ Cardinality(Active) < Capacity
              -> [q EXCEPT !.stage = "answered", !.says = "room"]
           [] q.does = "intent" /\ (receipts[q.op] # "none" \/ Cardinality(Active) >= Capacity)
              -> [q EXCEPT !.stage = "answered", !.says = "refused"]
           [] q.does = "receipt" /\ receipts[q.op] # "intent"
              -> [q EXCEPT !.stage = "answered", !.says = "refused"]
           [] OTHER -> [q EXCEPT !.stage = "looked"]]
    /\ UNCHANGED <<doc, used, lane, step, receipts, wrote, answer, upsets>>

Stores(d) ==
    LET q == asked[d]
        full == {o \in Operations : receipts[o] = "completed"} IN
    /\ q.stage = "looked"
    /\ receipts' = [o \in Operations |->
                   IF q.does = "count" /\ o \in full THEN Reclaimed
                   ELSE IF q.does = "intent" /\ o = q.op THEN "intent"
                   ELSE IF q.does = "receipt" /\ o = q.op THEN "completed"
                   ELSE receipts[o]]
    /\ asked' = [asked EXCEPT ![d] =
                   [q EXCEPT !.stage = "answered",
                             !.says = IF q.does # "count" THEN "stored"
                                      ELSE IF Cardinality(Active \ full) < Capacity THEN "room"
                                      ELSE "full"]]
    /\ UNCHANGED <<doc, used, lane, step, wrote, answer, upsets>>

\* The worker ends; its requests are refused, and nobody hears the answers to its deliveries.
WorkerEnds ==
    /\ upsets < MaxUpsets /\ upsets' = upsets + 1
    /\ asked' = [d \in Docs |->
                   IF Working(d) THEN [asked[d] EXCEPT !.stage = "answered", !.says = "lost"]
                   ELSE asked[d]]
    /\ answer' = [v \in Deliveries |->
                    IF \E i \in DOMAIN lane : lane[i] = v THEN "unheard" ELSE answer[v]]
    /\ UNCHANGED <<doc, used, lane, step, receipts, wrote>>

----------------------------------------------------------------------------
(* The offscreen document: writeClipboardWithReceipt                        *)

Asks(what) ==
    asked' = [asked EXCEPT ![doc] =
                [does |-> what, stage |-> "asked", op |-> Of[Now], says |-> "none"]]
Tells(effect) ==
    /\ answer' = [answer EXCEPT ![Now] = IF @ = "pending" THEN effect ELSE @]
    /\ lane' = Tail(lane) /\ step' = "ready" /\ asked' = [asked EXCEPT ![doc] = Free]

Begins ==
    /\ lane # <<>> /\ step = "ready" /\ step' = "get" /\ Asks("get")
    /\ UNCHANGED <<doc, used, lane, receipts, wrote, answer, upsets>>

\* Mutant: a failure is one without an effect unless the write was acknowledged.
UnlessAcknowledged == IF step = "receipt" THEN "unknown" ELSE "no_effect"

\* intentPersisted decides what a failure says.
Failure == IF step \in {"writing", "receipt"} THEN "unknown" ELSE "no_effect"

\* The answer to a request, and the next one.
Hears ==
    LET said == asked[doc].says IN
    /\ doc # 0 /\ lane # <<>> /\ asked[doc].stage = "answered" /\ step = asked[doc].does
    /\ CASE step = "get" /\ said = "none" ->
              step' = "count" /\ Asks("count") /\ UNCHANGED <<lane, answer>>
         [] step = "get" /\ said \in {"completed", "compacted"} -> Tells("written_before")
         [] step = "get" /\ said = "intent" -> Tells("unknown")
         \* the payload is prepared here, well or not
         [] step = "count" /\ said = "room" ->
              \/ step' = "intent" /\ Asks("intent") /\ UNCHANGED <<lane, answer>>
              \/ Tells("no_effect")
         [] step = "intent" /\ said = "stored" ->
              /\ step' = "writing" /\ asked' = [asked EXCEPT ![doc] = Free]
              /\ UNCHANGED <<lane, answer>>
         [] step = "receipt" /\ said = "stored" -> Tells("written")
         [] OTHER -> Tells(Failure)
    /\ UNCHANGED <<doc, used, receipts, wrote, upsets>>

\* Mutant: a rejected write gets a receipt as well.
AnyWrite(acknowledged) == TRUE

\* Only an acknowledged write has a receipt.
HasReceipt(acknowledged) == acknowledged

\* Chrome writes, and acknowledges it, or rejects: then it may have written or not.
Writes ==
    /\ lane # <<>> /\ step = "writing"
    /\ \E written, acknowledged \in BOOLEAN :
         /\ acknowledged => written
         /\ wrote' = IF written THEN wrote \union {Now} ELSE wrote
         /\ IF HasReceipt(acknowledged)
            THEN step' = "receipt" /\ Asks("receipt") /\ UNCHANGED <<lane, answer>>
            ELSE Tells(Failure)
    /\ UNCHANGED <<doc, used, receipts, upsets>>

\* Chrome closes the document, maybe under a write that happens all the same.
DocumentEnds ==
    /\ doc # 0 /\ upsets < MaxUpsets /\ upsets' = upsets + 1 /\ doc' = 0
    /\ answer' = [v \in Deliveries |->
                    IF answer[v] = "pending" /\ \E i \in DOMAIN lane : lane[i] = v
                    THEN "unknown" ELSE answer[v]]
    /\ wrote' \in {wrote, IF step = "writing" THEN wrote \union {Now} ELSE wrote}
    /\ lane' = <<>> /\ step' = "ready"
    /\ UNCHANGED <<used, asked, receipts>>

Next ==
    \/ \E v \in Deliveries : Delivers(v)
    \/ \E d \in Docs : Looks(d) \/ Stores(d)
    \/ WorkerEnds \/ Begins \/ Hears \/ Writes \/ DocumentEnds
Spec == Init /\ [][Next]_vars

----------------------------------------------------------------------------

\* No operation changes the clipboard twice, however often it is delivered, whichever of the
\* two ends when, and whatever the reclaiming of receipts takes away.
WritesOnce == \A o \in Operations : Cardinality({v \in wrote : Of[v] = o}) <= 1

\* What is stored and told of a write is true: it happened once, a receipt is that of a write, a
\* delivery that was told of it finds a receipt, and one told of no effect has none and will have
\* none.
ReceiptsAreTrue ==
    /\ WritesOnce
    /\ \A o \in Operations :
         receipts[o] \in {"completed", "compacted"} => \E v \in wrote : Of[v] = o
    /\ \A v \in Deliveries :
         /\ answer[v] \in {"written", "written_before"}
            => receipts[Of[v]] \in {"completed", "compacted"}
         /\ answer[v] = "no_effect" => v \notin wrote
=============================================================================
