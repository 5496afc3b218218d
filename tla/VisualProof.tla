---------------------------- MODULE VisualProof ----------------------------
(***************************************************************************)
(* Trusted visual input into one tab: the broker shows its caller an image *)
(* with a signed proof of what it looked at, and a step of a transaction   *)
(* that presents the proof is given one input.  The inspections and the    *)
(* verification, revalidation and consumption of proofs are in             *)
(* src/src/broker/broker.mjs, the last look before a click and the input   *)
(* itself in src/extension/service-worker.js.                              *)
(*                                                                         *)
(* A look at the page is one step, what the broker makes of it another.    *)
(* Where the target lies is left out: a target that moved or changed is a  *)
(* call that fails, unless the click may follow it.                        *)
(* Every navigation here keeps the address of the page: another address is *)
(* refused wherever another document is.  A caller may always present the  *)
(* whole proof, so the memory of issued proofs, which only lets it present *)
(* their number, is left out.  Several transactions may share the tab's    *)
(* lease here at any time; TaskTransaction says when they do, and what     *)
(* page a transaction insists on for its later steps.                      *)
(***************************************************************************)
EXTENDS Naturals, Sequences, FiniteSets

CONSTANTS
    Calls,   \* inspections and transactions
    MaxProofs, MaxDocuments, MaxLeases, MaxInputs, MaxUpsets \* bounds

VARIABLES
    document,            \* the tab's document, counted
    reserved, given,     \* the lease on it or 0; leases given out so far
    dawn,                \* and those of them given out by earlier brokers
    proof, signed,       \* what the proofs say; how many there are
    spent,               \* consumedVisualProofs
    expired,             \* proofs whose time is over
    at, does,            \* where a call stands and what it does
    under,               \* the lease it works under
    seen, shot,          \* the documents it last saw and has on its image
    from, to,            \* the proofs of a step
    late,                \* those of them that had expired when they were consumed
    inputs,              \* the inputs sent
    upsets               \* disturbances so far, a bound

leaseVars == <<reserved, given, dawn>>
proofVars == <<proof, signed, spent, expired>>
lookVars == <<seen, shot>>
stepVars == <<from, to, late>>
vars == <<document, leaseVars, proofVars, at, does, under, lookVars, stepVars, inputs, upsets>>

Proofs == 1..MaxProofs
Inspections == {"target", "point"}
Acts == {"click", "drag", "other"}
AtExtension == {"guards", "inputs"}

NoProof == [lease |-> 0, document |-> 0, shown |-> 0]

Init ==
    /\ document = 1
    /\ reserved = 0 /\ given = 0 /\ dawn = 0
    /\ proof = [n \in Proofs |-> NoProof] /\ signed = 0 /\ spent = {} /\ expired = {}
    /\ at = [c \in Calls |-> "idle"] /\ does = [c \in Calls |-> "none"]
    /\ under = [c \in Calls |-> 0]
    /\ seen = [c \in Calls |-> 0] /\ shot = [c \in Calls |-> 0]
    /\ from = [c \in Calls |-> 0] /\ to = [c \in Calls |-> 0] /\ late = [c \in Calls |-> {}]
    /\ inputs = << >> /\ upsets = 0

Upset == upsets < MaxUpsets /\ upsets' = upsets + 1

Drop(f, c, nothing) == [f EXCEPT ![c] = nothing]
Goes(c, step) == at' = [at EXCEPT ![c] = step]
Sees(c) == seen' = [seen EXCEPT ![c] = document]

\* #executeOperation: the lease of the call is the tab's.
Held(c) == reserved # 0 /\ under[c] = reserved

\* The locals of a step, and of the whole call, go with it.
StepOver(c) ==
    /\ from' = Drop(from, c, 0) /\ to' = Drop(to, c, 0) /\ late' = Drop(late, c, {})
    /\ seen' = Drop(seen, c, 0)
Leaves(c) ==
    /\ StepOver(c) /\ Goes(c, "idle")
    /\ does' = Drop(does, c, "none") /\ under' = Drop(under, c, 0) /\ shot' = Drop(shot, c, 0)

-----------------------------------------------------------------------------
(* The page, the lease, the time and the broker.                           *)

Navigates ==
    /\ Upset /\ document < MaxDocuments /\ document' = document + 1
    /\ UNCHANGED <<leaseVars, proofVars, at, does, under, lookVars, stepVars, inputs>>

Reserves ==
    /\ reserved = 0 /\ given < MaxLeases /\ given' = given + 1 /\ reserved' = given + 1
    /\ UNCHANGED <<document, dawn, proofVars, at, does, under, lookVars, stepVars, inputs, upsets>>

\* Released, or gone with its session, its generation or a transaction that gave up.
LosesLease ==
    /\ Upset /\ reserved # 0 /\ reserved' = 0
    /\ UNCHANGED <<document, given, dawn, proofVars, at, does, under, lookVars, stepVars, inputs>>

Expires ==
    /\ \E n \in 1..signed : n \notin expired /\ expired' = expired \union {n}
    /\ UNCHANGED <<document, leaseVars, proof, signed, spent, at, does, under, lookVars, stepVars,
                   inputs, upsets>>

\* Another broker knows of no lease and of no consumed proof, but has the secret they are
\* signed with.  What is at the Extension goes on.
Restarts ==
    /\ Upset /\ dawn < given /\ dawn' = given /\ reserved' = 0 /\ spent' = {}
    /\ LET Kept(f, nothing) == [c \in Calls |-> IF at[c] \in AtExtension THEN f[c] ELSE nothing]
       IN  /\ at' = Kept(at, "idle") /\ does' = Kept(does, "none") /\ under' = Kept(under, 0)
           /\ seen' = Kept(seen, 0) /\ shot' = Kept(shot, 0)
           /\ from' = Kept(from, 0) /\ to' = Kept(to, 0) /\ late' = Kept(late, {})
    /\ UNCHANGED <<document, given, proof, signed, expired, inputs>>

-----------------------------------------------------------------------------
(* An inspection: #inspectVisualTarget and #inspectVisualPoint.            *)

AsksToLook(c) ==
    /\ at[c] = "idle" /\ reserved # 0 /\ signed < MaxProofs
    /\ \E kind \in Inspections : does' = [does EXCEPT ![c] = kind]
    /\ under' = [under EXCEPT ![c] = reserved] /\ Goes(c, "inspects")
    /\ UNCHANGED <<document, leaseVars, proofVars, lookVars, stepVars, inputs, upsets>>

Inspects(c) ==
    /\ at[c] = "inspects" /\ Held(c) /\ Sees(c) /\ Goes(c, "captures")
    /\ UNCHANGED <<document, leaseVars, proofVars, does, under, shot, stepVars, inputs, upsets>>

\* The image of a point is not compared with the page again, that of a target is.
Captures(c) ==
    /\ at[c] \in {"captures", "recaptures"} /\ Held(c)
    /\ shot' = [shot EXCEPT ![c] = document]
    /\ Goes(c, IF does[c] # "target" THEN "signs"
               ELSE IF at[c] = "captures" THEN "compares" ELSE "recompares")
    /\ UNCHANGED <<document, leaseVars, proofVars, does, under, seen, stepVars, inputs, upsets>>

\* The target has settled, or there is one more image.
Compares(c) ==
    /\ at[c] \in {"compares", "recompares"} /\ Held(c) /\ document = seen[c]
    /\ \/ Goes(c, "signs")
       \/ at[c] = "compares" /\ Goes(c, "recaptures")
    /\ Sees(c)
    /\ UNCHANGED <<document, leaseVars, proofVars, does, under, shot, stepVars, inputs, upsets>>

Signs(c) ==
    /\ at[c] = "signs" /\ signed < MaxProofs /\ signed' = signed + 1
    /\ proof' = [proof EXCEPT ![signed + 1] =
                   [lease |-> under[c], document |-> seen[c], shown |-> shot[c]]]
    /\ Leaves(c)
    /\ UNCHANGED <<document, leaseVars, spent, expired, inputs, upsets>>

-----------------------------------------------------------------------------
(* A step of a transaction.                                                *)

Begins(c) ==
    /\ at[c] = "idle" /\ reserved # 0 /\ Len(inputs) < MaxInputs
    /\ \E kind \in Acts : does' = [does EXCEPT ![c] = kind]
    /\ under' = [under EXCEPT ![c] = reserved] /\ Goes(c, "reads")
    /\ UNCHANGED <<document, leaseVars, proofVars, lookVars, stepVars, inputs, upsets>>

\* The snapshot that every check of the step is made against.
Reads(c) ==
    /\ at[c] = "reads" /\ Held(c) /\ Len(inputs) < MaxInputs /\ Sees(c) /\ Goes(c, "verifies")
    /\ UNCHANGED <<document, leaseVars, proofVars, does, under, shot, stepVars, inputs, upsets>>

\* #verifyVisualTargetProof, which does not consume here.
Verified(c, n) ==
    /\ n <= signed /\ n \notin spent \union expired
    /\ proof[n].lease = under[c] /\ proof[n].document = seen[c]

Verifies(c) ==
    /\ at[c] = "verifies"
    /\ \E n \in Proofs : Verified(c, n) /\ from' = [from EXCEPT ![c] = n]
    /\ Goes(c, "looks")
    /\ UNCHANGED <<document, leaseVars, proofVars, does, under, lookVars, to, late, inputs, upsets>>

\* Mutant: another document with the same address is taken for the same page.
SameAddress(n) == TRUE

SameDocument(n) == document = proof[n].document

\* #revalidateVisualTargetProof
Looks(c) ==
    /\ at[c] = "looks" /\ Held(c) /\ SameDocument(from[c]) /\ Sees(c)
    /\ Goes(c, IF does[c] = "drag" THEN "verifies_to" ELSE "spends")
    /\ UNCHANGED <<document, leaseVars, proofVars, does, under, shot, stepVars, inputs, upsets>>

VerifiesTo(c) ==
    /\ at[c] = "verifies_to"
    /\ \E n \in Proofs : Verified(c, n) /\ to' = [to EXCEPT ![c] = n]
    /\ Goes(c, "looks_to")
    /\ UNCHANGED <<document, leaseVars, proofVars, does, under, lookVars, from, late, inputs,
                   upsets>>

LooksTo(c) ==
    /\ at[c] = "looks_to" /\ Held(c) /\ SameDocument(to[c])
    /\ Sees(c) /\ Goes(c, "spends")
    /\ UNCHANGED <<document, leaseVars, proofVars, does, under, shot, stepVars, inputs, upsets>>

Used(c) == IF does[c] = "drag" THEN {from[c], to[c]} ELSE {from[c]}

\* Mutant: what was verified before two looks at the page is not looked at again.
SpentUnseen(n, s) == FALSE

\* #consumeVisualTargetProof, which refuses a consumed proof and forgets the expired ones.
Spent(n, s) == n \in s
After(n, s) == (s \union {n}) \ expired

Spends(c) ==
    /\ at[c] = "spends" /\ ~Spent(from[c], spent)
    /\ LET first == After(from[c], spent) IN
       IF does[c] # "drag" THEN spent' = first /\ Goes(c, "dispatches")
       ELSE IF Spent(to[c], first) THEN spent' = first /\ Goes(c, "fails")
       ELSE spent' = After(to[c], first) /\ Goes(c, "dispatches")
    /\ late' = [late EXCEPT ![c] = Used(c) \intersect expired]
    /\ UNCHANGED <<document, leaseVars, proof, signed, expired, does, under, lookVars, from, to,
                   inputs, upsets>>

\* The operation is reserved in the ledger and sent.
Dispatches(c) ==
    /\ at[c] = "dispatches" /\ Held(c)
    /\ Goes(c, IF does[c] = "click" THEN "guards" ELSE "inputs")
    /\ UNCHANGED <<document, leaseVars, proofVars, does, under, lookVars, stepVars, inputs, upsets>>

\* runTrustedVisualInput: a click is looked at once more when the tab is in front.
Guards(c) ==
    /\ at[c] = "guards" /\ document = seen[c]
    /\ Sees(c) /\ Goes(c, "inputs")
    /\ UNCHANGED <<document, leaseVars, proofVars, does, under, shot, stepVars, inputs, upsets>>

\* The transaction goes on to its next step, if its broker is still there to read it.
Inputs(c) ==
    /\ at[c] = "inputs" /\ Len(inputs) < MaxInputs
    /\ inputs' = Append(inputs, [by |-> Used(c), late |-> late[c], seen |-> seen[c]])
    /\ StepOver(c) /\ Goes(c, "reads")
    /\ UNCHANGED <<document, leaseVars, proofVars, does, under, shot, upsets>>

\* Wherever a call fails or is over; a transaction frees its lease.
Ends(c) ==
    /\ at[c] # "idle" /\ Leaves(c)
    /\ reserved' = IF does[c] \in Acts /\ reserved = under[c] THEN 0 ELSE reserved
    /\ UNCHANGED <<document, given, dawn, proofVars, inputs, upsets>>

-----------------------------------------------------------------------------
Next ==
    \/ Navigates \/ Reserves \/ LosesLease \/ Expires \/ Restarts
    \/ \E c \in Calls :
         \/ AsksToLook(c) \/ Inspects(c) \/ Captures(c) \/ Compares(c) \/ Signs(c)
         \/ Begins(c) \/ Reads(c) \/ Verifies(c) \/ Looks(c) \/ VerifiesTo(c) \/ LooksTo(c)
         \/ Spends(c) \/ Dispatches(c) \/ Guards(c) \/ Inputs(c) \/ Ends(c)
Spec == Init /\ [][Next]_vars

-----------------------------------------------------------------------------

\* A proof serves one input until it expires: two steps that verified it together, a drag that
\* names it at both ends, a forgotten entry or a restarted broker do not make it two.
Warrant(i) == inputs[i].by \ inputs[i].late
OneInputWhileFresh ==
    \A i, j \in DOMAIN inputs : i # j => Warrant(i) \intersect Warrant(j) = {}

\* Each input was last aimed at the very document of the image its caller was shown, although
\* the image of a point is never compared with the page it was signed for.
AimedAtTheImage ==
    \A i \in DOMAIN inputs : \A n \in inputs[i].by : proof[n].shown = inputs[i].seen
=============================================================================
