--------------------------- MODULE CommandOutcome ---------------------------
(***************************************************************************)
(* What the broker's operation ledger promises about each idempotency key  *)
(* (docs/PROTOCOL.md, "no_dispatch ... unknown_effect"): a key's command   *)
(* is handed to the transport at most once, a key cancelled before that is *)
(* never sent, and what was once recorded as decided stays decided, through *)
(* timeouts, disconnections and restarts.                                  *)
(***************************************************************************)
CONSTANTS Keys

VARIABLES
    outcome,    \* the durable verdict on each key
    sent        \* whether a command was ever handed to the transport for it

vars == <<outcome, sent>>

\* "open": not decided, "maybe": must be reconciled, the rest are final.
Verdicts == {"open", "maybe", "cancelled", "effect", "no_effect"}

Final == {"cancelled", "effect", "no_effect"}

TypeOK == /\ outcome \in [Keys -> Verdicts]
          /\ sent \in [Keys -> BOOLEAN]

Init == /\ outcome = [k \in Keys |-> "open"]
        /\ sent = [k \in Keys |-> FALSE]

Stays(k) == outcome'[k] = outcome[k] /\ sent'[k] = sent[k]

\* The command is handed over: only while the key is open, and only once.
Send(k) == /\ outcome[k] = "open"
           /\ ~sent[k]
           /\ sent'[k]
           /\ outcome'[k] = "open"

Cancel(k) == /\ outcome[k] = "open"
             /\ ~sent[k]
             /\ ~sent'[k]
             /\ outcome'[k] = "cancelled"

\* A timer, a disconnection or a restart: the effect may have happened.
Doubt(k) == /\ outcome[k] = "open"
            /\ outcome'[k] = "maybe"
            /\ sent'[k] = sent[k]

\* The extension's own result, on time or late.
Learn(k) == /\ outcome[k] \in {"open", "maybe"}
            /\ sent[k]
            /\ sent'[k]
            /\ outcome'[k] \in {"effect", "no_effect"}

\* A restart decides several keys in one step.
Next == /\ outcome' \in [Keys -> Verdicts]
        /\ sent' \in [Keys -> BOOLEAN]
        /\ \A k \in Keys : Stays(k) \/ Send(k) \/ Cancel(k) \/ Doubt(k) \/ Learn(k)

Spec == Init /\ [][Next]_vars

\* A cancelled key was never sent, and an observed outcome was.
OutcomesMatchSends ==
    \A k \in Keys : /\ outcome[k] = "cancelled" => ~sent[k]
                    /\ outcome[k] \in {"effect", "no_effect"} => sent[k]

\* A final verdict never changes, and a key with one is never sent.
FinalIsFinal ==
    [][\A k \in Keys : outcome[k] \in Final => Stays(k)]_vars

=============================================================================
