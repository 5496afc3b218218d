----------------------------- MODULE NativePort -----------------------------
(***************************************************************************)
(* The line between the Extension's worker and the broker: a port of       *)
(* Native Messaging, whose other end is a host process of its own that     *)
(* relays to the broker.  The worker keeps one port and opens another when *)
(* it is lost, by timer, alarm or tab event; Chrome may stop the worker,   *)
(* host and broker may die, and a handshake may hang or be refused.  What  *)
(* is on its way back is dropped with its port.  Large commands come in    *)
(* two frames, which are put together, checked by an asynchronous digest   *)
(* and given up after a while.                                             *)
(*                                                                         *)
(* Commands are sent once (see OperationDispatch), what they do is left    *)
(* out, and a generation lasts as long as the port, since a worker that    *)
(* comes back keeps its identity.  The recorder of the host and setup are  *)
(* left out, and so are messages that break the protocol.                  *)
(***************************************************************************)
EXTENDS Naturals, Sequences, FiniteSets

CONSTANTS Small, Large, \* commands, by the number of their frames
          Slots,        \* transfers at a time (2)
          MaxPorts,     \* bound: ports opened
          Upsets,       \* what may go wrong
          MaxUpsets     \* bound: how often

VARIABLES
    worker, port,   \* runtimeState: what it does, and its port or 0
    used, upsets,
    host, piped,    \* the process of each port; ports neither end of which is closed
    down,           \* frames on their way from the host to the worker
    relay,          \* the port whose host the broker has registered, or 0
    sentBy,         \* the port that a command was sent by, or 0
    entry, digest,  \* NativeCommandAssembler: #pending, and the port of a digest's message
    running,        \* the port whose command runs (replyPort), or 0
    started,        \* commands that were executed
    answers         \* [of, by, effect]: what went back, and by which port

transferVars == <<entry, digest>>
commandVars == <<sentBy, running, started, answers>>
hostVars == <<host, down, relay>>
vars == <<worker, port, used, upsets, piped, hostVars, transferVars, commandVars>>

Commands == Small \union Large
Ports == 1..MaxPorts

Init ==
    /\ worker = "idle" /\ port = 0 /\ used = 0 /\ upsets = 0
    /\ host = [p \in Ports |-> "none"] /\ piped = {}
    /\ down = [p \in Ports |-> <<>>] /\ relay = 0
    /\ sentBy = [c \in Commands |-> 0]
    /\ entry = [c \in Large |-> "none"] /\ digest = [c \in Large |-> 0]
    /\ running = [c \in Commands |-> 0] /\ started = {} /\ answers = {}

Upset(what) == what \in Upsets /\ upsets < MaxUpsets /\ upsets' = upsets + 1

----------------------------------------------------------------------------
(* The worker's port                                                        *)

NoTransfers == [c \in Large |-> "none"]

\* Mutant: transfers outlive the port they came by.
KeptTransfers == entry

\* commandAssembler.clear
ClearedTransfers == NoTransfers

\* Mutant: the hello timer closes the port and leaves the worker connecting.
StillConnecting == "hello"

\* markNativePortDisconnected leaves the worker free to connect again.
Reconnects == "idle"

Disconnected ==
    /\ worker' = Reconnects /\ port' = 0 /\ entry' = ClearedTransfers
    /\ UNCHANGED <<used, digest>>

\* connectNative, by whatever asks for it.
Connects ==
    /\ worker = "idle" /\ worker' = "opening"
    /\ UNCHANGED <<port, used, upsets, piped, hostVars, transferVars, commandVars>>
Opens ==
    /\ worker = "opening" /\ used < MaxPorts /\ used' = used + 1 /\ port' = used'
    /\ worker' = "hello" /\ host' = [host EXCEPT ![used'] = "joining"]
    /\ piped' = piped \union {used'}
    /\ UNCHANGED <<upsets, down, relay, transferVars, commandVars>>
OpenFails ==
    /\ worker = "opening" /\ Upset("storage") /\ worker' = "idle"
    /\ UNCHANGED <<port, used, piped, hostVars, transferVars, commandVars>>

\* No acknowledgement for too long: none will come, or it comes late.
HelloTimesOut ==
    /\ worker = "hello" /\ port # 0
    /\ IF host[port] # "joining" /\ down[port] = <<>> THEN UNCHANGED upsets ELSE Upset("slow")
    /\ Disconnected /\ piped' = piped \ {port}
    /\ UNCHANGED <<hostVars, commandVars>>

\* port.onDisconnect, after what was still on its way.
HearsClose ==
    /\ port # 0 /\ host[port] = "closed" /\ down[port] = <<>>
    /\ Disconnected /\ piped' = piped \ {port}
    /\ UNCHANGED <<upsets, hostVars, commandVars>>

\* Chrome stops the worker; the watchdog's alarm starts another.
WorkerDies ==
    /\ worker # "asleep" /\ Upset("worker") /\ worker' = "asleep" /\ port' = 0 /\ piped' = {}
    /\ entry' = NoTransfers /\ digest' = [c \in Large |-> 0]
    /\ running' = [c \in Commands |-> 0]
    /\ UNCHANGED <<used, hostVars, sentBy, started, answers>>
Wakes ==
    /\ worker = "asleep" /\ worker' = "idle"
    /\ UNCHANGED <<port, used, upsets, piped, hostVars, transferVars, commandVars>>

----------------------------------------------------------------------------
(* The host and the broker                                                  *)

Tells(p, frames) == down' = [down EXCEPT ![p] = IF p \in piped THEN @ \o frames ELSE @]
Command(c) == [is |-> "command", of |-> c]
Piece(c, i) == [is |-> "piece", of |-> c, index |-> i]
Ack == [is |-> "ack"]
Trouble == [is |-> "error"]

\* connectPeer starts the broker if need be, and the waiting hello is sent: the broker takes
\* this relay and destroys the connection of the one before.  A host that has lost its port
\* by now goes on all the same, and only then keeps silent.
Joins(p) ==
    /\ host[p] = "joining"
    /\ host' = [q \in Ports |->
                  IF q = p THEN IF p \in piped THEN "relays" ELSE "mute"
                  ELSE IF q = relay THEN "cut" ELSE host[q]]
    /\ relay' = p /\ Tells(p, <<Ack>>)
    /\ UNCHANGED <<worker, port, used, upsets, piped, transferVars, commandVars>>

\* The broker refuses the hello, or the host cannot reach a broker at all.
IsRefused(p) ==
    /\ host[p] = "joining" /\ Upset("refused")
    /\ host' = [host EXCEPT ![p] = "stranded"] /\ Tells(p, <<Trouble>>)
    /\ UNCHANGED <<worker, port, used, piped, relay, transferVars, commandVars>>

\* shutdown: the broker's connection is gone, or the worker's end of the pipe.
Shuts(p) ==
    /\ \/ host[p] = "cut"
       \/ host[p] \in {"relays", "stranded"} /\ p \notin piped
    /\ host' = [host EXCEPT ![p] = "closed"] /\ relay' = IF relay = p THEN 0 ELSE relay
    /\ UNCHANGED <<worker, port, used, upsets, piped, down, transferVars, commandVars>>
HostDies(p) ==
    /\ host[p] \notin {"none", "closed"} /\ Upset("host")
    /\ host' = [host EXCEPT ![p] = "closed"] /\ relay' = IF relay = p THEN 0 ELSE relay
    /\ UNCHANGED <<worker, port, used, piped, down, transferVars, commandVars>>
BrokerDies ==
    /\ Upset("broker") /\ relay' = 0
    /\ host' = [p \in Ports |-> IF host[p] \in {"relays", "mute"} THEN "cut" ELSE host[p]]
    /\ UNCHANGED <<worker, port, used, piped, down, transferVars, commandVars>>

\* The broker sends a command; encodeNativeCommand writes its frames.
Sends(c) ==
    /\ relay # 0 /\ sentBy[c] = 0 /\ sentBy' = [sentBy EXCEPT ![c] = relay]
    /\ IF host[relay] = "mute" THEN UNCHANGED down
       ELSE Tells(relay, IF c \in Small THEN <<Command(c)>> ELSE <<Piece(c, 0), Piece(c, 1)>>)
    /\ UNCHANGED <<worker, port, used, upsets, piped, host, relay, transferVars, running,
                   started, answers>>

----------------------------------------------------------------------------
(* handleNativeMessage                                                      *)

\* An answer goes by the given port if that is still the worker's.
Answer(c, by, effect) ==
    answers' = IF by # 0 /\ by = port THEN answers \union {[of |-> c, by |-> by, effect |-> effect]}
               ELSE answers
Runs(c, by) == running' = [running EXCEPT ![c] = by] /\ started' = started \union {c}

\* The next frame of the worker's port; frames of other ports are not listened to.
Frame(is) == port # 0 /\ down[port] # <<>> /\ Head(down[port]).is = is
Takes == down' = [down EXCEPT ![port] = Tail(@)]

HearsAck ==
    /\ Frame("ack") /\ Takes /\ worker' = "connected"
    /\ UNCHANGED <<port, used, upsets, piped, host, relay, transferVars, commandVars>>

\* The contracts differ: the port is forgotten, but not closed.
Mismatches ==
    /\ Frame("ack") /\ Takes /\ Upset("mismatch") /\ Disconnected
    /\ UNCHANGED <<piped, host, relay, commandVars>>

\* relay.error or peer.error: the port is given up, unless the code is of another kind.
HearsTrouble ==
    /\ Frame("error") /\ Takes
    /\ \/ Disconnected /\ piped' = piped \ {port}
       \/ UNCHANGED <<worker, port, used, transferVars, piped>>
    /\ UNCHANGED <<upsets, host, relay, commandVars>>

HearsCommand ==
    /\ Frame("command") /\ Takes /\ Runs(Head(down[port]).of, port)
    /\ UNCHANGED <<worker, port, used, upsets, piped, host, relay, transferVars, sentBy, answers>>

\* accept, up to the digest: a fragment out of order or without a slot is an error.
Occupied == {c \in Large : entry[c] # "none"}
Accepts(c, index) ==
    IF index = 0 THEN entry[c] = "none" /\ Cardinality(Occupied) < Slots ELSE entry[c] = "first"
HearsPiece ==
    /\ Frame("piece") /\ Takes
    /\ LET c == Head(down[port]).of
           index == Head(down[port]).index IN
       IF Accepts(c, index)
       THEN /\ entry' = [entry EXCEPT ![c] = IF index = 0 THEN "first" ELSE "whole"]
            /\ digest' = [digest EXCEPT ![c] = IF index = 0 THEN 0 ELSE port]
            /\ UNCHANGED answers
       ELSE /\ entry' = [entry EXCEPT ![c] = "none"] /\ UNCHANGED digest
            /\ Answer(c, port, "none")
    /\ UNCHANGED <<worker, port, used, upsets, piped, host, relay, sentBy, running, started>>

\* The transfer's time is up; the answer goes by whatever port the worker has.
Expires(c) ==
    /\ entry[c] # "none" /\ entry' = [entry EXCEPT ![c] = "none"] /\ Answer(c, port, "none")
    /\ UNCHANGED <<worker, port, used, upsets, piped, hostVars, digest, sentBy, running, started>>

\* Mutant: a transfer that was given up during the digest comes back to life.
Revived(c) == TRUE

\* Only a transfer that is still there is a command.
StillThere(c) == entry[c] = "whole"

\* The digest is there.  The command runs on the port that its last piece came by.
Digested(c) ==
    /\ digest[c] # 0 /\ digest' = [digest EXCEPT ![c] = 0]
    /\ entry' = [entry EXCEPT ![c] = "none"]
    /\ IF StillThere(c)
       THEN /\ IF digest[c] = port THEN Runs(c, port) ELSE UNCHANGED <<running, started>>
            /\ UNCHANGED answers
       ELSE Answer(c, digest[c], "none") /\ UNCHANGED <<running, started>>
    /\ UNCHANGED <<worker, port, used, upsets, piped, hostVars, sentBy>>

\* replyPort
ReplyPort(c) == running[c]

\* A command ends, well or not.
Finishes(c) ==
    /\ running[c] # 0 /\ running' = [running EXCEPT ![c] = 0] /\ Answer(c, ReplyPort(c), "done")
    /\ UNCHANGED <<worker, port, used, upsets, piped, hostVars, transferVars, sentBy, started>>

----------------------------------------------------------------------------
Line ==
    \/ Connects \/ Opens \/ OpenFails \/ HelloTimesOut \/ HearsClose \/ WorkerDies \/ Wakes
    \/ HearsAck \/ Mismatches \/ HearsTrouble
    \/ BrokerDies \/ \E p \in Ports : Joins(p) \/ IsRefused(p) \/ Shuts(p) \/ HostDies(p)
Traffic ==
    \/ HearsCommand \/ HearsPiece
    \/ \E c \in Commands : Sends(c) \/ Finishes(c)
    \/ \E c \in Large : Expires(c) \/ Digested(c)
Next == Line \/ Traffic

\* Timers and alarms go off, processes that end are noticed, and what is on its way arrives.
Fairness ==
    /\ WF_vars(Connects) /\ WF_vars(Opens) /\ WF_vars(HelloTimesOut) /\ WF_vars(HearsClose)
    /\ WF_vars(Wakes) /\ WF_vars(HearsAck) /\ WF_vars(HearsTrouble)
    /\ WF_vars(HearsCommand) /\ WF_vars(HearsPiece)
    /\ \A p \in Ports : WF_vars(Joins(p)) /\ WF_vars(Shuts(p))
Spec == Init /\ [][Next]_vars
FairSpec == Spec /\ Fairness

----------------------------------------------------------------------------

\* A command that was reported to have had no effect was not executed and never will be.
NoEffectIsTrue == \A a \in answers : a.effect = "none" => a.of \notin started

\* An answer goes back by the port that its command came by, never by a later one, where
\* the broker would take it for the answer of another generation.
AnswersStayHome == \A a \in answers : a.by = sentBy[a.of]

\* What the broker hears of a command is right about the command and the generation.
AnswersAreSound == NoEffectIsTrue /\ AnswersStayHome

\* Whatever went wrong, in the end the worker is connected, and by the port whose host the
\* broker takes for the profile's.
PortComesBack == <>[](worker = "connected" /\ relay = port)
=============================================================================
