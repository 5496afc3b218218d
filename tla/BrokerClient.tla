---------------------------- MODULE BrokerClient ----------------------------
(***************************************************************************)
(* The broker's client inside an MCP process: one connection at a time,    *)
(* requests matched to replies by id, a deadline per request, cancellation *)
(* on the connection that carried the request, and one reconnection for a  *)
(* read (src/src/client/broker-client.mjs, src/src/client/connect.mjs).    *)
(*                                                                         *)
(* Of time the model keeps what the code tells apart: whether a call that  *)
(* waits has passed its deadline, and, when a timer fires, whether it was  *)
(* the deadline or the half of it that a read's first attempt is given.    *)
(***************************************************************************)
EXTENDS Naturals, FiniteSets

CONSTANTS
    Calls,      \* calls under way at one time
    MaxConns    \* bound: connections that can be opened; a later dial fails

ASSUME ClientAssumption == MaxConns \in Nat \ {0}

VARIABLES
    peer,        \* this.peer; 0 when detached
    connected,   \* this.connected
    closed,      \* this.closed
    dialing,     \* this.reconnectPromise: the connection it opens, or 0
    socket,      \* each connection as the client sees it
    call,        \* each call of request()
    fate         \* what became of a call's request on a connection

clientVars == <<peer, connected, closed, dialing, socket, call, fate>>

Conns == 1 .. MaxConns

\* "read" is RECONNECTABLE_READ_METHODS; "release" are the methods that ignore the
\* caller's abort signal; "other" is every other method.
Methods == {"read", "open", "release", "other"}

Outcomes == {"none", "answer", "refused", "lost", "timeout", "cancelled", "unavailable"}

Call == [pc : {"idle", "reconnect", "sent", "ended"}, method : Methods,
         probing : BOOLEAN, try : 1 .. 2, on : 0 .. MaxConns,
         over : BOOLEAN, aborted : BOOLEAN, outcome : Outcomes,
         writes : 0 .. 2]   \* how often the call's own request was written

NoCall == [pc |-> "idle", method |-> "read", probing |-> FALSE, try |-> 1, on |-> 0,
           over |-> FALSE, aborted |-> FALSE, outcome |-> "none", writes |-> 0]

ClientTypeOK ==
    /\ peer \in 0 .. MaxConns
    /\ connected \in BOOLEAN
    /\ closed \in BOOLEAN
    /\ dialing \in 0 .. MaxConns + 1
    /\ socket \in [Conns -> {"unused", "dialing", "ready", "lost", "ended"}]
    /\ call \in [Calls -> Call]
    /\ fate \in [Calls \X Conns -> {"none", "transit", "done", "void"}]

ClientInit ==
    /\ peer = 1
    /\ connected = TRUE
    /\ closed = FALSE
    /\ dialing = 0
    /\ socket = [n \in Conns |-> IF n = 1 THEN "ready" ELSE "unused"]
    /\ call = [c \in Calls |-> NoCall]
    /\ fate = [m \in Calls \X Conns |-> "none"]

-----------------------------------------------------------------------------
(* What a call does next, as a function of the call.                       *)

Open(c) == call[c].pc \notin {"idle", "ended"}

\* A status probe made for a disconnected session.open is a read of its own.
Reading(k) == k.method = "read" \/ k.probing

\* Mutant: a call that ends stays on the table of pending requests.
EndedUnclosed(k, outcome) == [k EXCEPT !.pc = "pending", !.outcome = outcome]

Ended(k, outcome) == [k EXCEPT !.pc = "ended", !.outcome = outcome]

\* #requestOnce on connection n: an aborted or late request is never written.
Once(k, n) ==
    IF k.aborted THEN Ended(k, "cancelled")
    ELSE IF k.over THEN Ended(k, "timeout")
    ELSE [k EXCEPT !.pc = "sent", !.on = n, !.writes = IF k.probing THEN @ ELSE @ + 1]

\* Mutant: every method is retried, not only a read.
MayRetryAnything(k, outcome) ==
    k.try = 1 /\ outcome \in {"lost", "timeout"} /\ ~k.over /\ ~k.aborted

\* The catch of request(): a read's first attempt reconnects, once.
MayRetry(k, outcome) ==
    Reading(k) /\ k.try = 1 /\ outcome \in {"lost", "timeout"}
      /\ ~k.over /\ ~k.aborted

Failed(k, outcome) ==
    IF MayRetry(k, outcome) THEN [k EXCEPT !.pc = "reconnect", !.try = 2]
    ELSE Ended(k, outcome)

-----------------------------------------------------------------------------
(* #reconnect and the calls that await it.                                 *)

Waiting(calls) == {c \in Calls : calls[c].pc = "reconnect"}

NextConn == Cardinality({n \in Conns : socket[n] # "unused"}) + 1

\* Calls become `calls`; if one of them awaits a reconnection and none is under way,
\* #detachPeer drops the connection, without rejecting what is pending on it, and
\* connectPeer starts. A closed client refuses instead.
Continue(calls, live) ==
    IF Waiting(calls) = {} \/ dialing # 0
    THEN /\ call' = calls
         /\ socket' = live
         /\ UNCHANGED <<peer, connected, dialing>>
    ELSE IF closed
    THEN /\ call' = [c \in Calls |-> IF c \in Waiting(calls)
                                     THEN Ended(calls[c], "unavailable") ELSE calls[c]]
         /\ socket' = live
         /\ UNCHANGED <<peer, connected, dialing>>
    ELSE /\ call' = calls
         /\ dialing' = NextConn
         /\ peer' = 0
         /\ connected' = FALSE
         /\ socket' = [n \in Conns |->
              IF n = NextConn THEN "dialing"
              ELSE IF n = peer /\ live[n] = "ready" THEN "ended" ELSE live[n]]

\* The dial failed: no broker could be started, the socket reported an error, or the
\* peer was not acknowledged in time. Every call that awaits it fails.
DialFailed ==
    /\ dialing # 0
    /\ dialing \in Conns => socket[dialing] = "dialing"
    /\ dialing' = 0
    /\ socket' = [n \in Conns |-> IF n = dialing THEN "ended" ELSE socket[n]]
    /\ call' = [c \in Calls |-> IF call[c].pc = "reconnect"
                                THEN Ended(call[c], "unavailable") ELSE call[c]]
    /\ UNCHANGED <<peer, connected, closed, fate>>

\* The broker closed the socket before peer.ready without a socket error: the close
\* listener clears the authentication timer and nothing settles `ready`.
DialDropped ==
    /\ dialing \in Conns
    /\ socket[dialing] = "dialing"
    /\ socket' = [socket EXCEPT ![dialing] = "lost"]
    /\ UNCHANGED <<peer, connected, closed, dialing, call, fate>>

\* Mutant: a connection is attached without asking whether the client was closed.
AttachableAlways == TRUE

\* #reconnect asks again whether the client was closed while it dialled.
Attachable == ~closed

\* peer.ready: the client attaches the connection and every waiting call goes on, or,
\* closed in the meantime, it closes the connection.
DialReady ==
    /\ dialing \in Conns
    /\ socket[dialing] = "dialing"
    /\ dialing' = 0
    /\ IF ~Attachable
       THEN /\ socket' = [socket EXCEPT ![dialing] = "ended"]
            /\ call' = [c \in Calls |-> IF call[c].pc = "reconnect"
                                        THEN Ended(call[c], "unavailable") ELSE call[c]]
            /\ UNCHANGED <<peer, connected, fate>>
       ELSE /\ socket' = [socket EXCEPT ![dialing] = "ready"]
            /\ peer' = dialing
            /\ connected' = TRUE
            /\ call' = [c \in Calls |-> IF call[c].pc = "reconnect"
                                        THEN Once(call[c], dialing) ELSE call[c]]
            /\ fate' = [m \in Calls \X Conns |->
                 IF m[2] = dialing /\ call[m[1]].pc = "reconnect"
                    /\ call'[m[1]].pc = "sent"
                 THEN "transit" ELSE fate[m]]
    /\ UNCHANGED closed

-----------------------------------------------------------------------------
(* request(): the first attempt, and what ends an attempt.                 *)

\* Only a read reconnects by itself; session.open first reads the status; anything
\* else is refused while the client is disconnected.
Request(c, method) ==
    LET k == [NoCall EXCEPT !.method = method, !.probing = (method = "open" /\ ~connected)]
        next == IF connected THEN Once(k, peer)
                ELSE IF Reading(k) THEN [k EXCEPT !.pc = "reconnect"]
                ELSE Ended(k, "refused")
    IN /\ ~Open(c)
       /\ Continue([call EXCEPT ![c] = next], socket)
       /\ fate' = [m \in Calls \X Conns |->
            IF m[1] # c THEN fate[m]
            ELSE IF next.pc = "sent" /\ m[2] = peer THEN "transit" ELSE "none"]
       /\ UNCHANGED closed

\* The broker reads the request and carries it out, also when the client no longer
\* waits for it or has just lost the connection.
Execute(c, n) ==
    /\ fate[<<c, n>>] = "transit"
    /\ fate' = [fate EXCEPT ![<<c, n>>] = "done"]
    /\ UNCHANGED <<peer, connected, closed, dialing, socket, call>>

\* The reply reaches #handleMessage on the attached connection. A status probe is
\* followed by the session.open it was made for, if it names one connected profile;
\* a probe that is still on its way on another connection changes nothing.
Answer(c) ==
    /\ call[c].pc = "sent"
    /\ call[c].on = peer
    /\ socket[peer] = "ready"
    /\ fate[<<c, peer>>] = "done"
    /\ IF ~call[c].probing
       THEN /\ call' = [call EXCEPT ![c] = Ended(@, "answer")]
            /\ UNCHANGED fate
       ELSE \E profile \in {"one", "ambiguous"} :
            LET k == [call[c] EXCEPT !.probing = FALSE, !.try = 1]
                next == IF profile = "one" THEN Once(k, peer) ELSE Ended(k, "refused")
            IN /\ call' = [call EXCEPT ![c] = next]
               /\ fate' = [m \in Calls \X Conns |->
                    IF m[1] # c THEN fate[m]
                    ELSE IF next.pc = "sent" /\ m[2] = peer THEN "transit" ELSE "void"]
    /\ UNCHANGED <<peer, connected, closed, dialing, socket>>

\* The deadline passes for a call that awaits a reconnection: no timer watches it.
Later(c) ==
    /\ call[c].pc = "reconnect"
    /\ ~call[c].over
    /\ call' = [call EXCEPT ![c].over = TRUE]
    /\ UNCHANGED <<peer, connected, closed, dialing, socket, fate>>

\* request.cancel follows the request on its own connection; it may come too late.
Cancel(c) ==
    \E f \in {"void", fate[<<c, call[c].on>>]} :
      /\ f = "void" => fate[<<c, call[c].on>>] = "transit"
      /\ fate' = [fate EXCEPT ![<<c, call[c].on>>] = f]

\* The timer of #requestOnce: the deadline, or half of it for a read's first attempt.
Timeout(c) ==
    /\ call[c].pc = "sent"
    /\ \E over \in {~(Reading(call[c]) /\ call[c].try = 1), TRUE} :
         Continue([call EXCEPT ![c] = Failed([@ EXCEPT !.over = over], "timeout")], socket)
    /\ Cancel(c)
    /\ UNCHANGED closed

\* The MCP host aborts the tool call; a release is not given the signal.
Abort(c) ==
    /\ Open(c)
    /\ call[c].method # "release"
    /\ ~call[c].aborted
    /\ IF call[c].pc = "sent"
       THEN /\ Cancel(c)
            /\ call' = [call EXCEPT ![c] = Ended([@ EXCEPT !.aborted = TRUE], "cancelled")]
       ELSE call' = [call EXCEPT ![c].aborted = TRUE] /\ UNCHANGED fate
    /\ UNCHANGED <<peer, connected, closed, dialing, socket>>

\* A connection dies. If it is the attached one, #handleClose rejects everything that
\* is pending, on whichever connection it was sent.
ConnectionLost(n) ==
    /\ socket[n] = "ready"
    /\ IF n = peer /\ ~closed
       THEN LET calls == [c \in Calls |-> IF call[c].pc = "sent"
                                          THEN Failed(call[c], "lost") ELSE call[c]]
                live == [socket EXCEPT ![n] = "lost"]
            IN IF Waiting(calls) = {} \/ dialing # 0
               THEN /\ call' = calls
                    /\ socket' = live
                    /\ connected' = FALSE
                    /\ UNCHANGED <<peer, dialing>>
               ELSE Continue(calls, live)
       ELSE /\ socket' = [socket EXCEPT ![n] = "lost"]
            /\ UNCHANGED <<peer, connected, dialing, call>>
    /\ UNCHANGED <<closed, fate>>

\* close(): the process shuts down.
Close ==
    /\ ~closed
    /\ closed' = TRUE
    /\ connected' = FALSE
    /\ socket' = [n \in Conns |-> IF n = peer /\ socket[n] = "ready" THEN "ended"
                                  ELSE socket[n]]
    /\ call' = [c \in Calls |-> IF call[c].pc = "sent" THEN Ended(call[c], "unavailable")
                                ELSE call[c]]
    /\ UNCHANGED <<peer, dialing, fate>>

ClientStep ==
    \/ DialFailed
    \/ DialDropped
    \/ DialReady
    \/ \E c \in Calls : Answer(c) \/ Later(c) \/ Timeout(c) \/ Abort(c)
    \/ \E n \in Conns : ConnectionLost(n)
    \/ Close

ClientNext ==
    \/ ClientStep
    \/ \E c \in Calls, m \in Methods : Request(c, m)
    \/ \E c \in Calls, n \in Conns : Execute(c, n)

ClientSpec == ClientInit /\ [][ClientNext]_clientVars

-----------------------------------------------------------------------------

\* However the connection fails or is replaced, the request of anything but a read is
\* written once, and a read's at most twice; a call the client refuses for want of a
\* connection was never written (request(), #requestOnce).
WrittenOnce ==
    \A c \in Calls :
      /\ call[c].method # "read" => call[c].writes <= 1
      /\ call[c].outcome = "refused" => call[c].writes = 0

\* The client holds no connection but the one it is attached to: one that a reconnection
\* replaced, or that was opened while the client closed, is closed (#detachPeer,
\* #reconnect, close).
NoStrayConnection ==
    \A n \in Conns : socket[n] = "ready" => n = peer /\ ~closed

=============================================================================
