----------------------------- MODULE MCEndings -----------------------------
(***************************************************************************)
(* What must come about: sessions whose owners left are ended, and a worker*)
(* that lost its native port is connected again.  A behaviour takes one of *)
(* the two; the other rests where nothing of it is due, so that its        *)
(* fairness asks for nothing.                                              *)
(***************************************************************************)
EXTENDS MCSessionLease, Sequences

CONSTANTS Small, Large, Slots, MaxPorts, Upsets, MaxUpsets

VARIABLES
    worker, port, used, upsets, host, piped, down, broker, sentBy, entry, digest, running,
    started, answers,
    takes    \* "sessions" or "port"

Port == INSTANCE NativePort WITH relay <- broker

portVars == <<worker, port, used, upsets, host, piped, down, broker, sentBy, entry, digest,
              running, started, answers>>

\* No session is open and nobody is left to open one.
SessionsRest ==
    /\ reg = EmptyRegistry /\ minted = {} /\ granted = {}
    /\ client = [c \in Clients |-> "gone"] /\ relay = [r \in Relays |-> "gone"]
    /\ claims = {} /\ gens = 0
    /\ profile = [connected |-> FALSE, peer |-> NoRelay, gen |-> 0]
    /\ hello = [r \in Relays |-> NoHello] /\ op = [o \in Ops |-> FreeOp]
    /\ cleanup = [sk \in SessionIds \X Kinds |-> NoCleanup]
    /\ tabTask = [t \in Tabs |-> NoTask]

\* The worker is connected and no command is under way.
PortRests ==
    /\ worker = "connected" /\ port = 1 /\ used = 1 /\ upsets = 0
    /\ host = [p \in Port!Ports |-> IF p = 1 THEN "relays" ELSE "none"] /\ piped = {1}
    /\ down = [p \in Port!Ports |-> <<>>] /\ broker = 1
    /\ sentBy = [c \in Small \union Large |-> 0]
    /\ entry = [c \in Large |-> "none"] /\ digest = [c \in Large |-> 0]
    /\ running = [c \in Small \union Large |-> 0] /\ started = {} /\ answers = {}

MCEndingsInit ==
    \/ takes = "sessions" /\ OpenedInit /\ PortRests
    \/ takes = "port" /\ SessionsRest /\ Port!Init
MCEndingsNext ==
    \/ takes = "sessions" /\ Next /\ UNCHANGED <<portVars, takes>>
    \/ takes = "port" /\ Port!Next /\ UNCHANGED <<vars, takes>>
MCEndingsSpec ==
    /\ MCEndingsInit /\ [][MCEndingsNext]_<<vars, portVars, takes>>
    /\ Fairness /\ Port!Fairness

PortComesBack == Port!PortComesBack
=============================================================================
