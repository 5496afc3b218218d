------------------------------ MODULE MCReload ------------------------------
(***************************************************************************)
(* The sessions of a profile (SessionLease), or the reload of its Extension*)
(* (ExtensionReload).  A behaviour takes one of the two; the other rests in*)
(* one of its initial states.  SessionLease knows of the reload only that  *)
(* one may be in flight when the Extension is lost.                        *)
(***************************************************************************)
EXTENDS MCSessionLease

CONSTANTS Calls, None, MaxUpsets

VARIABLES
    registered, binding, generations, serving, busy, reservation, reload, entry, caller, wire, back,
    worker, runtimes, upsets,
    takes    \* "sessions" or "reload"

ASSUME ReloadAssumption ==
    /\ None \notin Calls \union {"reflected"}
    /\ None \notin [of : Calls \union {None}, gen : Nat]

Reload == INSTANCE ExtensionReload WITH
    profile <- registered, gens <- generations, op <- reload, call <- caller

reloadVars == <<registered, binding, generations, serving, busy, reservation, reload, entry,
                caller, wire, back, worker, runtimes, upsets>>

\* No client is up and no relay has registered.
SessionsRest ==
    /\ reg = EmptyRegistry /\ minted = {} /\ granted = {} /\ claims = {} /\ gens = 0
    /\ client = [c \in Clients |-> "gone"] /\ relay = [r \in Relays |-> "gone"]
    /\ profile = [connected |-> FALSE, peer |-> NoRelay, gen |-> 0]
    /\ hello = [r \in Relays |-> NoHello] /\ op = [o \in Ops |-> FreeOp]
    /\ cleanup = [sk \in SessionIds \X Kinds |-> NoCleanup]
    /\ tabTask = [t \in Tabs |-> NoTask]

MCReloadInit ==
    /\ Reload!Init
    /\ \/ takes = "sessions" /\ MCInit
       \/ takes = "reload" /\ SessionsRest
MCReloadNext ==
    \/ takes = "sessions" /\ Next /\ UNCHANGED <<reloadVars, takes>>
    \/ takes = "reload" /\ Reload!Next /\ UNCHANGED <<vars, takes>>
MCReloadSpec == MCReloadInit /\ [][MCReloadNext]_<<vars, reloadVars, takes>>

OneReloadPerGeneration == Reload!OneReloadPerGeneration
ReflectedIsFresh == Reload!ReflectedIsFresh
=============================================================================
