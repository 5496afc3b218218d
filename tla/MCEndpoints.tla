---------------------------- MODULE MCEndpoints ----------------------------
(***************************************************************************)
(* The two ends that the broker connects: the client in the MCP process,   *)
(* and the Extension with its native host, of which the native port, the   *)
(* clipboard's document and the recordings are modelled here.              *)
(* They share nothing but the broker, so a behaviour takes one of them and *)
(* leaves the variables of the others alone.                               *)
(***************************************************************************)
EXTENDS MCMcpServer, Sequences

CONSTANTS
    None,
    Small, Large, Slots, MaxPorts, Upsets, MaxUpsets,              \* NativePort
    Deliveries, Operations, Of, Capacity, MaxDocs, MaxFailures,    \* ClipboardSource
    MaxIntrusions,                                                 \* Recording
    v1, v2, v3, o1, o2                                             \* deliveries, operations

ASSUME PortAssumption == MaxPorts \in Nat /\ Small \intersect Large = {}
ASSUME ClipboardAssumption == Of \in [Deliveries -> Operations] /\ MaxDocs \in Nat
ASSUME RecordingAssumption == "p" \notin Calls /\ None \notin Calls

VARIABLES
    worker, port, used, upsets, host, piped, down, relay, sentBy, entry, digest, running,
    started, answers,
    doc, docs, lane, step, asked, receipts, wrote, answer, failures,
    shared, stage, recording, closing, state, saved, keeper, isolating, alone, spawning, control,
    recorder, ended, result, dirty, intrusions,
    end    \* which end a behaviour takes: "client", "port", "clipboard", "recording"

\* Two deliveries of one operation, and one of another.
TwoOfThree == v1 :> o1 @@ v2 :> o1 @@ v3 :> o2

Port == INSTANCE NativePort
Clipboard == INSTANCE ClipboardSource WITH
    used <- docs, upsets <- failures, MaxUpsets <- MaxFailures
Record == INSTANCE Recording WITH
    pc <- stage, active <- recording, worker <- keeper, upsets <- intrusions,
    MaxUpsets <- MaxIntrusions

client == <<peer, connected, closed, dialing, socket, call, fate, bound, leaseOf, opened, tool,
            reply, owner, held, made>>
nativePort == <<worker, port, used, upsets, host, piped, down, relay, sentBy, entry, digest,
                running, started, answers>>
clipboard == <<doc, docs, lane, step, asked, receipts, wrote, answer, failures>>
recordings == <<shared, stage, recording, closing, state, saved, keeper, isolating, alone,
                spawning, control, recorder, ended, result, dirty, intrusions>>

\* A part that a behaviour does not take rests in one initial state.
MCInit ==
    /\ OpenedInit /\ Port!Init /\ Clipboard!Init /\ Record!Init
    /\ end \in {"client", "port", "clipboard", "recording"}
    /\ end = "recording" \/ ~shared
MCNext ==
    /\ UNCHANGED end
    /\ \/ end = "client" /\ Next /\ UNCHANGED <<nativePort, clipboard, recordings>>
       \/ end = "port" /\ Port!Next /\ UNCHANGED <<client, clipboard, recordings>>
       \/ end = "clipboard" /\ Clipboard!Next
          /\ UNCHANGED <<client, nativePort, recordings>>
       \/ end = "recording" /\ Record!Next
          /\ UNCHANGED <<client, nativePort, clipboard>>
MCSpec == MCInit /\ [][MCNext]_<<client, nativePort, clipboard, recordings, end>>

AnswersAreSound == Port!AnswersAreSound
ReceiptsAreTrue == Clipboard!ReceiptsAreTrue
UsableIsClean == Record!UsableIsClean
=============================================================================
