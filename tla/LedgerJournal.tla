--------------------------- MODULE LedgerJournal ---------------------------
(***************************************************************************)
(* The files of the operation ledger (src/src/shared/task-runtime.mjs,     *)
(* #persist, #checkpoint, #replayJournal, #load): a checkpoint replaced by *)
(* rename and a journal of delta frames appended behind it.  Jobs run one  *)
(* at a time under the ledger's mutex; each step here is one system call   *)
(* (or several that a crash cannot tell apart), so that a crash can come   *)
(* between any two.                                                        *)
(*                                                                         *)
(* The file system keeps what is visible to processes (checkpoint,         *)
(* journal) apart from what a loss of power may bring back instead: a      *)
(* renamed file until its directory is synced, appended or truncated bytes *)
(* until the file is synced, a new file's name until the directory is.     *)
(***************************************************************************)
EXTENDS Integers, Sequences, FiniteSets

CONSTANTS
    Keys,        \* record keys, over all five collections of the ledger
    Values,      \* contents of a record
    Absent,      \* no record under that key (null in a frame)
    MaxWrites,   \* frames after which #persist writes a checkpoint (128)
    MaxBytes,    \* journal size after which it does (4 MiB; a frame counts 1)
    Disturbances,\* what may go wrong: subset of {"kill", "power", "io"}
    MaxSequence  \* bound: journal sequence numbers

ASSUME JournalAssumption ==
    /\ Absent \notin Values
    /\ MaxWrites \in Nat \ {0} /\ MaxBytes \in Nat \ {0} /\ MaxSequence \in Nat
    /\ Disturbances \subseteq {"kill", "power", "io"}

Contents == [Keys -> Values \union {Absent}]
Empty == [k \in Keys |-> Absent]
\* The records one job sets (or deletes) together.
Batches == UNION {[S -> Values \union {Absent}] : S \in (SUBSET Keys) \ {{}}}

Overridden(m, batch) == [k \in Keys |-> IF k \in DOMAIN batch THEN batch[k] ELSE m[k]]

VARIABLES
    checkpoint,     \* statePath: whether it exists, its number and contents
    oldCheckpoints, \* checkpoints a loss of power may restore
    journal,        \* journalPath: complete frames, and a partial one or not
    oldJournals,    \* contents a loss of power may restore
    name,           \* the journal's directory entry: "none", "new", "durable"
    map,            \* the five LedgerMaps
    pending,        \* their pending keys
    sequence, bytes, writes, exists, \* journalSequence, journalBytes,
                                     \* journalWrites, checkpointExists
    stage           \* where #persist stands

diskVars == <<checkpoint, oldCheckpoints, journal, oldJournals, name>>
memVars == <<map, pending, sequence, bytes, writes, exists>>
vars == <<diskVars, memVars, stage>>

Persisting == {"persist", "renamed", "replaced", "truncated",
               "appending", "appended", "linking"}
Stages == {"idle", "poisoned", "down"} \union Persisting

-----------------------------------------------------------------------------
(* The journal                                                             *)

EmptyJournal == [frames |-> <<>>, torn |-> FALSE]
Frame == [seq : Nat, changes : Batches]
Journals == [frames : Seq(Frame), torn : BOOLEAN]
Size(j) == Len(j.frames) + (IF j.torn THEN 1 ELSE 0)

Checkpoints == [file : BOOLEAN, seq : Nat, map : Contents]
NoCheckpoint == [file |-> FALSE, seq |-> 0, map |-> Empty]

\* A frame that the checkpoint does not already contain.
Fresh(c, f) == f.seq > c.seq

\* #replayJournal finds neither frames without a checkpoint nor a gap.
Readable(c, j) ==
    /\ ~c.file => Size(j) = 0
    /\ \A i \in DOMAIN j.frames :
          Fresh(c, j.frames[i]) =>
             j.frames[i].seq = 1 + (IF i > 1 /\ Fresh(c, j.frames[i-1])
                                    THEN j.frames[i-1].seq ELSE c.seq)

\* The journalled changes of a record that count.
Changing(c, j, k) ==
    {i \in DOMAIN j.frames : Fresh(c, j.frames[i]) /\ k \in DOMAIN j.frames[i].changes}

\* What #replayJournal returns: of every record the last change.
Replayed(c, j) ==
    [k \in Keys |->
        LET is == Changing(c, j, k)
        IN  IF is = {} THEN c.map[k]
            ELSE j.frames[CHOOSE i \in is : \A h \in is : h <= i].changes[k]]

\* Mutant: a partial last frame is left in the file.
TrimmedNever(j) == j

\* A partial last frame is cut off.
Trimmed(j) == [j EXCEPT !.torn = FALSE]

\* The sequence number after the replay.
LastSequence(c, j) ==
    LET n == Len(j.frames)
    IN  IF n > 0 /\ Fresh(c, j.frames[n]) THEN j.frames[n].seq ELSE c.seq

\* What a loss of power may restore once a file changes; kept only where the
\* power may be lost.
WithOld(olds, now) == IF "power" \in Disturbances THEN olds \union {now} ELSE {}

-----------------------------------------------------------------------------
Init ==
    /\ checkpoint = NoCheckpoint /\ oldCheckpoints = {}
    /\ journal = EmptyJournal /\ oldJournals = {} /\ name = "none"
    /\ map = Empty /\ pending = {}
    /\ sequence = 0 /\ bytes = 0 /\ writes = 0 /\ exists = FALSE
    /\ stage = "idle"

\* A job, admitted only while persistenceError is unset, changes records and
\* calls #persist.
Change(batch) ==
    /\ stage = "idle"
    /\ sequence < MaxSequence
    /\ map' = Overridden(map, batch)
    /\ pending' = DOMAIN batch
    /\ stage' = "persist"
    /\ UNCHANGED <<diskVars, sequence, bytes, writes, exists>>

NeedsCheckpoint == ~exists \/ writes >= MaxWrites \/ bytes >= MaxBytes

\* Trailing work of #persist: the job's promise is fulfilled.
Persisted ==
    /\ pending' = {} /\ stage' = "idle"
    /\ UNCHANGED map

\* Mutant: the checkpoint does not count the last frame.
SnapshotBehind == [file |-> TRUE, seq |-> sequence - 1, map |-> map]

\* The payload of a checkpoint: everything in memory, the pending changes too.
Snapshot == [file |-> TRUE, seq |-> sequence, map |-> map]

\* #checkpoint: the temporary file, complete and synced, becomes statePath.
Rename ==
    /\ stage = "persist" /\ NeedsCheckpoint
    /\ checkpoint' = Snapshot
    /\ oldCheckpoints' = WithOld(oldCheckpoints, checkpoint)
    /\ stage' = "renamed"
    /\ UNCHANGED <<journal, oldJournals, name, memVars>>

\* Mutant: the directory is not synced before the journal is cut.
NamesUnsynced == UNCHANGED <<oldCheckpoints, name>>

\* directory.sync(): what the directory says is what remains.
NamesSynced ==
    /\ oldCheckpoints' = {}
    /\ name' = IF name = "new" THEN "durable" ELSE name

ReplaceDurably ==
    /\ stage = "renamed"
    /\ NamesSynced
    /\ stage' = "replaced"
    /\ UNCHANGED <<checkpoint, journal, oldJournals, memVars>>

Truncate ==
    /\ stage = "replaced"
    /\ journal' = EmptyJournal
    /\ oldJournals' = WithOld(oldJournals, journal)
    /\ name' = IF name = "none" THEN "new" ELSE name
    /\ stage' = "truncated"
    /\ UNCHANGED <<checkpoint, oldCheckpoints, memVars>>

FinishCheckpoint ==
    /\ stage = "truncated"
    /\ oldJournals' = {}
    /\ exists' = TRUE /\ bytes' = 0 /\ writes' = 0
    /\ Persisted
    /\ UNCHANGED <<checkpoint, oldCheckpoints, journal, name, sequence>>

\* Mutant: deleted records are left out of the frame.
DeltaWithoutDeletions == [k \in {k \in pending : map[k] # Absent} |-> map[k]]

\* The changes #persist serializes.
Delta == [k \in pending |-> map[k]]

\* The journal is opened, found to have the expected size, and the frame's
\* first bytes are written.
BeginAppend ==
    /\ stage = "persist" /\ ~NeedsCheckpoint
    /\ Size(journal) = bytes
    /\ journal' = [journal EXCEPT !.torn = TRUE]
    /\ oldJournals' = WithOld(oldJournals, journal)
    /\ name' = IF name = "none" THEN "new" ELSE name
    /\ stage' = "appending"
    /\ UNCHANGED <<checkpoint, oldCheckpoints, memVars>>

\* Its newline is written.
EndAppend ==
    /\ stage = "appending"
    /\ journal' = [frames |-> Append(journal.frames, [seq |-> sequence + 1, changes |-> Delta]),
                   torn |-> FALSE]
    /\ oldJournals' = WithOld(oldJournals, journal)
    /\ stage' = "appended"
    /\ UNCHANGED <<checkpoint, oldCheckpoints, name, memVars>>

Journalled ==
    /\ sequence' = sequence + 1
    /\ bytes' = bytes + 1
    /\ writes' = writes + 1
    /\ Persisted
    /\ UNCHANGED exists

\* Mutant: a new journal's name is never made durable.
NameIsSafe == FALSE

\* if (this.journalBytes === 0): the journal may have just been created.
NameMayBeNew == bytes = 0

\* journal.sync().
SyncAppend ==
    /\ stage = "appended"
    /\ oldJournals' = {}
    /\ \/ NameMayBeNew /\ stage' = "linking" /\ UNCHANGED memVars
       \/ ~NameMayBeNew /\ Journalled
    /\ UNCHANGED <<checkpoint, oldCheckpoints, journal, name>>

LinkDurably ==
    /\ stage = "linking"
    /\ NamesSynced
    /\ Journalled
    /\ UNCHANGED <<checkpoint, journal, oldJournals>>

\* A system call of #persist fails: persistenceError refuses all later jobs.
\* The job's records stay changed in memory.
Fail ==
    /\ "io" \in Disturbances
    /\ stage \in Persisting
    /\ stage' = "poisoned"
    /\ UNCHANGED <<diskVars, memVars>>

-----------------------------------------------------------------------------
(* Crashes and the next process                                            *)

\* A new TaskOperationLedger knows nothing.
Forget ==
    /\ stage' = "down"
    /\ map' = Empty /\ pending' = {}
    /\ sequence' = 0 /\ bytes' = 0 /\ writes' = 0 /\ exists' = FALSE

\* Nothing a loss of power could take back.
Synced == oldCheckpoints = {} /\ oldJournals = {} /\ name # "new"

\* The process dies (SIGKILL, or an operator restarts a poisoned broker). Bound: where
\* the power may be lost too, it dies with its files synced; dying otherwise leaves the
\* files of a loss of power that takes nothing back, until a later one does.
Kill ==
    /\ "kill" \in Disturbances
    /\ "power" \in Disturbances => Synced
    /\ stage # "down"
    /\ Forget
    /\ UNCHANGED diskVars

\* The host loses power: each file falls back independently to any content
\* since it was last synced.
PowerLoss ==
    /\ "power" \in Disturbances
    /\ checkpoint' \in {checkpoint} \union oldCheckpoints
    /\ oldCheckpoints' = {}
    /\ \/ /\ journal' \in {journal} \union oldJournals
          /\ name' = IF name = "new" THEN "durable" ELSE name
       \/ name = "new" /\ journal' = EmptyJournal /\ name' = "none"
    /\ oldJournals' = {}
    /\ Forget

\* #load.  Which interrupted entries it converts is the business of
\* TaskLedger; here it is any batch, which #load then persists itself.
Load(batch) ==
    /\ stage = "down"
    /\ Readable(checkpoint, journal)
    /\ map' = Overridden(Replayed(checkpoint, journal), batch)
    /\ pending' = DOMAIN batch
    /\ sequence' = LastSequence(checkpoint, journal)
    /\ writes' = Cardinality({i \in DOMAIN journal.frames : Fresh(checkpoint, journal.frames[i])})
    /\ bytes' = Len(journal.frames)
    /\ exists' = checkpoint.file
    /\ journal' = Trimmed(journal)
    /\ oldJournals' = IF journal.torn THEN {} ELSE oldJournals
    /\ stage' = IF pending' = {} THEN "idle" ELSE "persist"
    /\ pending' # {} => sequence' < MaxSequence
    /\ UNCHANGED <<checkpoint, oldCheckpoints, name>>

Next ==
    \/ \E batch \in Batches : Change(batch)
    \/ Rename \/ ReplaceDurably \/ Truncate \/ FinishCheckpoint
    \/ BeginAppend \/ EndAppend \/ SyncAppend \/ LinkDurably
    \/ Fail \/ Kill \/ PowerLoss
    \/ \E batch \in Batches \union {<<>>} : Load(batch)

Spec == Init /\ [][Next]_vars

-----------------------------------------------------------------------------
(* Properties                                                              *)

\* The pairs of files a restart may find.
Restorable ==
    IF "power" \in Disturbances
    THEN {[checkpoint |-> c, journal |-> j] :
             c \in {checkpoint} \union oldCheckpoints,
             j \in {journal} \union oldJournals
                   \union (IF name = "new" THEN {EmptyJournal} ELSE {})}
    ELSE {[checkpoint |-> checkpoint, journal |-> journal]}

\* What #load would make of them.
Stored == {Replayed(r.checkpoint, r.journal) : r \in Restorable}

\* Every variable keeps its type: sequence numbers in files count from the
\* same zero as journalSequence.
TypeOK ==
    /\ checkpoint \in Checkpoints /\ oldCheckpoints \in SUBSET Checkpoints
    /\ journal \in Journals /\ oldJournals \in SUBSET Journals
    /\ name \in {"none", "new", "durable"}
    /\ map \in Contents /\ pending \in SUBSET Keys
    /\ sequence \in Nat /\ bytes \in Nat /\ writes \in Nat /\ exists \in BOOLEAN
    /\ stage \in Stages

\* No crash of #persist, between whichever system calls, leaves files that
\* #load rejects (ledger_checkpoint_missing, ledger_journal_sequence_gap): a
\* broker that was merely unlucky can always be started again.
AlwaysReadable == \A r \in Restorable : Readable(r.checkpoint, r.journal)

\* Every acknowledged change is in the files, and nothing else is: whatever
\* restart follows while #persist does nothing reads the ledger as it is.
IdleIsDurable == stage = "idle" => Stored = {map}

\* The size #persist compares the journal with (ledger_journal_writer_conflict)
\* is kept right through replays, torn frames and interrupted checkpoints: a
\* ledger with no rival is never refused as one.
NoConflictWithItself == stage = "persist" => Size(journal) = bytes

\* Behind the two files the ledger is one value, replaced atomically: the
\* files implement AtomicStore.
Store == INSTANCE AtomicStore WITH
    view <- map,
    stored <- Stored,
    mode <- IF stage \in {"idle", "down"} THEN stage ELSE "busy"

\* Each step of #persist, each crash and each #load is a step of that store.
ImplementsStore == Store!Spec

=============================================================================
