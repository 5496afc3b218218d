------------------------ MODULE LedgerJournal_proofs ------------------------
(***************************************************************************)
(* Proofs about LedgerJournal: its types, and that a process may die, or   *)
(* its host lose power, between any two system calls, or any of them fail, *)
(* without losing an acknowledged change.  RecoveryInv is about the files  *)
(* that processes see; HostInv adds those that a loss of power may bring   *)
(* back.  Then the proofs about SetupLock, which LedgerJournal's runs      *)
(* explore beside it: who holds the lock has its marker on disk.           *)
(***************************************************************************)
EXTENDS MCLedgerJournal, FiniteSetTheorems, WellFoundedInduction, TLAPS

-----------------------------------------------------------------------------
(* Types                                                                   *)

\* A frame in the making has something to say.
SomethingPending == stage \in {"persist", "appending"} => pending # {}

TypeInv == TypeOK /\ SomethingPending

LEMMA BatchType ==
    ASSUME NEW batch \in Batches
    PROVE  /\ DOMAIN batch \in SUBSET Keys /\ DOMAIN batch # {}
           /\ \A k \in DOMAIN batch : batch[k] \in Values \union {Absent}
BY DEF Batches

LEMMA OverriddenType ==
    ASSUME NEW m \in Contents, NEW batch \in Batches \union {<<>>}
    PROVE  Overridden(m, batch) \in Contents
<1>1. CASE batch \in Batches
      BY <1>1, BatchType DEF Overridden, Contents
<1>2. CASE batch = <<>>
      BY <1>2 DEF Overridden, Contents
<1> QED  BY <1>1, <1>2

LEMMA DeltaType ==
    ASSUME map \in Contents, pending \in SUBSET Keys, pending # {}
    PROVE  Delta \in Batches
BY DEF Delta, Batches, Contents

\* The chosen index of a record's last change exists: the distance to the end
\* of the journal has a least value.
LEMMA LastIndex ==
    ASSUME NEW n \in Nat, NEW is \in SUBSET (1..n), is # {}
    PROVE  LET last == CHOOSE i \in is : \A h \in is : h <= i
           IN  last \in is /\ \A h \in is : h <= last
<1> DEFINE distances == {n - i : i \in is}
<1>1. distances \subseteq Nat /\ distances # {}
  <2>1. \A i \in is : n - i \in Nat
        OBVIOUS
  <2>2. PICK i \in is : TRUE
        OBVIOUS
  <2>3. n - i \in distances
        BY <2>2
  <2> QED  BY <2>1, <2>3
<1>2. IsWellFoundedOn(OpToRel(<, Nat), Nat)
      BY NatLessThanWellFounded
<1>3. PICK d \in distances : \A e \in distances : <<e, d>> \notin OpToRel(<, Nat)
  <2> HIDE DEF distances
  <2> QED  BY <1>1, <1>2, WFMin
<1>4. \A e \in distances : ~(e < d)
      BY <1>1, <1>3 DEF OpToRel
<1>5. PICK i \in is : d = n - i
      BY <1>3
<1>6. \A h \in is : h <= i
  <2> TAKE h \in is
  <2>1. n - h \in distances
        OBVIOUS
  <2>2. ~(n - h < n - i)
    <3> HIDE DEF distances
    <3> QED  BY <2>1, <1>4, <1>5
  <2>3. h \in Int /\ i \in Int
        OBVIOUS
  <2> HIDE DEF distances
  <2> QED  BY <2>2, <2>3
<1> QED  BY <1>6

-----------------------------------------------------------------------------
(* Every step keeps the types                                              *)

LEMMA FrameType ==
    ASSUME NEW j \in Journals, NEW i \in DOMAIN j.frames
    PROVE  /\ j.frames[i] \in Frame
           /\ j.frames[i].seq \in Nat
           /\ j.frames[i].changes \in Batches
<1>1. j.frames \in Seq(Frame)
      BY DEF Journals
<1>2. j.frames[i] \in Frame
      BY <1>1
<1> QED  BY <1>2 DEF Frame

LEMMA FramesType ==
    ASSUME NEW j \in Journals
    PROVE  Len(j.frames) \in Nat /\ DOMAIN j.frames = 1..Len(j.frames)
<1>1. j.frames \in Seq(Frame)
      BY DEF Journals
<1> QED  BY <1>1

LEMMA SizeOf ==
    ASSUME NEW j \in Journals
    PROVE  /\ ~j.torn => Size(j) = Len(j.frames)
           /\ Size(j) = 0 => Len(j.frames) = 0
<1>1. Len(j.frames) \in Nat
      BY FramesType
<1>2. CASE j.torn
  <2>1. Size(j) = Len(j.frames) + 1
        BY <1>2 DEF Size
  <2> QED  BY <1>1, <1>2, <2>1
<1>3. CASE ~j.torn
  <2>1. Size(j) = Len(j.frames) + 0
        BY <1>3 DEF Size
  <2>2. Size(j) = Len(j.frames)
        BY <1>1, <2>1
  <2> QED  BY <2>2
<1> QED  BY <1>2, <1>3

LEMMA WithOldType ==
    ASSUME NEW S, NEW olds \in SUBSET S, NEW now \in S
    PROVE  WithOld(olds, now) \in SUBSET S
BY DEF WithOld

LEMMA ChangeTyped ==
    ASSUME TypeInv, NEW batch \in Batches, Change(batch)
    PROVE  TypeInv'
<1>1. map' \in Contents
      BY OverriddenType DEF Change, TypeInv, TypeOK
<1>2. pending' \in SUBSET Keys /\ pending' # {}
      BY BatchType DEF Change
<1> QED  BY <1>1, <1>2 DEF Change, TypeInv, TypeOK, SomethingPending, diskVars, Stages, Persisting

LEMMA CheckpointTyped ==
    ASSUME TypeInv, Rename \/ ReplaceDurably \/ Truncate \/ FinishCheckpoint
    PROVE  TypeInv'
<1> USE DEF TypeInv, TypeOK, SomethingPending, memVars, Stages, Persisting
<1>1. CASE Rename
  <2>1. Snapshot \in Checkpoints
        BY DEF Snapshot, Checkpoints
  <2>2. oldCheckpoints' \in SUBSET Checkpoints
        BY <1>1, WithOldType DEF Rename
  <2> QED  BY <1>1, <2>1, <2>2 DEF Rename
<1>2. CASE ReplaceDurably
      BY <1>2 DEF ReplaceDurably, NamesSynced
<1>3. CASE Truncate
  <2>1. EmptyJournal \in Journals
        BY DEF EmptyJournal, Journals
  <2>2. oldJournals' \in SUBSET Journals
        BY <1>3, WithOldType DEF Truncate
  <2> QED  BY <1>3, <2>1, <2>2 DEF Truncate
<1>4. CASE FinishCheckpoint
      BY <1>4 DEF FinishCheckpoint, Persisted
<1> QED  BY <1>1, <1>2, <1>3, <1>4

LEMMA AppendTyped ==
    ASSUME TypeInv, BeginAppend \/ EndAppend \/ SyncAppend \/ LinkDurably
    PROVE  TypeInv'
<1> USE DEF TypeInv, TypeOK, SomethingPending, Stages, Persisting
<1>1. CASE BeginAppend
  <2>1. journal' \in Journals
        BY <1>1 DEF BeginAppend, Journals
  <2>2. oldJournals' \in SUBSET Journals
        BY <1>1, WithOldType DEF BeginAppend
  <2> QED  BY <1>1, <2>1, <2>2 DEF BeginAppend, memVars
<1>2. CASE EndAppend
  <2>1. [seq |-> sequence + 1, changes |-> Delta] \in Frame
        BY <1>2, DeltaType DEF EndAppend, Frame
  <2>2. journal' \in Journals
        BY <1>2, <2>1 DEF EndAppend, Journals
  <2>3. oldJournals' \in SUBSET Journals
        BY <1>2, WithOldType DEF EndAppend
  <2> QED  BY <1>2, <2>2, <2>3 DEF EndAppend, memVars
<1>3. CASE SyncAppend
  <2>1. oldJournals' = {} /\ UNCHANGED <<checkpoint, oldCheckpoints, journal, name>>
        BY <1>3 DEF SyncAppend
  <2>2. CASE stage' = "linking" /\ UNCHANGED memVars
        BY <2>1, <2>2 DEF memVars
  <2>3. CASE Journalled
        BY <2>1, <2>3 DEF Journalled, Persisted
  <2> QED  BY <1>3, <2>2, <2>3 DEF SyncAppend
<1>4. CASE LinkDurably
      BY <1>4 DEF LinkDurably, NamesSynced, Journalled, Persisted
<1> QED  BY <1>1, <1>2, <1>3, <1>4

LEMMA EmptyTyped == Empty \in Contents /\ EmptyJournal \in Journals
BY DEF Empty, Contents, EmptyJournal, Journals

LEMMA CrashTyped ==
    ASSUME TypeInv, Fail \/ Kill \/ PowerLoss
    PROVE  TypeInv'
<1> USE EmptyTyped DEF TypeInv, TypeOK, SomethingPending, Stages, Persisting
<1>1. CASE Fail
      BY <1>1 DEF Fail, diskVars, memVars
<1>2. CASE Kill
      BY <1>2 DEF Kill, Forget, diskVars
<1>3. CASE PowerLoss
  <2>1. checkpoint' \in Checkpoints /\ oldCheckpoints' \in SUBSET Checkpoints
        BY <1>3 DEF PowerLoss
  <2>2. journal' \in Journals /\ oldJournals' \in SUBSET Journals
        BY <1>3 DEF PowerLoss
  <2>3. name' \in {"none", "new", "durable"}
        BY <1>3 DEF PowerLoss
  <2> QED  BY <1>3, <2>1, <2>2, <2>3 DEF PowerLoss, Forget
<1> QED  BY <1>1, <1>2, <1>3

\* What #replayJournal returns has the ledger's type.
LEMMA ReplayedType ==
    ASSUME NEW c \in Checkpoints, NEW j \in Journals
    PROVE  Replayed(c, j) \in Contents
<1> SUFFICES ASSUME NEW k \in Keys
             PROVE  Replayed(c, j)[k] \in Values \union {Absent}
    BY DEF Replayed, Contents
<1> DEFINE is == Changing(c, j, k)
           last == CHOOSE i \in is : \A h \in is : h <= i
<1>1. CASE is = {}
      BY <1>1 DEF Replayed, Checkpoints, Contents
<1>2. CASE is # {}
  <2>1. is \in SUBSET (1..Len(j.frames)) /\ Len(j.frames) \in Nat
        BY DEF Changing, Journals
  <2>2. last \in is
    <3> HIDE DEF is
    <3> QED  BY <1>2, <2>1, LastIndex
  <2>3. last \in DOMAIN j.frames /\ k \in DOMAIN j.frames[last].changes
    <3> HIDE DEF last
    <3> QED  BY <2>2 DEF Changing
  <2>4. j.frames[last].changes \in Batches
    <3> HIDE DEF last
    <3> QED  BY <2>3, FrameType
  <2>5. j.frames[last].changes[k] \in Values \union {Absent}
    <3> HIDE DEF last
    <3> QED  BY <2>3, <2>4, BatchType
  <2> QED  BY <1>2, <2>5 DEF Replayed
<1> QED  BY <1>1, <1>2

LEMMA LoadTyped ==
    ASSUME TypeInv, NEW batch \in Batches \union {<<>>}, Load(batch)
    PROVE  TypeInv'
<1> USE DEF TypeInv, TypeOK
<1>1. map' \in Contents
      BY OverriddenType, ReplayedType DEF Load
<1>2. pending' \in SUBSET Keys
      BY BatchType DEF Load
<1>3. sequence' \in Nat
  <2>1. CASE LastSequence(checkpoint, journal) = checkpoint.seq
        BY <2>1 DEF Load, Checkpoints
  <2>2. CASE LastSequence(checkpoint, journal) # checkpoint.seq
    <3>1. Len(journal.frames) \in DOMAIN journal.frames
          BY <2>2, FramesType DEF LastSequence
    <3> QED  BY <2>2, <3>1, FrameType DEF Load, LastSequence
  <2> QED  BY <2>1, <2>2
<1>4. bytes' \in Nat
      BY DEF Load, Journals
<1>5. writes' \in Nat
  <2> DEFINE fresh == {i \in DOMAIN journal.frames : Fresh(checkpoint, journal.frames[i])}
  <2>1. Len(journal.frames) \in Int /\ fresh \subseteq 1..Len(journal.frames)
        BY DEF Journals
  <2>2. IsFiniteSet(1..Len(journal.frames))
        BY <2>1, FS_Interval
  <2>3. IsFiniteSet(fresh)
    <3> HIDE DEF fresh
    <3> QED  BY <2>1, <2>2, FS_Subset
  <2>4. Cardinality(fresh) \in Nat
        BY <2>3, FS_CardinalityType
  <2> QED  BY <2>4 DEF Load
<1>6. journal' \in Journals
      BY DEF Load, Trimmed, Journals
<1>7. exists' \in BOOLEAN
      BY DEF Load, Checkpoints
<1>8. stage' \in Stages /\ SomethingPending'
      BY DEF Load, Stages, Persisting, SomethingPending
<1>9. oldJournals' \in SUBSET Journals
      BY DEF Load
<1> QED  BY <1>1, <1>2, <1>3, <1>4, <1>5, <1>6, <1>7, <1>8, <1>9 DEF Load

LEMMA InitTyped ==
    ASSUME Init
    PROVE  TypeInv
<1>1. NoCheckpoint \in Checkpoints
      BY EmptyTyped DEF NoCheckpoint, Checkpoints
<1>2. checkpoint \in Checkpoints /\ journal \in Journals /\ map \in Contents
      BY <1>1, EmptyTyped DEF Init
<1> QED  BY <1>2 DEF Init, TypeInv, TypeOK, SomethingPending, Stages

\* TypeOK holds in every reachable state, whatever is lost and in which order.
THEOREM TypeCorrect == Spec => []TypeOK
<1>1. Init => TypeInv
      BY InitTyped
<1>2. TypeInv /\ [Next]_vars => TypeInv'
  <2> SUFFICES ASSUME TypeInv, [Next]_vars
               PROVE  TypeInv'
      OBVIOUS
  <2>1. CASE UNCHANGED vars
        BY <2>1 DEF vars, diskVars, memVars, TypeInv, TypeOK, SomethingPending
  <2>2. CASE Next
        BY <2>2, ChangeTyped, CheckpointTyped, AppendTyped, CrashTyped, LoadTyped DEF Next
  <2> QED  BY <2>1, <2>2
<1>3. TypeInv => TypeOK
      BY DEF TypeInv
<1> QED  BY <1>1, <1>2, <1>3, PTL DEF Spec

-----------------------------------------------------------------------------
(* Recovery after the death of the process or a failing system call        *)

\* Frame numbers grow along the file, through covered frames too.
Ordered(j) ==
    \A h, i \in DOMAIN j.frames : h < i => j.frames[h].seq < j.frames[i].seq

\* The ledger's counters are those of its files.
Aligned ==
    /\ exists = checkpoint.file
    /\ bytes = Len(journal.frames)
    /\ sequence = LastSequence(checkpoint, journal)

\* What the files lack is the frame about to be written.
Unwritten == map = Overridden(Replayed(checkpoint, journal), Delta)

Superseded == \A i \in DOMAIN journal.frames : ~Fresh(checkpoint, journal.frames[i])

\* How memory and files differ at each step of #persist.
Progress ==
    /\ stage = "idle" =>
          Aligned /\ ~journal.torn /\ map = Replayed(checkpoint, journal)
    /\ stage = "persist" => Aligned /\ ~journal.torn /\ Unwritten
    /\ stage \in {"renamed", "replaced"} => checkpoint = Snapshot /\ Superseded
    /\ stage = "truncated" => checkpoint = Snapshot /\ journal = EmptyJournal
    /\ stage = "appending" => Aligned /\ exists /\ Unwritten
    /\ stage \in {"appended", "linking"} =>
          /\ exists = checkpoint.file /\ ~journal.torn
          /\ Len(journal.frames) = bytes + 1
          /\ LastSequence(checkpoint, journal) = sequence + 1
          /\ map = Replayed(checkpoint, journal)

RecoveryInv ==
    /\ TypeInv
    /\ Readable(checkpoint, journal)
    /\ Ordered(journal)
    /\ Progress

-----------------------------------------------------------------------------
(* What #replayJournal makes of a journal                                  *)

LEMMA LastIsLast ==
    ASSUME NEW c \in Checkpoints, NEW j \in Journals, Ordered(j)
    PROVE  /\ LastSequence(c, j) \in Nat
           /\ c.seq <= LastSequence(c, j)
           /\ \A i \in DOMAIN j.frames : j.frames[i].seq <= LastSequence(c, j)
<1> DEFINE n == Len(j.frames)
<1>1. c.seq \in Nat
      BY DEF Checkpoints
<1>2. CASE n = 0
      BY <1>1, <1>2, FramesType DEF LastSequence
<1>3. CASE n # 0
  <2>1. n \in DOMAIN j.frames /\ n > 0
        BY <1>3, FramesType
  <2>2. j.frames[n].seq \in Nat
        BY <2>1, FrameType
  <2>3. ASSUME NEW i \in DOMAIN j.frames
        PROVE  j.frames[i].seq <= j.frames[n].seq
    <3>1. j.frames[i].seq \in Nat
          BY FrameType
    <3>2. i = n \/ i < n
          BY FramesType
    <3>3. CASE i < n
          BY <3>1, <3>3, <2>1, <2>2 DEF Ordered
    <3> QED  BY <3>1, <3>2, <3>3
  <2>4. CASE Fresh(c, j.frames[n])
    <3>1. LastSequence(c, j) = j.frames[n].seq
          BY <2>1, <2>4 DEF LastSequence
    <3> QED  BY <3>1, <2>2, <2>3, <2>4, <1>1 DEF Fresh
  <2>5. CASE ~Fresh(c, j.frames[n])
    <3>1. LastSequence(c, j) = c.seq
          BY <2>5 DEF LastSequence
    <3>2. j.frames[n].seq <= c.seq
          BY <2>5, <2>2, <1>1 DEF Fresh
    <3>3. ASSUME NEW i \in DOMAIN j.frames
          PROVE  j.frames[i].seq <= c.seq
      <4>1. j.frames[i].seq \in Nat
            BY FrameType
      <4> QED  BY <4>1, <2>2, <2>3, <3>2, <1>1
    <3> QED  BY <3>1, <3>3, <1>1
  <2> QED  BY <2>4, <2>5
<1> QED  BY <1>2, <1>3

\* A journal that the checkpoint contains adds nothing.
LEMMA ReplayOfNothing ==
    ASSUME NEW c \in Checkpoints, NEW j \in Journals,
           \A i \in DOMAIN j.frames : ~Fresh(c, j.frames[i])
    PROVE  /\ Replayed(c, j) = c.map
           /\ LastSequence(c, j) = c.seq
           /\ c.file => Readable(c, j)
<1>1. \A k \in Keys : Changing(c, j, k) = {}
      BY DEF Changing
<1>2. c.map \in Contents
      BY DEF Checkpoints
<1>3. Replayed(c, j) = c.map
      BY <1>1, <1>2 DEF Replayed, Contents
<1>4. LastSequence(c, j) = c.seq
      BY FramesType DEF LastSequence
<1>5. c.file => Readable(c, j)
      BY DEF Readable
<1> QED  BY <1>3, <1>4, <1>5

\* Only the complete frames count.
LEMMA ReplayOfFrames ==
    ASSUME NEW c, NEW j, NEW l, l.frames = j.frames
    PROVE  /\ Replayed(c, l) = Replayed(c, j)
           /\ LastSequence(c, l) = LastSequence(c, j)
           /\ Ordered(l) = Ordered(j)
BY DEF Replayed, Changing, LastSequence, Ordered

LEMMA AppendedFrames ==
    ASSUME NEW j \in Journals, NEW f \in Frame, NEW l, l.frames = Append(j.frames, f)
    PROVE  /\ Len(l.frames) = Len(j.frames) + 1
           /\ DOMAIN l.frames = DOMAIN j.frames \union {Len(j.frames) + 1}
           /\ Len(j.frames) + 1 \notin DOMAIN j.frames
           /\ l.frames[Len(j.frames) + 1] = f
           /\ \A i \in DOMAIN j.frames : l.frames[i] = j.frames[i]
<1>1. j.frames \in Seq(Frame)
      BY DEF Journals
<1>2. DOMAIN j.frames = 1..Len(j.frames) /\ Len(j.frames) \in Nat
      BY <1>1
<1>3. DOMAIN l.frames = 1..(Len(j.frames) + 1)
      BY <1>1
<1> QED  BY <1>1, <1>2, <1>3

\* A frame with the next number is read as the latest change.
LEMMA ReplayOfAppend ==
    ASSUME NEW c \in Checkpoints, NEW j \in Journals, NEW f \in Frame,
           NEW l \in Journals, l.frames = Append(j.frames, f), Fresh(c, f)
    PROVE  Replayed(c, l) = Overridden(Replayed(c, j), f.changes)
<1> DEFINE n == Len(j.frames)
<1>1. n \in Nat /\ DOMAIN j.frames = 1..n
      BY FramesType
<1>2. SUFFICES ASSUME NEW k \in Keys
               PROVE  Replayed(c, l)[k] = IF k \in DOMAIN f.changes THEN f.changes[k]
                                          ELSE Replayed(c, j)[k]
  <2>1. Replayed(c, l) \in Contents
        BY ReplayedType
  <2>2. Replayed(c, l) = [k \in Keys |-> IF k \in DOMAIN f.changes THEN f.changes[k]
                                         ELSE Replayed(c, j)[k]]
        BY <1>2, <2>1 DEF Contents
  <2> QED  BY <2>2 DEF Overridden
<1>3. CASE k \in DOMAIN f.changes
  <2> DEFINE is == Changing(c, l, k)
             last == CHOOSE i \in is : \A h \in is : h <= i
  <2>1. n + 1 \in is
        BY <1>3, AppendedFrames DEF Changing
  <2>2. is \in SUBSET (1..(n + 1))
        BY <1>1, AppendedFrames DEF Changing
  <2>3. last \in is /\ \A h \in is : h <= last
    <3>1. n + 1 \in Nat
          BY <1>1
    <3> HIDE DEF is, n
    <3> QED  BY <2>1, <2>2, <3>1, LastIndex
  <2>4. last = n + 1
    <3> HIDE DEF is, last
    <3> QED  BY <2>1, <2>2, <2>3, <1>1
  <2>5. Replayed(c, l)[k] = l.frames[last].changes[k]
        BY <2>1 DEF Replayed
  <2>6. l.frames[n + 1] = f
        BY AppendedFrames
  <2>7. Replayed(c, l)[k] = f.changes[k]
    <3> HIDE DEF is, last
    <3> QED  BY <2>4, <2>5, <2>6
  <2> QED  BY <1>3, <2>7
<1>4. CASE k \notin DOMAIN f.changes
  <2> DEFINE is == Changing(c, j, k)
             last == CHOOSE i \in is : \A h \in is : h <= i
  <2>1. Changing(c, l, k) = is
        BY <1>4, AppendedFrames DEF Changing
  <2>2. CASE is = {}
        BY <1>4, <2>1, <2>2 DEF Replayed
  <2>3. CASE is # {}
    <3>1. is \in SUBSET (1..n)
          BY <1>1 DEF Changing
    <3>2. last \in is
      <4> HIDE DEF is
      <4> QED  BY <2>3, <3>1, <1>1, LastIndex
    <3>3. last \in DOMAIN j.frames
      <4> HIDE DEF last
      <4> QED  BY <3>2 DEF Changing
    <3>4. l.frames[last] = j.frames[last]
      <4> HIDE DEF last
      <4> QED  BY <3>3, AppendedFrames
    <3>5. Replayed(c, l)[k] = l.frames[last].changes[k]
          BY <2>1, <2>3 DEF Replayed
    <3>6. Replayed(c, j)[k] = j.frames[last].changes[k]
          BY <2>3 DEF Replayed
    <3> QED  BY <1>4, <3>4, <3>5, <3>6
  <2> QED  BY <2>2, <2>3
<1> QED  BY <1>3, <1>4

LEMMA ReadableAppend ==
    ASSUME NEW c \in Checkpoints, c.file,
           NEW j \in Journals, Readable(c, j), Ordered(j),
           NEW f \in Frame, f.seq = LastSequence(c, j) + 1,
           NEW l, l.frames = Append(j.frames, f)
    PROVE  /\ Readable(c, l)
           /\ Ordered(l)
           /\ Fresh(c, f)
           /\ LastSequence(c, l) = f.seq
<1> DEFINE n == Len(j.frames)
<1>1. n \in Nat /\ DOMAIN j.frames = 1..n /\ c.seq \in Nat
      BY FramesType DEF Checkpoints
<1>2. Fresh(c, f)
      BY <1>1, LastIsLast DEF Fresh
<1>3. Ordered(l)
  <2> SUFFICES ASSUME NEW h \in DOMAIN l.frames, NEW i \in DOMAIN l.frames, h < i
               PROVE  l.frames[h].seq < l.frames[i].seq
      BY DEF Ordered
  <2>1. h \in DOMAIN j.frames
        BY <1>1, AppendedFrames
  <2>2. l.frames[h] = j.frames[h] /\ j.frames[h].seq \in Nat
        BY <2>1, AppendedFrames, FrameType
  <2>3. CASE i \in DOMAIN j.frames
        BY <2>1, <2>3, AppendedFrames DEF Ordered
  <2>4. CASE i = n + 1
    <3>1. l.frames[i] = f
          BY <2>4, AppendedFrames
    <3>2. j.frames[h].seq <= LastSequence(c, j) /\ LastSequence(c, j) \in Nat
          BY <2>1, LastIsLast
    <3> QED  BY <2>2, <3>1, <3>2
  <2> QED  BY <2>3, <2>4, AppendedFrames
<1>4. LastSequence(c, l) = f.seq
      BY <1>1, <1>2, AppendedFrames DEF LastSequence
<1>5. Readable(c, l)
  <2> SUFFICES ASSUME NEW i \in DOMAIN l.frames, Fresh(c, l.frames[i])
               PROVE  l.frames[i].seq = 1 + (IF i > 1 /\ Fresh(c, l.frames[i-1])
                                             THEN l.frames[i-1].seq ELSE c.seq)
      BY DEF Readable
  <2>1. CASE i \in DOMAIN j.frames
    <3>1. l.frames[i] = j.frames[i]
          BY <2>1, AppendedFrames
    <3>2. i > 1 => i - 1 \in DOMAIN j.frames
          BY <1>1, <2>1
    <3>3. i > 1 => l.frames[i-1] = j.frames[i-1]
          BY <3>2, AppendedFrames
    <3> QED  BY <2>1, <3>1, <3>3 DEF Readable
  <2>2. CASE i = n + 1
    <3>1. l.frames[i] = f
          BY <2>2, AppendedFrames
    <3>2. n > 0 => l.frames[n] = j.frames[n]
          BY <1>1, AppendedFrames
    <3>3. i - 1 = n /\ (i > 1 <=> n > 0)
          BY <1>1, <2>2
    <3>4. (IF i > 1 /\ Fresh(c, l.frames[i-1]) THEN l.frames[i-1].seq ELSE c.seq)
             = LastSequence(c, j)
          BY <3>2, <3>3 DEF LastSequence
    <3>5. LastSequence(c, j) \in Nat
          BY LastIsLast
    <3> QED  BY <3>1, <3>4, <3>5
  <2> QED  BY <2>1, <2>2, AppendedFrames
<1> QED  BY <1>2, <1>3, <1>4, <1>5

-----------------------------------------------------------------------------
(* Every step keeps the recovery invariant                                 *)

LEMMA SnapshotType ==
    ASSUME TypeOK
    PROVE  Snapshot \in Checkpoints
BY DEF TypeOK, Snapshot, Checkpoints

LEMMA ChangeRecovers ==
    ASSUME RecoveryInv, NEW batch \in Batches, Change(batch)
    PROVE  RecoveryInv'
<1>1. TypeInv'
      BY ChangeTyped DEF RecoveryInv
<1>2. UNCHANGED diskVars /\ UNCHANGED <<sequence, bytes, exists>>
      BY DEF Change
<1>3. Readable(checkpoint, journal)' /\ Ordered(journal)'
      BY <1>2 DEF RecoveryInv, diskVars
<1>4. Unwritten'
  <2>1. map = Replayed(checkpoint, journal)
        BY DEF RecoveryInv, Progress, Change
  <2>2. map' = Overridden(map, batch) /\ pending' = DOMAIN batch
        BY DEF Change
  <2>3. DOMAIN batch \in SUBSET Keys
        BY BatchType
  <2>4. Delta' = [k \in DOMAIN batch |-> Overridden(map, batch)[k]]
        BY <2>2 DEF Delta
  <2>5. Overridden(map, Delta') = Overridden(map, batch)
        BY <2>3, <2>4 DEF Overridden
  <2>6. Replayed(checkpoint, journal)' = map
        BY <1>2, <2>1 DEF diskVars
  <2> QED  BY <2>2, <2>5, <2>6 DEF Unwritten
<1>5. Aligned' /\ ~journal'.torn
      BY <1>2 DEF RecoveryInv, Progress, Change, Aligned, diskVars
<1> QED  BY <1>1, <1>3, <1>4, <1>5 DEF RecoveryInv, Progress, Change

LEMMA RenameRecovers ==
    ASSUME RecoveryInv, Rename
    PROVE  RecoveryInv'
<1>1. TypeInv' /\ TypeOK
      BY CheckpointTyped DEF RecoveryInv, TypeInv
<1>2. checkpoint' = Snapshot /\ UNCHANGED <<journal, memVars>> /\ stage' = "renamed"
      BY DEF Rename
<1>3. journal \in Journals /\ checkpoint \in Checkpoints /\ Snapshot \in Checkpoints
      BY <1>1, SnapshotType DEF TypeOK
<1>4. Superseded'
  <2>1. sequence = LastSequence(checkpoint, journal)
        BY DEF RecoveryInv, Progress, Rename, Aligned
  <2>2. \A i \in DOMAIN journal.frames : journal.frames[i].seq <= sequence
        BY <1>3, <2>1, LastIsLast DEF RecoveryInv
  <2>3. \A i \in DOMAIN journal.frames : journal.frames[i].seq \in Nat
        BY <1>3, FrameType
  <2>4. sequence \in Nat
        BY <1>1 DEF TypeOK
  <2> QED  BY <1>2, <2>2, <2>3, <2>4 DEF Superseded, Fresh, Snapshot
<1>5. Readable(checkpoint, journal)'
  <2>1. Snapshot.file
        BY DEF Snapshot
  <2> QED  BY <1>2, <1>3, <1>4, <2>1, ReplayOfNothing DEF Superseded
<1>6. (checkpoint = Snapshot)'
      BY <1>2 DEF Snapshot, memVars
<1>7. Ordered(journal)'
      BY <1>2 DEF RecoveryInv
<1> QED  BY <1>1, <1>2, <1>4, <1>5, <1>6, <1>7 DEF RecoveryInv, Progress

LEMMA ReplaceRecovers ==
    ASSUME RecoveryInv, ReplaceDurably
    PROVE  RecoveryInv'
<1>1. TypeInv'
      BY CheckpointTyped DEF RecoveryInv
<1>2. UNCHANGED <<checkpoint, journal, memVars>>
      BY DEF ReplaceDurably
<1>3. (checkpoint = Snapshot /\ Superseded)'
      BY <1>2 DEF RecoveryInv, Progress, ReplaceDurably, Snapshot, Superseded, memVars
<1> QED  BY <1>1, <1>2, <1>3 DEF RecoveryInv, Progress, ReplaceDurably

LEMMA EmptyJournalReadable ==
    ASSUME NEW c \in Checkpoints
    PROVE  /\ Readable(c, EmptyJournal) /\ Ordered(EmptyJournal)
           /\ Replayed(c, EmptyJournal) = c.map
           /\ LastSequence(c, EmptyJournal) = c.seq
<1>1. DOMAIN EmptyJournal.frames = {} /\ Size(EmptyJournal) = 0
      BY DEF EmptyJournal, Size
<1>2. Readable(c, EmptyJournal) /\ Ordered(EmptyJournal)
      BY <1>1 DEF Readable, Ordered
<1> QED  BY <1>1, <1>2, EmptyTyped, ReplayOfNothing

LEMMA TruncateRecovers ==
    ASSUME RecoveryInv, Truncate
    PROVE  RecoveryInv'
<1>1. TypeInv' /\ checkpoint \in Checkpoints
      BY CheckpointTyped DEF RecoveryInv, TypeInv, TypeOK
<1>2. journal' = EmptyJournal /\ UNCHANGED <<checkpoint, memVars>> /\ stage' = "truncated"
      BY DEF Truncate
<1>3. (checkpoint = Snapshot)'
      BY <1>2 DEF RecoveryInv, Progress, Truncate, Snapshot, memVars
<1> QED  BY <1>1, <1>2, <1>3, EmptyJournalReadable DEF RecoveryInv, Progress

LEMMA FinishRecovers ==
    ASSUME RecoveryInv, FinishCheckpoint
    PROVE  RecoveryInv'
<1>1. TypeInv' /\ checkpoint \in Checkpoints
      BY CheckpointTyped DEF RecoveryInv, TypeInv, TypeOK
<1>2. /\ checkpoint = Snapshot /\ journal = EmptyJournal
      /\ UNCHANGED <<checkpoint, journal, map, sequence>>
      /\ exists' = TRUE /\ bytes' = 0 /\ stage' = "idle"
      BY DEF RecoveryInv, Progress, FinishCheckpoint, Persisted
<1>3. checkpoint.file = TRUE /\ checkpoint.seq = sequence /\ checkpoint.map = map
      BY <1>2 DEF Snapshot
<1>4. Len(EmptyJournal.frames) = 0 /\ ~EmptyJournal.torn
      BY DEF EmptyJournal
<1>5. Aligned' /\ (map = Replayed(checkpoint, journal))' /\ ~journal'.torn
      BY <1>1, <1>2, <1>3, <1>4, EmptyJournalReadable DEF Aligned
<1>6. Readable(checkpoint, journal)' /\ Ordered(journal)'
      BY <1>2 DEF RecoveryInv
<1> QED  BY <1>1, <1>2, <1>5, <1>6 DEF RecoveryInv, Progress

LEMMA BeginAppendRecovers ==
    ASSUME RecoveryInv, BeginAppend
    PROVE  RecoveryInv'
<1>1. TypeInv'
      BY AppendTyped DEF RecoveryInv
<1>2. /\ journal'.frames = journal.frames
      /\ UNCHANGED <<checkpoint, memVars>> /\ stage' = "appending"
      BY DEF BeginAppend, RecoveryInv, TypeInv, TypeOK, Journals
<1>3. Aligned /\ Unwritten /\ exists
      BY DEF RecoveryInv, Progress, BeginAppend, NeedsCheckpoint
<1>4. /\ Replayed(checkpoint', journal') = Replayed(checkpoint, journal)
      /\ LastSequence(checkpoint', journal') = LastSequence(checkpoint, journal)
      /\ Ordered(journal') = Ordered(journal)
      BY <1>2, ReplayOfFrames
<1>5. Aligned' /\ Unwritten' /\ exists'
      BY <1>2, <1>3, <1>4 DEF Aligned, Unwritten, Delta, memVars
<1>6. Readable(checkpoint, journal)'
      BY <1>2, <1>3 DEF RecoveryInv, Readable, Aligned
<1>7. Ordered(journal)'
      BY <1>4 DEF RecoveryInv
<1> QED  BY <1>1, <1>2, <1>5, <1>6, <1>7 DEF RecoveryInv, Progress

LEMMA EndAppendRecovers ==
    ASSUME RecoveryInv, EndAppend
    PROVE  RecoveryInv'
<1> DEFINE f == [seq |-> sequence + 1, changes |-> Delta]
<1>1. TypeInv' /\ TypeOK /\ TypeOK'
      BY AppendTyped DEF RecoveryInv, TypeInv
<1>2. /\ journal'.frames = Append(journal.frames, f) /\ ~journal'.torn
      /\ UNCHANGED <<checkpoint, memVars>> /\ stage' = "appended"
      BY DEF EndAppend
<1>3. Aligned /\ Unwritten /\ exists /\ checkpoint.file
      BY DEF RecoveryInv, Progress, EndAppend, Aligned
<1>4. f \in Frame /\ f.seq = LastSequence(checkpoint, journal) + 1
  <2>1. pending # {}
        BY DEF EndAppend, RecoveryInv, TypeInv, SomethingPending
  <2>2. Delta \in Batches
        BY <1>1, <2>1, DeltaType DEF TypeOK
  <2> QED  BY <1>1, <1>3, <2>2 DEF TypeOK, Frame, Aligned
<1>5. journal \in Journals /\ journal' \in Journals /\ checkpoint \in Checkpoints
      BY <1>1 DEF TypeOK
<1>6. Readable(checkpoint, journal) /\ Ordered(journal)
      BY DEF RecoveryInv
<1>7. /\ Readable(checkpoint, journal') /\ Ordered(journal')
      /\ Fresh(checkpoint, f) /\ LastSequence(checkpoint, journal') = f.seq
  <2> HIDE DEF f
  <2> QED  BY <1>2, <1>3, <1>4, <1>5, <1>6, ReadableAppend
<1>8. Replayed(checkpoint, journal') = Overridden(Replayed(checkpoint, journal), Delta)
  <2>1. f.changes = Delta
        OBVIOUS
  <2> HIDE DEF f
  <2> QED  BY <1>2, <1>4, <1>5, <1>7, <2>1, ReplayOfAppend
<1>9. Len(journal'.frames) = bytes + 1
  <2>1. bytes = Len(journal.frames)
        BY <1>3 DEF Aligned
  <2> HIDE DEF f
  <2> QED  BY <1>2, <1>4, <1>5, <2>1, AppendedFrames
<1>10. map = Replayed(checkpoint, journal')
      BY <1>3, <1>8 DEF Unwritten
<1>11. exists = checkpoint.file
      BY <1>3 DEF Aligned
<1> QED  BY <1>1, <1>2, <1>7, <1>9, <1>10, <1>11 DEF RecoveryInv, Progress, memVars

LEMMA JournalledRecovers ==
    ASSUME RecoveryInv, stage \in {"appended", "linking"},
           UNCHANGED <<checkpoint, journal>>, TypeInv', Journalled
    PROVE  RecoveryInv'
<1>1. Aligned' /\ ~journal'.torn
      BY DEF RecoveryInv, Progress, Journalled, Aligned
<1>2. (map = Replayed(checkpoint, journal))'
      BY DEF RecoveryInv, Progress, Journalled, Persisted
<1>3. Readable(checkpoint, journal)' /\ Ordered(journal)'
      BY DEF RecoveryInv
<1> QED  BY <1>1, <1>2, <1>3 DEF RecoveryInv, Progress, Journalled, Persisted

LEMMA SyncAppendRecovers ==
    ASSUME RecoveryInv, SyncAppend
    PROVE  RecoveryInv'
<1>1. TypeInv' /\ UNCHANGED <<checkpoint, journal>> /\ stage = "appended"
      BY AppendTyped DEF RecoveryInv, SyncAppend
<1>2. CASE stage' = "linking" /\ UNCHANGED memVars
      BY <1>1, <1>2 DEF RecoveryInv, Progress, memVars
<1>3. CASE Journalled
      BY <1>1, <1>3, JournalledRecovers
<1> QED  BY <1>2, <1>3 DEF SyncAppend

LEMMA LinkRecovers ==
    ASSUME RecoveryInv, LinkDurably
    PROVE  RecoveryInv'
<1>1. TypeInv'
      BY AppendTyped DEF RecoveryInv
<1> QED  BY <1>1, JournalledRecovers DEF LinkDurably

LEMMA CrashRecovers ==
    ASSUME RecoveryInv, Fail \/ Kill
    PROVE  RecoveryInv'
<1>1. TypeInv'
      BY CrashTyped DEF RecoveryInv
<1>2. UNCHANGED <<checkpoint, journal>> /\ stage' \in {"poisoned", "down"}
      BY DEF Fail, Kill, Forget, diskVars
<1> QED  BY <1>1, <1>2 DEF RecoveryInv, Progress

LEMMA LoadRecovers ==
    ASSUME RecoveryInv, NEW batch \in Batches \union {<<>>}, Load(batch)
    PROVE  RecoveryInv'
<1>1. TypeInv' /\ TypeOK
      BY LoadTyped DEF RecoveryInv, TypeInv
<1>2. journal'.frames = journal.frames /\ ~journal'.torn /\ UNCHANGED checkpoint
      BY <1>1 DEF Load, Trimmed, TypeOK, Journals
<1>3. /\ Replayed(checkpoint', journal') = Replayed(checkpoint, journal)
      /\ LastSequence(checkpoint', journal') = LastSequence(checkpoint, journal)
      /\ Ordered(journal') = Ordered(journal)
      BY <1>2, ReplayOfFrames
<1>4. Readable(checkpoint, journal)'
  <2>1. journal \in Journals /\ journal' \in Journals
        BY <1>1 DEF TypeInv, TypeOK
  <2>2. Readable(checkpoint, journal)
        BY DEF RecoveryInv
  <2>3. ~checkpoint.file => Len(journal.frames) = 0
        BY <2>1, <2>2, SizeOf DEF Readable
  <2>4. ~checkpoint'.file => Size(journal') = 0
        BY <1>2, <2>1, <2>3, SizeOf
  <2> QED  BY <1>2, <2>2, <2>4 DEF Readable
<1>5. Aligned'
      BY <1>2, <1>3 DEF Load, Aligned
<1>6. Replayed(checkpoint, journal) \in Contents
      BY <1>1, ReplayedType DEF TypeOK
<1>7. /\ map' = Overridden(Replayed(checkpoint, journal), batch)
      /\ pending' = DOMAIN batch
      /\ stage' = IF pending' = {} THEN "idle" ELSE "persist"
      BY DEF Load
<1>8. CASE batch = <<>>
  <2>1. map' = Replayed(checkpoint, journal)
        BY <1>6, <1>7, <1>8 DEF Overridden, Contents
  <2>2. stage' = "idle"
        BY <1>7, <1>8
  <2> QED  BY <1>1, <1>2, <1>3, <1>4, <1>5, <2>1, <2>2 DEF RecoveryInv, Progress
<1>9. CASE batch \in Batches
  <2>1. DOMAIN batch \in SUBSET Keys /\ DOMAIN batch # {}
        BY <1>9, BatchType
  <2>2. Delta' = [k \in DOMAIN batch |->
                     Overridden(Replayed(checkpoint, journal), batch)[k]]
        BY <1>7 DEF Delta
  <2>3. Overridden(Replayed(checkpoint, journal), Delta')
           = Overridden(Replayed(checkpoint, journal), batch)
        BY <2>1, <2>2 DEF Overridden
  <2>4. Unwritten'
        BY <1>3, <1>7, <2>3 DEF Unwritten
  <2>5. stage' = "persist"
        BY <1>7, <2>1
  <2> QED  BY <1>1, <1>2, <1>3, <1>4, <1>5, <2>4, <2>5 DEF RecoveryInv, Progress
<1> QED  BY <1>8, <1>9

-----------------------------------------------------------------------------
(* What a loss of power may leave: the same files, but where they change.  *)

\* The journal's name is not safe, and power may be lost.
Unnamed == "power" \in Disturbances /\ name = "new"

\* The two files that a restart may find; neither depends on what became of the other.
CheckpointsLeft == {checkpoint} \union oldCheckpoints
JournalsLeft == {journal} \union oldJournals \union (IF Unnamed THEN {EmptyJournal} ELSE {})

Bare(j) == Len(j.frames) = 0 /\ ~j.torn

LeftLoads == \A c \in CheckpointsLeft, j \in JournalsLeft : Readable(c, j) /\ Ordered(j)

\* Nothing but the present files is left, except while a change of a file is not synced; and a
\* journal whose name is not safe is empty, or has the one frame that is being written.
LeftOnly ==
    /\ "power" \notin Disturbances => oldCheckpoints = {} /\ oldJournals = {}
    /\ stage \notin {"renamed", "poisoned"} => oldCheckpoints = {}
    /\ stage \notin {"truncated", "appending", "appended", "poisoned"} => oldJournals = {}
    /\ name = "none" => Bare(journal) /\ oldJournals = {}
    /\ stage \in {"appending", "appended"} => name # "none"
    /\ Unnamed /\ stage \in {"idle", "persist"} => Bare(journal)
    /\ Unnamed /\ stage \in {"appending", "appended"} => bytes = 0
    /\ stage \in {"replaced", "down"} => ~Unnamed

HostInv == RecoveryInv /\ LeftLoads /\ LeftOnly

LEMMA LeftTyped ==
    ASSUME TypeOK
    PROVE  /\ \A c \in CheckpointsLeft : c \in Checkpoints
           /\ \A j \in JournalsLeft : j \in Journals
BY EmptyTyped DEF TypeOK, CheckpointsLeft, JournalsLeft

LEMMA SameLeft ==
    ASSUME UNCHANGED diskVars
    PROVE  CheckpointsLeft' = CheckpointsLeft /\ JournalsLeft' = JournalsLeft
           /\ Unnamed' = Unnamed
BY DEF diskVars, CheckpointsLeft, JournalsLeft, Unnamed

LEMMA BareReplay ==
    ASSUME NEW c \in Checkpoints, NEW j \in Journals, Bare(j)
    PROVE  Replayed(c, j) = c.map /\ Readable(c, j) /\ Ordered(j)
<1>1. DOMAIN j.frames = {}
      BY FramesType DEF Bare
<1>2. Size(j) = 0
      BY SizeOf DEF Bare
<1> QED  BY <1>1, <1>2, ReplayOfNothing DEF Readable, Ordered

LEMMA EmptyIsBare == Bare(EmptyJournal)
BY DEF Bare, EmptyJournal

\* Until a change is written, nothing but the present journal is there to be found.
LEMMA LeftBetween ==
    ASSUME HostInv, stage \in {"idle", "persist", "down"}
    PROVE  /\ CheckpointsLeft = {checkpoint}
           /\ \A j \in JournalsLeft : j = journal \/ (j = EmptyJournal /\ Bare(journal))
<1>1. oldCheckpoints = {} /\ oldJournals = {} /\ (Unnamed => Bare(journal))
      BY DEF HostInv, LeftOnly
<1>2. CheckpointsLeft = {checkpoint}
      BY <1>1 DEF CheckpointsLeft
<1>3. \A j \in JournalsLeft : j = journal \/ (j = EmptyJournal /\ Unnamed)
      BY <1>1 DEF JournalsLeft
<1> QED  BY <1>1, <1>2, <1>3

LEMMA FilesLoad ==
    ASSUME RecoveryInv
    PROVE  Readable(checkpoint, journal) /\ Ordered(journal)
           /\ checkpoint \in Checkpoints /\ journal \in Journals
BY DEF RecoveryInv, TypeInv, TypeOK

-----------------------------------------------------------------------------
(* Every step keeps them                                                   *)

LEMMA ChangeHost ==
    ASSUME HostInv, NEW batch \in Batches, Change(batch)
    PROVE  HostInv'
<1>1. RecoveryInv'
      BY ChangeRecovers DEF HostInv
<1>2. LeftLoads'
      BY SameLeft DEF HostInv, LeftLoads, Change
<1>3. LeftOnly'
      BY SameLeft DEF HostInv, LeftOnly, Change, diskVars, Bare
<1> QED  BY <1>1, <1>2, <1>3 DEF HostInv

LEMMA RenameHost ==
    ASSUME HostInv, Rename
    PROVE  HostInv'
<1>1. RecoveryInv'
      BY RenameRecovers DEF HostInv
<1>2. /\ JournalsLeft' = JournalsLeft /\ Unnamed' = Unnamed
      /\ \A c \in CheckpointsLeft' : c = checkpoint' \/ c \in CheckpointsLeft
      BY DEF Rename, JournalsLeft, CheckpointsLeft, Unnamed, WithOld
<1>3. stage = "persist" /\ stage' = "renamed" /\ UNCHANGED <<journal, oldJournals, name>>
      BY DEF Rename
<1>4. /\ checkpoint' \in Checkpoints /\ checkpoint'.file
      BY <1>1, FilesLoad DEF Rename, Snapshot, RecoveryInv, TypeInv, TypeOK
<1>5. \A j \in JournalsLeft : Readable(checkpoint', j) /\ Ordered(j)
  <2> TAKE j \in JournalsLeft
  <2>1. CASE j = journal
        BY <1>1, <1>3, <2>1 DEF RecoveryInv
  <2>2. CASE j = EmptyJournal
        BY <1>4, <2>2, EmptyJournalReadable
  <2> QED  BY <1>3, <2>1, <2>2, LeftBetween
<1>6. LeftLoads'
      BY <1>2, <1>5 DEF HostInv, LeftLoads
<1>7. LeftOnly'
      BY <1>2, <1>3 DEF HostInv, LeftOnly, Rename, WithOld, Bare
<1> QED  BY <1>1, <1>6, <1>7 DEF HostInv

LEMMA ReplaceHost ==
    ASSUME HostInv, ReplaceDurably
    PROVE  HostInv'
<1>1. RecoveryInv'
      BY ReplaceRecovers DEF HostInv
<1>2. /\ \A c \in CheckpointsLeft' : c \in CheckpointsLeft
      /\ \A j \in JournalsLeft' : j \in JournalsLeft
      BY DEF ReplaceDurably, NamesSynced, JournalsLeft, CheckpointsLeft, Unnamed
<1>3. LeftLoads'
      BY <1>2 DEF HostInv, LeftLoads
<1>4. LeftOnly'
      BY DEF HostInv, LeftOnly, ReplaceDurably, NamesSynced, Unnamed, Bare
<1> QED  BY <1>1, <1>3, <1>4 DEF HostInv

LEMMA TruncateHost ==
    ASSUME HostInv, Truncate
    PROVE  HostInv'
<1>1. RecoveryInv'
      BY TruncateRecovers DEF HostInv
<1>2. /\ CheckpointsLeft' = CheckpointsLeft
      /\ \A j \in JournalsLeft' : j = EmptyJournal \/ j \in JournalsLeft
      BY DEF Truncate, JournalsLeft, CheckpointsLeft, WithOld
<1>3. LeftLoads'
      BY <1>2, LeftTyped, EmptyJournalReadable DEF HostInv, LeftLoads, RecoveryInv, TypeInv
<1>4. LeftOnly'
      BY EmptyIsBare DEF HostInv, LeftOnly, Truncate, WithOld, Unnamed
<1> QED  BY <1>1, <1>3, <1>4 DEF HostInv

LEMMA FinishHost ==
    ASSUME HostInv, FinishCheckpoint
    PROVE  HostInv'
<1>1. RecoveryInv'
      BY FinishRecovers DEF HostInv
<1>2. /\ \A c \in CheckpointsLeft' : c \in CheckpointsLeft
      /\ \A j \in JournalsLeft' : j \in JournalsLeft
      BY DEF FinishCheckpoint, JournalsLeft, CheckpointsLeft, Unnamed
<1>3. LeftLoads'
      BY <1>2 DEF HostInv, LeftLoads
<1>4. journal' = EmptyJournal /\ stage = "truncated" /\ stage' = "idle"
      BY DEF HostInv, RecoveryInv, Progress, FinishCheckpoint, Persisted
<1>5. LeftOnly'
      BY <1>4, EmptyIsBare DEF HostInv, LeftOnly, FinishCheckpoint, Unnamed
<1> QED  BY <1>1, <1>3, <1>5 DEF HostInv

LEMMA BeginAppendHost ==
    ASSUME HostInv, BeginAppend
    PROVE  HostInv'
<1>1. RecoveryInv'
      BY BeginAppendRecovers DEF HostInv
<1>2. stage = "persist" /\ stage' = "appending" /\ UNCHANGED <<checkpoint, oldCheckpoints, memVars>>
      BY DEF BeginAppend
<1>3. /\ CheckpointsLeft' = {checkpoint}
      /\ \A j \in JournalsLeft' : j = journal' \/ j = EmptyJournal \/ j \in JournalsLeft
  <2>1. CheckpointsLeft' = CheckpointsLeft
        BY <1>2 DEF CheckpointsLeft
  <2>2. \A j \in JournalsLeft' : j = journal' \/ j = EmptyJournal \/ j \in JournalsLeft
        BY DEF BeginAppend, JournalsLeft, WithOld
  <2> QED  BY <1>2, <2>1, <2>2, LeftBetween
<1>4. checkpoint \in CheckpointsLeft /\ checkpoint \in Checkpoints
      BY FilesLoad DEF HostInv, CheckpointsLeft
<1>5. Readable(checkpoint, journal') /\ Ordered(journal')
      BY <1>1, <1>2 DEF RecoveryInv
<1>6. LeftLoads'
      BY <1>3, <1>4, <1>5, EmptyJournalReadable DEF HostInv, LeftLoads
<1>7. Unnamed' => bytes' = 0
  <2>1. bytes = Len(journal.frames) /\ bytes' = bytes
        BY <1>2 DEF HostInv, RecoveryInv, Progress, Aligned, memVars
  <2>2. Unnamed' => Bare(journal)
        BY <1>2 DEF HostInv, LeftOnly, BeginAppend, Unnamed
  <2> QED  BY <2>1, <2>2 DEF Bare
<1>8. LeftOnly'
      BY <1>2, <1>7 DEF HostInv, LeftOnly, BeginAppend, WithOld
<1> QED  BY <1>1, <1>6, <1>8 DEF HostInv

LEMMA EndAppendHost ==
    ASSUME HostInv, EndAppend
    PROVE  HostInv'
<1>1. RecoveryInv'
      BY EndAppendRecovers DEF HostInv
<1>2. /\ stage = "appending" /\ stage' = "appended"
      /\ UNCHANGED <<checkpoint, oldCheckpoints, name, memVars>>
      BY DEF EndAppend
<1>3. /\ CheckpointsLeft' = CheckpointsLeft /\ CheckpointsLeft = {checkpoint}
      /\ \A j \in JournalsLeft' : j = journal' \/ j \in JournalsLeft
  <2>1. CheckpointsLeft' = CheckpointsLeft /\ CheckpointsLeft = {checkpoint}
        BY <1>2 DEF CheckpointsLeft, HostInv, LeftOnly
  <2>2. \A j \in JournalsLeft' : j = journal' \/ j \in JournalsLeft
        BY DEF EndAppend, JournalsLeft, WithOld, Unnamed
  <2> QED  BY <2>1, <2>2
<1>4. Readable(checkpoint, journal') /\ Ordered(journal')
      BY <1>1, <1>2 DEF RecoveryInv
<1>5. LeftLoads'
      BY <1>3, <1>4 DEF HostInv, LeftLoads
<1>6. LeftOnly'
      BY <1>2 DEF HostInv, LeftOnly, EndAppend, WithOld, Unnamed, memVars
<1> QED  BY <1>1, <1>5, <1>6 DEF HostInv

LEMMA SyncAppendHost ==
    ASSUME HostInv, SyncAppend
    PROVE  HostInv'
<1>1. RecoveryInv'
      BY SyncAppendRecovers DEF HostInv
<1>2. /\ \A c \in CheckpointsLeft' : c \in CheckpointsLeft
      /\ \A j \in JournalsLeft' : j \in JournalsLeft
      BY DEF SyncAppend, JournalsLeft, CheckpointsLeft, Unnamed
<1>3. LeftLoads'
      BY <1>2 DEF HostInv, LeftLoads
<1>4. /\ stage = "appended" /\ oldJournals' = {} /\ UNCHANGED <<oldCheckpoints, journal, name>>
      /\ stage' = "linking" \/ (bytes # 0 /\ stage' = "idle")
      BY DEF SyncAppend, NameMayBeNew, Journalled, Persisted
<1>5. LeftOnly'
      BY <1>4 DEF HostInv, LeftOnly, Unnamed, Bare
<1> QED  BY <1>1, <1>3, <1>5 DEF HostInv

LEMMA LinkHost ==
    ASSUME HostInv, LinkDurably
    PROVE  HostInv'
<1>1. RecoveryInv'
      BY LinkRecovers DEF HostInv
<1>2. /\ \A c \in CheckpointsLeft' : c \in CheckpointsLeft
      /\ \A j \in JournalsLeft' : j \in JournalsLeft
      BY DEF LinkDurably, NamesSynced, JournalsLeft, CheckpointsLeft, Unnamed
<1>3. LeftLoads'
      BY <1>2 DEF HostInv, LeftLoads
<1>4. /\ oldCheckpoints' = {} /\ UNCHANGED <<journal, oldJournals>> /\ stage' = "idle"
      /\ name' = (IF name = "new" THEN "durable" ELSE name) /\ stage = "linking"
      BY DEF LinkDurably, NamesSynced, Journalled, Persisted
<1>5. LeftOnly'
      BY <1>4 DEF HostInv, LeftOnly, Unnamed, Bare
<1> QED  BY <1>1, <1>3, <1>5 DEF HostInv

LEMMA DeathHost ==
    ASSUME HostInv, Fail \/ Kill
    PROVE  HostInv'
<1>1. RecoveryInv'
      BY CrashRecovers DEF HostInv
<1>2. UNCHANGED diskVars
      BY DEF Fail, Kill
<1>3. LeftLoads'
      BY <1>2, SameLeft DEF HostInv, LeftLoads
<1>4. CASE Kill
  <2>1. stage' = "down" /\ ~Unnamed /\ oldCheckpoints = {} /\ oldJournals = {}
        BY <1>4 DEF HostInv, LeftOnly, Kill, Forget, Synced, Unnamed
  <2> QED  BY <1>1, <1>2, <1>3, <2>1, SameLeft DEF HostInv, LeftOnly, diskVars, Bare
<1>5. CASE Fail
  <2>1. LeftOnly'
        BY <1>2, <1>5, SameLeft DEF HostInv, LeftOnly, Fail, diskVars, Bare
  <2> QED  BY <1>1, <1>3, <2>1 DEF HostInv
<1> QED  BY <1>4, <1>5

\* Each of the two files is one that was there to be found.
LEMMA PowerLossHost ==
    ASSUME HostInv, PowerLoss
    PROVE  /\ HostInv'
           /\ CheckpointsLeft' = {checkpoint'} /\ checkpoint' \in CheckpointsLeft
           /\ JournalsLeft' = {journal'} /\ journal' \in JournalsLeft
<1>1. TypeInv'
      BY CrashTyped DEF HostInv, RecoveryInv
<1>2. checkpoint' \in CheckpointsLeft /\ journal' \in JournalsLeft
      BY DEF PowerLoss, CheckpointsLeft, JournalsLeft, Unnamed
<1>3. oldCheckpoints' = {} /\ oldJournals' = {} /\ ~Unnamed' /\ stage' = "down"
      BY DEF PowerLoss, Unnamed, Forget
<1>4. CheckpointsLeft' = {checkpoint'} /\ JournalsLeft' = {journal'}
      BY <1>3 DEF CheckpointsLeft, JournalsLeft
<1>5. Readable(checkpoint', journal') /\ Ordered(journal')
      BY <1>2 DEF HostInv, LeftLoads
<1>6. RecoveryInv'
      BY <1>1, <1>3, <1>5 DEF RecoveryInv, Progress
<1>7. LeftLoads'
      BY <1>4, <1>5 DEF LeftLoads
<1>8. name' = "none" => Bare(journal')
      BY EmptyIsBare DEF PowerLoss, HostInv, LeftOnly
<1>9. LeftOnly'
      BY <1>3, <1>8 DEF LeftOnly
<1> QED  BY <1>2, <1>4, <1>6, <1>7, <1>9 DEF HostInv

LEMMA LoadHost ==
    ASSUME HostInv, NEW batch \in Batches \union {<<>>}, Load(batch)
    PROVE  /\ HostInv'
           /\ CheckpointsLeft' = {checkpoint} /\ JournalsLeft' = {journal'}
           /\ CheckpointsLeft = {checkpoint} /\ JournalsLeft = {journal}
<1>1. RecoveryInv'
      BY LoadRecovers DEF HostInv
<1>2. /\ stage = "down" /\ ~Unnamed /\ oldCheckpoints = {} /\ oldJournals = {}
      /\ UNCHANGED <<checkpoint, oldCheckpoints, name>> /\ oldJournals' = {}
      /\ stage' \in {"idle", "persist"}
      BY DEF HostInv, LeftOnly, Load
<1>3. ~Unnamed'
      BY <1>2 DEF Unnamed
<1>4. /\ CheckpointsLeft' = {checkpoint} /\ JournalsLeft' = {journal'}
      /\ CheckpointsLeft = {checkpoint} /\ JournalsLeft = {journal}
      BY <1>2, <1>3 DEF CheckpointsLeft, JournalsLeft
<1>5. LeftLoads'
      BY <1>1, <1>2, <1>4 DEF LeftLoads, RecoveryInv
<1>6. Bare(journal) => Bare(journal')
      BY DEF Load, Trimmed, Bare, HostInv, RecoveryInv, TypeInv, TypeOK, Journals
<1>7. LeftOnly'
      BY <1>2, <1>3, <1>6 DEF HostInv, LeftOnly
<1> QED  BY <1>1, <1>4, <1>5, <1>7 DEF HostInv

LEMMA HostInvariant == Spec => []HostInv
<1>1. Init => HostInv
  <2> SUFFICES ASSUME Init
               PROVE  HostInv
      OBVIOUS
  <2>1. TypeInv
        BY InitTyped
  <2>2. NoCheckpoint \in Checkpoints
        BY EmptyTyped DEF NoCheckpoint, Checkpoints
  <2>3. checkpoint = NoCheckpoint /\ journal = EmptyJournal
        BY DEF Init
  <2>4. Readable(checkpoint, journal) /\ Ordered(journal)
        BY <2>2, <2>3, EmptyJournalReadable
  <2>5. Aligned /\ ~journal.torn /\ map = Replayed(checkpoint, journal)
    <3>1. NoCheckpoint.file = FALSE /\ NoCheckpoint.seq = 0 /\ NoCheckpoint.map = Empty
          BY DEF NoCheckpoint
    <3>2. Len(EmptyJournal.frames) = 0 /\ ~EmptyJournal.torn
          BY DEF EmptyJournal
    <3> QED  BY <2>2, <2>3, <3>1, <3>2, EmptyJournalReadable DEF Init, Aligned
  <2>6. RecoveryInv
        BY <2>1, <2>4, <2>5 DEF RecoveryInv, Progress, Init
  <2>7. CheckpointsLeft = {checkpoint} /\ JournalsLeft = {journal} /\ ~Unnamed
        BY DEF Init, CheckpointsLeft, JournalsLeft, Unnamed
  <2>8. LeftLoads
        BY <2>4, <2>7 DEF LeftLoads
  <2>9. LeftOnly
        BY <2>7, EmptyIsBare DEF Init, LeftOnly
  <2> QED  BY <2>6, <2>8, <2>9 DEF HostInv
<1>2. HostInv /\ [Next]_vars => HostInv'
  <2> SUFFICES ASSUME HostInv, [Next]_vars
               PROVE  HostInv'
      OBVIOUS
  <2>1. CASE UNCHANGED vars
    <3>1. TypeInv'
          BY <2>1 DEF HostInv, RecoveryInv, TypeInv, TypeOK, SomethingPending, vars, diskVars,
                      memVars
    <3>2. Progress'
          BY <2>1 DEF HostInv, RecoveryInv, Progress, Aligned, Unwritten, Superseded, Snapshot,
                      Delta, vars, diskVars, memVars
    <3>3. RecoveryInv'
          BY <2>1, <3>1, <3>2 DEF HostInv, RecoveryInv, vars, diskVars
    <3>4. LeftLoads'
          BY <2>1, SameLeft DEF HostInv, LeftLoads, vars
    <3>5. LeftOnly'
          BY <2>1, SameLeft DEF HostInv, LeftOnly, Bare, vars, diskVars, memVars
    <3> QED  BY <3>3, <3>4, <3>5 DEF HostInv
  <2>2. CASE Next
        BY <2>2, ChangeHost, RenameHost, ReplaceHost, TruncateHost, FinishHost, BeginAppendHost,
           EndAppendHost, SyncAppendHost, LinkHost, DeathHost, PowerLossHost, LoadHost DEF Next
  <2> QED  BY <2>1, <2>2
<1> QED  BY <1>1, <1>2, PTL DEF Spec

-----------------------------------------------------------------------------
(* The files implement one atomic value                                    *)

LEMMA RestorableIsLeft ==
    \A r \in Restorable : r.checkpoint \in CheckpointsLeft /\ r.journal \in JournalsLeft
<1>1. CASE "power" \in Disturbances
  <2> TAKE r \in Restorable
  <2>1. PICK c \in CheckpointsLeft, j \in JournalsLeft : r = [checkpoint |-> c, journal |-> j]
        BY <1>1 DEF Restorable, CheckpointsLeft, JournalsLeft, Unnamed
  <2> QED  BY <2>1
<1>2. CASE "power" \notin Disturbances
      BY <1>2 DEF Restorable, CheckpointsLeft, JournalsLeft
<1> QED  BY <1>1, <1>2

\* What a restart makes of the files is what it makes of one of each that are left.
LEMMA StoredIsLeft ==
    HostInv =>
      /\ \A c \in CheckpointsLeft, j \in JournalsLeft : Replayed(c, j) \in Stored
      /\ \A v \in Stored : \E c \in CheckpointsLeft, j \in JournalsLeft : v = Replayed(c, j)
<1> SUFFICES ASSUME HostInv
             PROVE  /\ \A c \in CheckpointsLeft, j \in JournalsLeft : Replayed(c, j) \in Stored
                    /\ \A v \in Stored :
                          \E c \in CheckpointsLeft, j \in JournalsLeft : v = Replayed(c, j)
    OBVIOUS
<1>1. \A c \in CheckpointsLeft, j \in JournalsLeft :
         [checkpoint |-> c, journal |-> j] \in Restorable
  <2>1. CASE "power" \in Disturbances
    <3> DEFINE journals == {journal} \union oldJournals
                             \union (IF name = "new" THEN {EmptyJournal} ELSE {})
    <3>1. JournalsLeft = journals
          BY <2>1 DEF JournalsLeft, Unnamed
    <3>2. Restorable = {[checkpoint |-> c, journal |-> j] : c \in CheckpointsLeft, j \in journals}
          BY <2>1 DEF Restorable, CheckpointsLeft
    <3> HIDE DEF journals
    <3> TAKE c \in CheckpointsLeft, j \in JournalsLeft
    <3>3. j \in journals
          BY <3>1
    <3> QED  BY <3>2, <3>3
  <2>2. CASE "power" \notin Disturbances
    <3>1. CheckpointsLeft = {checkpoint} /\ JournalsLeft = {journal}
          BY <2>2 DEF HostInv, LeftOnly, CheckpointsLeft, JournalsLeft, Unnamed
    <3> QED  BY <2>2, <3>1 DEF Restorable
  <2> QED  BY <2>1, <2>2
<1>2. \A c \in CheckpointsLeft, j \in JournalsLeft : Replayed(c, j) \in Stored
  <2> TAKE c \in CheckpointsLeft, j \in JournalsLeft
  <2> DEFINE r == [checkpoint |-> c, journal |-> j]
  <2>1. r \in Restorable
        BY <1>1
  <2>2. r.checkpoint = c /\ r.journal = j
        OBVIOUS
  <2> HIDE DEF r
  <2>3. Replayed(r.checkpoint, r.journal) \in Stored
        BY <2>1 DEF Stored
  <2> QED  BY <2>2, <2>3
<1>3. \A v \in Stored : \E c \in CheckpointsLeft, j \in JournalsLeft : v = Replayed(c, j)
  <2> TAKE v \in Stored
  <2>1. PICK r \in Restorable : v = Replayed(r.checkpoint, r.journal)
        BY DEF Stored
  <2> QED  BY <2>1, RestorableIsLeft
<1> QED  BY <1>2, <1>3

LEMMA StoredIsLeftNext ==
    HostInv' =>
      /\ \A c \in CheckpointsLeft', j \in JournalsLeft' : Replayed(c, j) \in Stored'
      /\ \A v \in Stored' : \E c \in CheckpointsLeft', j \in JournalsLeft' : v = Replayed(c, j)
<1>1. (HostInv =>
         /\ \A c \in CheckpointsLeft, j \in JournalsLeft : Replayed(c, j) \in Stored
         /\ \A v \in Stored :
               \E c \in CheckpointsLeft, j \in JournalsLeft : v = Replayed(c, j))'
      BY StoredIsLeft, PTL
<1> QED  BY <1>1

LEMMA IdleStored == HostInv /\ stage = "idle" => Stored = {map}
<1> SUFFICES ASSUME HostInv, stage = "idle"
             PROVE  Stored = {map}
    OBVIOUS
<1>1. map = Replayed(checkpoint, journal) /\ checkpoint \in Checkpoints /\ journal \in Journals
      BY FilesLoad DEF HostInv, RecoveryInv, Progress
<1>2. checkpoint \in CheckpointsLeft /\ journal \in JournalsLeft
      BY DEF CheckpointsLeft, JournalsLeft
<1>3. \A c \in CheckpointsLeft, j \in JournalsLeft : Replayed(c, j) = map
  <2> TAKE c \in CheckpointsLeft, j \in JournalsLeft
  <2>1. c = checkpoint /\ (j = journal \/ (j = EmptyJournal /\ Bare(journal)))
        BY LeftBetween
  <2> QED  BY <1>1, <2>1, BareReplay, EmptyJournalReadable
<1> QED  BY <1>1, <1>2, <1>3, StoredIsLeft

LEMMA IdleStoredNext == HostInv' /\ stage' = "idle" => Stored' = {map'}
<1>1. (HostInv /\ stage = "idle" => Stored = {map})'
      BY IdleStored, PTL
<1> QED  BY <1>1

LEMMA SameStored ==
    ASSUME UNCHANGED diskVars
    PROVE  Stored' = Stored
BY DEF diskVars, Stored, Restorable

\* A step of #persist lets a restart find what it could find before, or what is in memory.
LEMMA Spreads ==
    ASSUME HostInv, HostInv',
           \A c \in CheckpointsLeft', j \in JournalsLeft' :
              Replayed(c, j) = map
              \/ \E b \in CheckpointsLeft, l \in JournalsLeft : Replayed(c, j) = Replayed(b, l)
    PROVE  Stored' \in (SUBSET (Stored \union {map})) \ {{}}
<1>1. checkpoint' \in CheckpointsLeft' /\ journal' \in JournalsLeft'
      BY DEF CheckpointsLeft, JournalsLeft
<1>2. \A v \in Stored' : v \in Stored \union {map}
  <2> TAKE v \in Stored'
  <2>1. PICK c \in CheckpointsLeft', j \in JournalsLeft' : v = Replayed(c, j)
        BY StoredIsLeftNext
  <2>2. CASE Replayed(c, j) = map
        BY <2>1, <2>2
  <2>3. CASE \E b \in CheckpointsLeft, l \in JournalsLeft : Replayed(c, j) = Replayed(b, l)
        BY <2>1, <2>3, StoredIsLeft
  <2> QED  BY <2>2, <2>3
<1>3. Replayed(checkpoint', journal') \in Stored'
      BY <1>1, StoredIsLeftNext
<1> QED  BY <1>2, <1>3

\* Nothing is left of the old checkpoint, of an old journal or of the name's absence.
LEMMA Narrows ==
    ASSUME HostInv, HostInv', ReplaceDurably \/ SyncAppend \/ LinkDurably
    PROVE  Stored' \in (SUBSET (Stored \union {map})) \ {{}}
<1>1. /\ \A c \in CheckpointsLeft' : c \in CheckpointsLeft
      /\ \A j \in JournalsLeft' : j \in JournalsLeft
      BY DEF ReplaceDurably, SyncAppend, LinkDurably, NamesSynced, JournalsLeft, CheckpointsLeft,
             Unnamed
<1> QED  BY <1>1, Spreads

\* The checkpoint has what is in memory, whatever it is read with.
LEMMA RenameSpreads ==
    ASSUME HostInv, HostInv', Rename
    PROVE  Stored' \in (SUBSET (Stored \union {map})) \ {{}}
<1>1. /\ JournalsLeft' = JournalsLeft
      /\ \A c \in CheckpointsLeft' : c = checkpoint' \/ c \in CheckpointsLeft
      BY DEF Rename, JournalsLeft, CheckpointsLeft, Unnamed, WithOld
<1>2. stage = "persist" /\ stage' = "renamed" /\ journal' = journal /\ checkpoint'.map = map
      BY DEF Rename, Snapshot
<1>3. /\ checkpoint' \in Checkpoints /\ journal \in Journals /\ Superseded'
      BY <1>2, FilesLoad DEF HostInv, RecoveryInv, TypeInv, TypeOK, Progress
<1>4. \A j \in JournalsLeft : Replayed(checkpoint', j) = map
  <2> TAKE j \in JournalsLeft
  <2>1. CASE j = journal
        BY <1>2, <1>3, <2>1, ReplayOfNothing DEF Superseded
  <2>2. CASE j = EmptyJournal
        BY <1>2, <1>3, <2>2, EmptyJournalReadable
  <2> QED  BY <1>2, <2>1, <2>2, LeftBetween
<1> QED  BY <1>1, <1>4, Spreads

LEMMA TruncateSpreads ==
    ASSUME HostInv, HostInv', Truncate
    PROVE  Stored' \in (SUBSET (Stored \union {map})) \ {{}}
<1>1. /\ CheckpointsLeft' = CheckpointsLeft /\ CheckpointsLeft = {checkpoint}
      /\ \A j \in JournalsLeft' : j = EmptyJournal \/ j \in JournalsLeft
  <2>1. CheckpointsLeft = {checkpoint} /\ CheckpointsLeft' = CheckpointsLeft
        BY DEF Truncate, CheckpointsLeft, HostInv, LeftOnly
  <2>2. \A j \in JournalsLeft' : j = EmptyJournal \/ j \in JournalsLeft
        BY DEF Truncate, JournalsLeft, WithOld
  <2> QED  BY <2>1, <2>2
<1>2. checkpoint \in Checkpoints /\ checkpoint.map = map
      BY FilesLoad DEF HostInv, RecoveryInv, Progress, Truncate, Snapshot
<1> QED  BY <1>1, <1>2, EmptyJournalReadable, Spreads

\* The first bytes of a frame are not read, nor is an empty file that has them or has not.
LEMMA BeginAppendSpreads ==
    ASSUME HostInv, HostInv', BeginAppend
    PROVE  Stored' \in (SUBSET (Stored \union {map})) \ {{}}
<1>1. /\ stage = "persist" /\ checkpoint' = checkpoint /\ journal'.frames = journal.frames
      /\ oldCheckpoints' = oldCheckpoints
      BY DEF BeginAppend, HostInv, RecoveryInv, TypeInv, TypeOK, Journals
<1>2. CheckpointsLeft' = CheckpointsLeft /\ CheckpointsLeft = {checkpoint}
  <2>1. CheckpointsLeft' = CheckpointsLeft
        BY <1>1 DEF CheckpointsLeft
  <2> QED  BY <1>1, <2>1, LeftBetween
<1>3. checkpoint \in Checkpoints /\ journal \in Journals /\ journal \in JournalsLeft
      BY FilesLoad DEF HostInv, JournalsLeft
<1>4. \A j \in JournalsLeft' :
         j = journal' \/ j \in JournalsLeft \/ (j = EmptyJournal /\ Bare(journal))
      BY <1>1 DEF BeginAppend, JournalsLeft, WithOld, Unnamed, HostInv, LeftOnly
<1>5. Replayed(checkpoint, journal') = Replayed(checkpoint, journal)
      BY <1>1, ReplayOfFrames
<1>6. Bare(journal) => Replayed(checkpoint, EmptyJournal) = Replayed(checkpoint, journal)
      BY <1>3, BareReplay, EmptyJournalReadable
<1> QED  BY <1>2, <1>3, <1>4, <1>5, <1>6, Spreads

LEMMA EndAppendSpreads ==
    ASSUME HostInv, HostInv', EndAppend
    PROVE  Stored' \in (SUBSET (Stored \union {map})) \ {{}}
<1>1. /\ CheckpointsLeft' = CheckpointsLeft /\ CheckpointsLeft = {checkpoint}
      /\ \A j \in JournalsLeft' : j = journal' \/ j \in JournalsLeft
  <2>1. CheckpointsLeft = {checkpoint} /\ CheckpointsLeft' = CheckpointsLeft
        BY DEF EndAppend, CheckpointsLeft, HostInv, LeftOnly
  <2>2. \A j \in JournalsLeft' : j = journal' \/ j \in JournalsLeft
        BY DEF EndAppend, JournalsLeft, WithOld, Unnamed
  <2> QED  BY <2>1, <2>2
<1>2. map = Replayed(checkpoint, journal')
      BY DEF HostInv, RecoveryInv, Progress, EndAppend, memVars
<1> QED  BY <1>1, <1>2, Spreads

\* Every step of the ledger's files is a step of AtomicStore or changes nothing
\* there.
LEMMA StepImplements ==
    ASSUME HostInv, HostInv', [Next]_vars
    PROVE  [Store!Next]_(Store!storeVars)
<1> USE DEF Store!Next, Store!storeVars
<1>0. map \in Contents /\ map' \in Contents /\ stage \in Stages
      BY DEF HostInv, RecoveryInv, TypeInv, TypeOK
<1>1. CASE UNCHANGED vars
  <2>1. Stored' = Stored
        BY <1>1, SameStored DEF vars
  <2> QED  BY <1>1, <2>1 DEF vars, memVars
<1>2. ASSUME NEW batch \in Batches, Change(batch)
      PROVE  Store!Change
  <2>1. Stored' = Stored
        BY <1>2, SameStored DEF Change
  <2> QED  BY <1>0, <1>2, <2>1 DEF Change, Store!Change
<1>3. CASE Rename
  <2>1. Stored' \in (SUBSET (Stored \union {map})) \ {{}}
        BY <1>3, RenameSpreads
  <2> QED  BY <1>3, <2>1 DEF Rename, memVars, Store!Spread
<1>4. CASE ReplaceDurably
  <2>1. Stored' \in (SUBSET (Stored \union {map})) \ {{}}
        BY <1>4, Narrows
  <2> QED  BY <1>4, <2>1 DEF ReplaceDurably, memVars, Store!Spread
<1>5. CASE Truncate
  <2>1. Stored' \in (SUBSET (Stored \union {map})) \ {{}}
        BY <1>5, TruncateSpreads
  <2> QED  BY <1>5, <2>1 DEF Truncate, memVars, Store!Spread
<1>6. CASE FinishCheckpoint
  <2>1. stage' = "idle" /\ map' = map
        BY <1>6 DEF FinishCheckpoint, Persisted
  <2>2. Stored' = {map}
        BY <2>1, IdleStoredNext
  <2> QED  BY <1>6, <2>1, <2>2 DEF FinishCheckpoint, Store!Acknowledge
<1>7. CASE BeginAppend
  <2>1. Stored' \in (SUBSET (Stored \union {map})) \ {{}}
        BY <1>7, BeginAppendSpreads
  <2> QED  BY <1>7, <2>1 DEF BeginAppend, memVars, Store!Spread
<1>8. CASE EndAppend
  <2>1. Stored' \in (SUBSET (Stored \union {map})) \ {{}}
        BY <1>8, EndAppendSpreads
  <2> QED  BY <1>8, <2>1 DEF EndAppend, memVars, Store!Spread
<1>9. CASE SyncAppend /\ stage' = "linking"
  <2>1. Stored' \in (SUBSET (Stored \union {map})) \ {{}}
        BY <1>9, Narrows
  <2>2. map' = map
        BY <1>9 DEF SyncAppend, Journalled, Persisted, memVars
  <2> QED  BY <1>9, <2>1, <2>2 DEF SyncAppend, Store!Spread
<1>10. CASE (SyncAppend \/ LinkDurably) /\ Journalled
  <2>1. stage' = "idle" /\ map' = map
        BY <1>10 DEF Journalled, Persisted
  <2>2. Stored' = {map}
        BY <2>1, IdleStoredNext
  <2>3. stage \in {"appended", "linking"}
        BY <1>10 DEF SyncAppend, LinkDurably
  <2> QED  BY <2>1, <2>2, <2>3 DEF Store!Acknowledge
<1>11. CASE Fail
  <2>1. Stored' = Stored
        BY <1>11, SameStored DEF Fail
  <2> QED  BY <1>11, <2>1 DEF Fail, Persisting, memVars
<1>12. CASE Kill
  <2>1. Stored' = Stored
        BY <1>12, SameStored DEF Kill
  <2>2. Replayed(checkpoint, journal) \in Stored
        BY StoredIsLeft DEF CheckpointsLeft, JournalsLeft
  <2> QED  BY <1>12, <2>1, <2>2 DEF Kill, Forget, Store!Crash
<1>13. CASE PowerLoss
  <2>1. /\ CheckpointsLeft' = {checkpoint'} /\ checkpoint' \in CheckpointsLeft
        /\ JournalsLeft' = {journal'} /\ journal' \in JournalsLeft
        BY <1>13, PowerLossHost
  <2>2. Replayed(checkpoint', journal') \in Stored
        BY <2>1, StoredIsLeft
  <2>3. Stored' = {Replayed(checkpoint', journal')}
        BY <2>1, StoredIsLeftNext
  <2>4. stage' = "down" /\ map' = Empty
        BY <1>13 DEF PowerLoss, Forget
  <2> QED  BY <2>2, <2>3, <2>4 DEF Store!Crash
<1>14. ASSUME NEW batch \in Batches \union {<<>>}, Load(batch)
       PROVE  Store!Reopen
  <2>1. /\ CheckpointsLeft' = {checkpoint} /\ JournalsLeft' = {journal'}
        /\ CheckpointsLeft = {checkpoint} /\ JournalsLeft = {journal}
        BY <1>14, LoadHost
  <2>2. journal'.frames = journal.frames
        BY <1>14 DEF Load, Trimmed, HostInv, RecoveryInv, TypeInv, TypeOK, Journals
  <2>3. Replayed(checkpoint, journal') = Replayed(checkpoint, journal)
        BY <2>2, ReplayOfFrames
  <2>4. Replayed(checkpoint, journal) \in Stored /\ Stored' = {Replayed(checkpoint, journal)}
        BY <2>1, <2>3, StoredIsLeft, StoredIsLeftNext
  <2>5. stage = "down" /\ stage' \in {"idle", "persist"}
        BY <1>14 DEF Load
  <2>6. stage' = "idle" => map' = Replayed(checkpoint, journal)
        BY <2>4, IdleStoredNext
  <2> QED  BY <1>0, <2>4, <2>5, <2>6 DEF Store!Reopen
<1> QED  BY <1>1, <1>2, <1>3, <1>4, <1>5, <1>6, <1>7, <1>8, <1>9, <1>10, <1>11, <1>12, <1>13,
            <1>14 DEF Next, SyncAppend, LinkDurably

\* Whenever the process dies or its host loses power, and whichever system call fails, the files
\* can be loaded; those of an idle ledger hold exactly what was acknowledged; and no later write
\* mistakes its own journal for a rival's (#persist, #checkpoint, #replayJournal, #load).
THEOREM CrashRecovery == Spec => []AlwaysReadable /\ []IdleIsDurable /\ []NoConflictWithItself
<1>1. HostInv => AlwaysReadable /\ IdleIsDurable /\ NoConflictWithItself
  <2> SUFFICES ASSUME HostInv
               PROVE  AlwaysReadable /\ IdleIsDurable /\ NoConflictWithItself
      OBVIOUS
  <2>1. AlwaysReadable
    <3> SUFFICES ASSUME NEW r \in Restorable
                 PROVE  Readable(r.checkpoint, r.journal)
        BY DEF AlwaysReadable
    <3>1. r.checkpoint \in CheckpointsLeft /\ r.journal \in JournalsLeft
          BY RestorableIsLeft
    <3> QED  BY <3>1 DEF HostInv, LeftLoads
  <2>2. IdleIsDurable
        BY IdleStored DEF IdleIsDurable
  <2>3. NoConflictWithItself
    <3>1. journal \in Journals
          BY FilesLoad DEF HostInv
    <3>2. stage = "persist" => bytes = Len(journal.frames) /\ ~journal.torn
          BY DEF HostInv, RecoveryInv, Progress, Aligned
    <3> QED  BY <3>1, <3>2, SizeOf DEF NoConflictWithItself
  <2> QED  BY <2>1, <2>2, <2>3
<1> QED  BY <1>1, HostInvariant, PTL

\* The two files implement one atomically replaced value, over kills, failing system calls and
\* losses of power that take back any of what was not synced.
THEOREM Refinement == Spec => ImplementsStore
<1>1. Init => Store!Init
  <2> SUFFICES ASSUME Init
               PROVE  Store!Init
      OBVIOUS
  <2>1. NoCheckpoint \in Checkpoints /\ NoCheckpoint.map = Empty
        BY EmptyTyped DEF NoCheckpoint, Checkpoints
  <2>2. Replayed(checkpoint, journal) = Empty
        BY <2>1, EmptyJournalReadable DEF Init
  <2>3. Restorable = {[checkpoint |-> checkpoint, journal |-> journal]}
        BY DEF Init, Restorable
  <2>4. Stored = {Empty}
        BY <2>2, <2>3 DEF Stored
  <2> QED  BY <2>4 DEF Init, Store!Init
<1>2. HostInv /\ HostInv' /\ [Next]_vars => [Store!Next]_(Store!storeVars)
      BY StepImplements
<1> QED  BY <1>1, <1>2, HostInvariant, PTL DEF Spec, ImplementsStore, Store!Spec

-----------------------------------------------------------------------------
(* The setup lock, for any number of processes: whoever holds it has its   *)
(* marker in place, and whoever was told that its release succeeded has    *)
(* left no marker.                                                         *)
(*                                                                         *)
(* Neither is inductive.  Only the helper with the kernel's lock moves a   *)
(* marker (OneHelper); what it found before it published its guard is      *)
(* still true when it moves the work marker (Found); and an answer says    *)
(* what the markers say for as long as its process lives (Told).           *)

LockStages ==
    {"acquires", "checks", "rereads", "releases", "verifies", "confirms",
     "idle", "holds", "released", "retained", "blocked"}
Places ==
    {"gone", "waits", "looks", "guards", "works", "removes", "unguards", "answers"}

\* Where a helper stands that has the coordinator's lock and has not answered.
Inside == {"looks", "guards", "works", "removes", "unguards"}

LockTypes ==
    /\ alive \subseteq Processes
    /\ node \in [Processes -> LockStages]
    /\ helper \in [Processes -> [at : Places, says : {"unknown", "yes", "no"}]]

\* Between its transactions a process has no helper, and a helper inside has the lock alone.
OneHelper ==
    \A p \in Processes :
        /\ node[p] \in {"idle", "holds", "released", "retained", "blocked"}
                => helper[p].at = "gone"
        /\ helper[p].at \in Inside => kernel = p
        /\ kernel = p => helper[p].at \notin {"gone", "waits"}
        /\ helper[p].says # "unknown" => helper[p].at \in {"answers", "gone"}

\* What a helper relies on at each of its places.
FoundAt(p) ==
    /\ helper[p].at = "guards" =>
          \/ node[p] = "acquires" /\ work \notin alive
          \/ node[p] = "releases" /\ work = p
    /\ helper[p].at = "works" => node[p] = "acquires" /\ work = None
    /\ helper[p].at = "removes" =>
          \/ node[p] = "acquires" /\ work \notin alive
          \/ node[p] \in {"releases", "verifies"} /\ work = p
    /\ helper[p].at = "unguards" =>
          \/ node[p] = "acquires" /\ work = p
          \/ node[p] = "checks"
          \/ node[p] \in {"releases", "verifies"} /\ work = None
Found == \A p \in alive : FoundAt(p)

\* The markers of a process that was given the lock, and of one that gave it back.
Marked(p) == p \in alive => work = p
Unmarked(p) == work # p /\ (guard # None => guard.process # p)
ToldOf(p) ==
    /\ node[p] \in {"acquires", "checks", "rereads"} /\ helper[p].says = "yes" => Marked(p)
    /\ node[p] = "holds" => Marked(p)
    /\ node[p] \in {"releases", "verifies", "confirms"} /\ helper[p].says = "yes"
          => Unmarked(p)
    /\ node[p] = "released" => Unmarked(p)
Told == \A p \in Processes : ToldOf(p)

LockInvariant == LockTypes /\ OneHelper /\ Found /\ Told

-----------------------------------------------------------------------------

LEMMA LockInit == Lock!Init => LockInvariant
BY LockAssumption DEF Lock!Init, Lock!Gone, LockInvariant, LockTypes, OneHelper, Found, FoundAt,
   Told, ToldOf, Unmarked, Places, Inside, LockStages

\* Every step of a process or of its helper keeps what the helpers and the answers rely on.
LEMMA LockStep == LockInvariant /\ [Lock!Next]_(Lock!vars) => LockInvariant'
<1> SUFFICES ASSUME LockInvariant, [Lock!Next]_(Lock!vars)
             PROVE  LockInvariant'
  OBVIOUS
<1> USE LockAssumption
<1> USE DEF LockInvariant, LockTypes, OneHelper, Found, FoundAt, Told, ToldOf, Marked, Unmarked,
            LockStages, Places, Inside
<1>1. ASSUME NEW p \in Processes, Lock!Locks(p)
      PROVE  LockInvariant'
  BY <1>1 DEF Lock!Locks, Lock!At, Lock!Goes
<1>2. ASSUME NEW p \in Processes, Lock!Busy(p)
      PROVE  LockInvariant'
  BY <1>2 DEF Lock!Busy, Lock!At, Lock!Says
<1>3. ASSUME NEW p \in Processes, Lock!Looks(p)
      PROVE  LockInvariant'
  BY <1>3 DEF Lock!Looks, Lock!At, Lock!Goes, Lock!Says, Lock!OwnerGone, Lock!GuardClears
<1>4. ASSUME NEW p \in Processes, Lock!PutsGuard(p)
      PROVE  LockInvariant'
  BY <1>4 DEF Lock!PutsGuard, Lock!At, Lock!Goes
<1>5. ASSUME NEW p \in Processes, Lock!RemovesWork(p)
      PROVE  LockInvariant'
  BY <1>5 DEF Lock!RemovesWork, Lock!At, Lock!Goes
<1>6. ASSUME NEW p \in Processes, Lock!PutsWork(p)
      PROVE  LockInvariant'
  BY <1>6 DEF Lock!PutsWork, Lock!At, Lock!Goes
<1>7. ASSUME NEW p \in Processes, Lock!RemovesGuard(p)
      PROVE  LockInvariant'
  BY <1>7 DEF Lock!RemovesGuard, Lock!At, Lock!Says
<1>8. ASSUME NEW p \in Processes, Lock!Checks(p)
      PROVE  LockInvariant'
  BY <1>8 DEF Lock!Checks, Lock!At, Lock!Says, Lock!Goes, Lock!Committed, Lock!MyGuard
<1>9. ASSUME NEW p \in Processes, Lock!Verifies(p)
      PROVE  LockInvariant'
  BY <1>9 DEF Lock!Verifies, Lock!At, Lock!Says, Lock!Goes, Lock!MyGuard
<1>10. ASSUME NEW p \in Processes, Lock!Confirms(p)
       PROVE  LockInvariant'
  BY <1>10 DEF Lock!Confirms, Lock!At, Lock!Says, Lock!NothingLeft
<1>11. ASSUME NEW p \in Processes, Lock!Errs(p)
       PROVE  LockInvariant'
  BY <1>11 DEF Lock!Errs, Lock!Says, Lock!MyGuard
<1>12. ASSUME NEW p \in Processes, Lock!HelperLost(p)
       PROVE  LockInvariant'
  BY <1>12 DEF Lock!HelperLost, Lock!Frees, Lock!Gone
<1>13. ASSUME NEW p \in Processes, Lock!Answers(p)
       PROVE  LockInvariant'
  BY <1>13 DEF Lock!Answers, Lock!At, Lock!Frees, Lock!Gone
<1>14. ASSUME NEW p \in Processes, Lock!Wants(p)
       PROVE  LockInvariant'
  BY <1>14 DEF Lock!Wants, Lock!Spawns
<1>15. ASSUME NEW p \in Processes, Lock!AcquireEnds(p)
       PROVE  LockInvariant'
  BY <1>15 DEF Lock!AcquireEnds, Lock!Heard, Lock!Becomes, Lock!Spawns
<1>16. ASSUME NEW p \in Processes, Lock!Releases(p)
       PROVE  LockInvariant'
  BY <1>16 DEF Lock!Releases, Lock!Spawns
<1>17. ASSUME NEW p \in Processes, Lock!ReleaseEnds(p)
       PROVE  LockInvariant'
  BY <1>17 DEF Lock!ReleaseEnds, Lock!Heard, Lock!Becomes, Lock!Spawns
<1>18. ASSUME NEW p \in Processes, Lock!Dies(p)
       PROVE  LockInvariant'
  BY <1>18 DEF Lock!Dies
<1>19. CASE UNCHANGED Lock!vars
  BY <1>19 DEF Lock!vars
<1> QED
  BY <1>1, <1>2, <1>3, <1>4, <1>5, <1>6, <1>7, <1>8, <1>9, <1>10, <1>11, <1>12, <1>13, <1>14,
     <1>15, <1>16, <1>17, <1>18, <1>19 DEF Lock!Next

LEMMA AlwaysLockInvariant == Lock!Spec => []LockInvariant
BY LockInit, LockStep, PTL DEF Lock!Spec

\* Two processes never work under the lock at once: whoever got "yes" from its helper, or found
\* its own commit after the answer was lost (companionLockTransaction, acquire), has its marker
\* in place, and there is one work marker.
THEOREM HolderKeepsItsMarker == Lock!Spec => []HolderIsMarked
<1>1. LockInvariant => HolderIsMarked
  BY DEF LockInvariant, Told, ToldOf, Marked, LockTypes, HolderIsMarked, Lock!HolderIsMarked
<1> QED BY <1>1, AlwaysLockInvariant, PTL

\* A process that is told that its release succeeded (release, or the inspection that finishes
\* or confirms it) has left neither a work marker nor a guard.
THEOREM ReleasesAreTrue == Lock!Spec => []ReleaseIsTrue
<1>1. LockInvariant => ReleaseIsTrue
  BY DEF LockInvariant, Told, ToldOf, Unmarked, ReleaseIsTrue, Lock!ReleaseIsTrue
<1> QED BY <1>1, AlwaysLockInvariant, PTL
=============================================================================
