----------------------------- MODULE MCTaskTabs -----------------------------
(* TaskTabs on small sets. *)
EXTENDS TaskTabs, TLC

CONSTANTS s1, s2, s3, a, b, t1, t2, none, sweep

OwnerOf == [s \in Sessions |-> IF s = s3 THEN b ELSE a]
Twins == Permutations({s1, s2})
OneOwner == [s \in Sessions |-> a]

\* A tab that may be a popup is open from the start or still to come.
EarlyInit ==
    /\ record = [t \in Tabs |-> None] /\ durable = {} /\ lease = [t \in Tabs |-> None]
    /\ session = [s \in Sessions |-> "new"] /\ work = [s \in Sessions |-> NoWork]
    /\ pass = [p \in Passers |-> NoPass] /\ line = [t \in Tabs |-> << >>]
    /\ refused = {} /\ givenUp = {} /\ upsets = 0
    /\ page \in {[t \in Tabs |-> IF t \in open THEN "open" ELSE "absent"] : open \in SUBSET Users}
EarlySpec == EarlyInit /\ [][Next]_vars /\ Fairness
=============================================================================
