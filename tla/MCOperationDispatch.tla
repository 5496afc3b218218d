------------------------ MODULE MCOperationDispatch ------------------------
(* Small instances of OperationDispatch for TLC. *)
EXTENDS OperationDispatch, TLC

CONSTANTS r1, r2, r3, c1, t1, t2, t3, k1, k2, k3

LeaseIds == 0 .. MaxLease

OneClient == [r \in Requests |-> c1]

OneTab    == [r \in Requests |-> t1]
TwoTabs   == [r \in Requests |-> IF r = r3 THEN t2 ELSE t1]
ThreeTabs == [r \in Requests |-> IF r = r1 THEN t1 ELSE IF r = r2 THEN t2 ELSE t3]

\* Independent operations, and r2 retransmitting r1.
OwnKeys == [r \in Requests |-> IF r = r1 THEN k1 ELSE IF r = r2 THEN k2 ELSE k3]
Shared  == [r \in Requests |-> IF r = r3 THEN k3 ELSE k1]

\* With OwnKeys and ThreeTabs, renaming the requests renames their tabs and
\* keys along with them and changes nothing else.
Renaming(p) == [x \in {r1, r2, r3, t1, t2, t3, k1, k2, k3} |->
    IF x \in {r1, r2, r3} THEN p[x]
    ELSE LET r == CHOOSE y \in {r1, r2, r3} : x \in {ThreeTabs[y], OwnKeys[y]}
         IN  IF x = ThreeTabs[r] THEN ThreeTabs[p[r]] ELSE OwnKeys[p[r]]]

Renamings == {Renaming(p) : p \in Permutations({r1, r2, r3})}

\* With Shared, OneTab and OneClient two requests differ in nothing.
Twins == Permutations(Requests)
=============================================================================
