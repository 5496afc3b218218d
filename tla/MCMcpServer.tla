---- MODULE MCMcpServer ----
(* The instance of McpServer that TLC checks.                              *)
EXTENDS McpServer, TLC

\* Calls, tasks and session ids are interchangeable.
Renamings == Permutations(Calls) \union Permutations(Tasks) \union Permutations(Sessions)

\* One task has opened a session: until one has, no tool but the status does anything.
OpenedInit ==
    \E t \in Tasks, s \in Sessions :
       /\ ClientInit
       /\ bound = [x \in Sessions |-> IF x = s THEN t ELSE NoTask]
       /\ leaseOf = [l \in Leases |-> Unbound]
       /\ opened = [x \in Sessions |-> IF x = s THEN t ELSE NoTask]
       /\ tool = [c \in Calls |-> NoTool]
       /\ reply = [c \in Calls |-> "none"]
       /\ owner = [x \in Sessions |-> IF x = s THEN [task |-> t, on |-> 1] ELSE NoOwner]
       /\ held = [l \in Leases |-> NoSession]
       /\ made = 1

OpenedSpec == OpenedInit /\ [][Next]_vars
====
