---------------------------- MODULE MCRunSystem ----------------------------
(* Instances of RunSystem for TLC. *)
EXTENDS RunSystem

CONSTANTS r1, r2, a1, a2, t1, t2, p1, p2, v1

OneProject(S) == [x \in S |-> p1]
MCRunProject == OneProject(Run)
MCAgentProject == OneProject(Agent)
SplitAgentProject == [a \in Agent |-> IF a = a1 THEN p1 ELSE p2]
NoTesterForRun == [r \in Run |-> None]
NoTesterForAgent == [a \in Agent |-> None]
PinnedToV1 == [r \in Run |-> v1]
TaskSymmetry == Permutations(Task)
Interchangeable == Permutations(Agent) \cup Permutations(Task) \cup Permutations(Run)
A1HasV1 == [a \in Agent |-> IF a = a1 THEN v1 ELSE None]
=============================================================================
