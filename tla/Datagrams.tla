----------------------------- MODULE Datagrams -------------------------------
(***************************************************************************)
(* What the packet probes of networker-tester share: the progress of one   *)
(* probe attempt, and a network between the tester's socket and the        *)
(* endpoint's that loses, duplicates and reorders datagrams.  Datagrams    *)
(* are records with a field `copy'; a duplicate has copy 1.                *)
(***************************************************************************)
EXTENDS Dispatch, FiniteSetsExt

CONSTANT MaxDuplicates    \* bound on datagrams the network duplicates

ASSUME DuplicatesAssumption == MaxDuplicates \in Nat

VARIABLES
  pc,         \* where its code is
  toServer,   \* datagrams on their way to the endpoint
  toClient,   \* datagrams on their way to the tester
  dups,       \* datagrams duplicated so far
  result      \* the RequestAttempt, abstracted; NoResult until it is returned

network == <<toServer, toClient, dups>>
probe == <<mode, pc, result>>

None == -1
NoResult == [kind |-> "none"]

\* The attempt that the *_failed constructors of the probes return: no
\* success, no measurement, an error with a category.
Failed(category) == [kind |-> "failed", error |-> category]

\* External: the network.
Lose(p) ==
  /\ \/ p \in toServer /\ toServer' = toServer \ {p} /\ UNCHANGED toClient
     \/ p \in toClient /\ toClient' = toClient \ {p} /\ UNCHANGED toServer
  /\ UNCHANGED <<dups, mode, pc, result>>

Duplicate(p) ==
  /\ dups < MaxDuplicates /\ p.copy = 0
  /\ \/ p \in toServer /\ toServer' = toServer \cup {[p EXCEPT !.copy = 1]} /\ UNCHANGED toClient
     \/ p \in toClient /\ toClient' = toClient \cup {[p EXCEPT !.copy = 1]} /\ UNCHANGED toServer
  /\ dups' = dups + 1
  /\ UNCHANGED <<mode, pc, result>>

NetworkStep == \E p \in toServer \cup toClient : Lose(p) \/ Duplicate(p)

=============================================================================
