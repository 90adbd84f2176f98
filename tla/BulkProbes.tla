----------------------------- MODULE BulkProbes ------------------------------
(***************************************************************************)
(* One probe attempt, or the attempts that share a connection, of the      *)
(* modes that drive many transfers at once: the synthetic page loads, the  *)
(* browser and the probes under working conditions.                        *)
(***************************************************************************)
EXTENDS PageLoad, BrowserLoad, LoadProbes

vars == <<mode, pageVars, browserVars, loadVars>>

Init ==
  /\ mode \in PageModes \cup BrowserModes \cup LoadModes
  /\ PageInit /\ BrowserInit /\ LoadInit

PageTasks == Load /\ UNCHANGED <<mode, browserVars, loadVars>>
Working == Controller /\ UNCHANGED <<pageVars, browserVars>>

Ended ==
  CASE mode \in PageModes    -> ~Running /\ Len(loads) = Budget
    [] mode \in BrowserModes -> \A t \in Tabs : At(t, "done")
    [] OTHER                 -> pc = "done"

Next ==
  \/ PageTasks
  \/ mode \in PageModes /\ (Begin \/ Peer) /\ UNCHANGED <<mode, browserVars, loadVars>>
  \/ BrowserStep /\ UNCHANGED <<mode, pageVars, loadVars>>
  \/ Working
  \/ (LoadTasks \/ LatencyProbes) /\ UNCHANGED <<pageVars, browserVars>>
  \/ Ended /\ UNCHANGED vars

\* The tasks of a page load are polled: whatever has been heard, or timed out,
\* is acted on.  The interval controllers wait only for timers and for connects
\* with deadlines.  Nothing is assumed of the peer, the load and the probes.
Spec == Init /\ [][Next]_vars /\ WF_vars(PageTasks) /\ WF_vars(Working)

-----------------------------------------------------------------------------
\* A page load reports what it asked for and what was answered, whole bodies
\* only over cold HTTP/3, and over which connection.
PagesHonest == PageHonest /\ ReuseHonest

\* The latencies under load are of the stage that is reported, the window of a
\* throughput lies over connections that were all there, and the load is gone
\* when its figures are reported.
LoadHonest == LatenciesOfLoad /\ WindowFrozen /\ LoadStopped

\* Every probe ends, even if no byte moves and no probe is answered: a page
\* load unless its peer fell silent in a wait the code leaves without a
\* deadline, however many of its connections and assets failed.
LoadsEnd ==
  Running \/ pc # "done" ~> ~(Running \/ pc # "done") \/ Unbounded

=============================================================================
