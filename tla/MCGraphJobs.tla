---------------------------- MODULE MCGraphJobs ----------------------------
(* The jobs over the graph for TLC: those that load and save the snapshot   *)
(* and the log of judgements, and the resolver, which judges, clusters and  *)
(* projects in the memory of one. They are checked side by side: a          *)
(* behaviour is about one of the two, chosen at the start.                  *)
EXTENDS GraphJobs, Resolution, TLC

VARIABLE part

AllJobs == {"due", "full", "screen", "anchor", "coverage", "ownership", "portfolio"}
\* The processes are interchangeable.
Symmetry == Permutations(Processes)

\* Hashes do not sort as the entities do.
Reversed == [i \in Entity |-> N - i]
FirstThree == 1..3

MCVars == <<vars, resolutionVars, part>>
MCInit == Init /\ ResolutionInit /\ part \in {"jobs", "clusters"}

MCNext ==
  \/ part = "jobs" /\ Next /\ UNCHANGED <<resolutionVars, part>>
  \/ part = "clusters" /\ ResolutionNext /\ UNCHANGED <<vars, part>>

MCSpec == MCInit /\ [][MCNext]_MCVars
=============================================================================
