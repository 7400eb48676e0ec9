-------------------------- MODULE IngestionProofs --------------------------
(***************************************************************************)
(* Proofs about Ingestion, for any configuration of sources, companies and *)
(* filings: the outcome of every target is accounted for, and a run keeps  *)
(* the promise of IngestionRun.                                            *)
(***************************************************************************)
EXTENDS Ingestion, TLAPS

\* The part of the type invariant the loops depend on.
LoopTypes ==
  /\ pc \in Stage
  /\ todo \subseteq Pair
  /\ items \subseteq Target /\ failed \subseteq Target
  /\ unresolved \subseteq Pair
  /\ pc \in TargetStage => pair \in Pair /\ idx \in 1..Filings[pair]

\* The strengthening that makes EveryTargetAccounted inductive: a pair under
\* way has left todo and was resolved, a target being summarised has its item,
\* nothing is left to do once the snapshot is saved, and between runs there is
\* no report.
RunInv ==
  /\ LoopTypes
  /\ \A p \in todo : p[1] \in selected
  /\ todo \cap unresolved = {}
  /\ pc \in TargetStage =>
       pair \notin todo /\ pair \notin unresolved /\ pair[1] \in selected
  /\ pc \in {"summarize", "events"} => Current \in items
  /\ pc \notin TargetStage \cup {"pairs"} => todo = {}
  /\ pc = "idle" => items = {} /\ failed = {} /\ unresolved = {} /\ selected = {}
  /\ \A t \in items : Source(t) \in selected
  /\ EveryTargetAccounted

LEMMA TargetParts ==
  ASSUME NEW t \in Target
  PROVE  /\ Source(t) \in Known /\ PairOf(t) \in Pair
         /\ t[3] \in 1..Filings[PairOf(t)]
         /\ t = <<PairOf(t)[1], PairOf(t)[2], t[3]>>
         /\ PairOf(t)[1] = Source(t)
BY ConfigurationAssumption DEF Target, Source, PairOf, Pair

LEMMA TargetOfPair ==
  ASSUME NEW p \in Pair, NEW i \in 1..Filings[p]
  PROVE  /\ <<p[1], p[2], i>> \in Target
         /\ PairOf(<<p[1], p[2], i>>) = p
         /\ Source(<<p[1], p[2], i>>) = p[1]
BY ConfigurationAssumption DEF Target, Source, PairOf, Pair

LEMMA InitRunInv == Init => RunInv
BY DEF Init, RunInv, LoopTypes, Stage, TargetStage, AttemptStage, EveryTargetAccounted,
       Source, RunTargets

-----------------------------------------------------------------------------
(* One lemma per action that touches the loops; each shows RunInv kept.    *)

\* The variables RunInv reads.
runInvVars == <<pc, selected, todo, pair, idx, items, unresolved, failed>>

LEMMA RunInvUnchanged == RunInv /\ UNCHANGED runInvVars => RunInv'
BY DEF RunInv, LoopTypes, runInvVars, EveryTargetAccounted, Pending, GivenUp,
       RunTargets, Current

LEMMA StartRunKeeps ==
  ASSUME RunInv, NEW m \in Modes, StartRun(m)
  PROVE  RunInv'
<1>1. /\ pc' = "pairs" /\ todo' \subseteq Pair
      /\ items' = {} /\ failed' = {} /\ unresolved' = {}
      /\ \A p \in todo' : p[1] \in selected'
  BY DEF StartRun, Pair
<1>2. \A t \in Target : Source(t) \in selected' => PairOf(t) \in todo'
  BY TargetParts DEF StartRun, PairOf, Source, Pair
<1>3. EveryTargetAccounted'
  BY <1>1, <1>2 DEF EveryTargetAccounted, Pending, GivenUp, RunTargets
<1>4. QED
  BY <1>1, <1>3 DEF RunInv, LoopTypes, Stage, TargetStage, AttemptStage

LEMMA ResolveTargetsKeeps ==
  ASSUME RunInv, NEW p \in Pair, ResolveTargets(p)
  PROVE  RunInv'
<1> USE DEF TargetStage, AttemptStage
<1>1. /\ pc = "pairs" /\ p \in todo /\ todo' = todo \ {p} /\ pair' = p /\ idx' = 1
      /\ pc' = IF Filings[p] = 0 THEN "pairs" ELSE "fetch"
      /\ UNCHANGED <<selected, items, unresolved, failed>>
  BY DEF ResolveTargets, report
<1>2. Filings[p] \in Nat
  BY ConfigurationAssumption DEF Pair
<1>3. \A t \in Target : PairOf(t) = p => t[3] \in Nat /\ 1 <= t[3] /\ Filings[p] # 0
  BY TargetParts, <1>2
<1>4. \A t \in Target : Pending(t)' <=> Pending(t)
  BY <1>1, <1>2, <1>3 DEF Pending
<1>5. EveryTargetAccounted'
  BY <1>1, <1>4 DEF RunInv, EveryTargetAccounted, RunTargets, GivenUp
<1>6. LoopTypes'
  BY <1>1, <1>2 DEF RunInv, LoopTypes, Stage
<1>7. QED
  BY <1>1, <1>5, <1>6 DEF RunInv

LEMMA ResolveFailsKeeps ==
  ASSUME RunInv, NEW p \in Pair, ResolveFails(p)
  PROVE  RunInv'
<1> USE DEF TargetStage, AttemptStage
<1>1. /\ pc = "pairs" /\ p \in todo /\ todo' = todo \ {p}
      /\ unresolved' = unresolved \cup {p}
      /\ UNCHANGED <<pc, pair, idx, selected, items, failed>>
  BY DEF ResolveFails
<1>2. \A t \in Target : PairOf(t) # p =>
        (Pending(t)' <=> Pending(t)) /\ (GivenUp(t)' <=> GivenUp(t))
  BY <1>1 DEF Pending, GivenUp
<1>3. \A t \in Target : PairOf(t) = p => Pending(t) /\ ~Pending(t)' /\ GivenUp(t)'
  BY <1>1 DEF Pending, GivenUp
<1>4. EveryTargetAccounted'
  BY <1>1, <1>2, <1>3 DEF RunInv, EveryTargetAccounted, RunTargets
<1>5. QED
  BY <1>1, <1>4 DEF RunInv, LoopTypes

\* An attempt that only moves to another of its stages.
LEMMA AttemptKeeps ==
  ASSUME RunInv, pc \in AttemptStage, pc' \in AttemptStage,
         UNCHANGED <<selected, todo, pair, idx, items, unresolved, failed>>
  PROVE  RunInv'
<1> USE DEF TargetStage, AttemptStage
<1>1. \A t \in Target : (Pending(t)' <=> Pending(t)) /\ (GivenUp(t)' <=> GivenUp(t))
  BY DEF Pending, GivenUp
<1>2. EveryTargetAccounted'
  BY <1>1 DEF RunInv, EveryTargetAccounted, RunTargets
<1>3. QED
  BY <1>2 DEF RunInv, LoopTypes, Stage

LEMMA UpsertCatalogKeeps ==
  ASSUME RunInv, UpsertCatalog
  PROVE  RunInv'
<1> USE DEF TargetStage, AttemptStage
<1>1. /\ pc = "normalized" /\ pc' = "summarize" /\ items' = items \cup {Current}
      /\ UNCHANGED <<selected, todo, pair, idx, unresolved, failed>>
  BY DEF UpsertCatalog
<1>2. /\ pair \in Pair /\ idx \in 1..Filings[pair] /\ pair[1] \in selected
      /\ pair \notin todo
  BY <1>1 DEF RunInv, LoopTypes
<1>3. Current \in Target /\ PairOf(Current) = pair /\ Source(Current) = pair[1]
  BY <1>2, TargetOfPair DEF Current
<1>4. Current[3] = idx /\ idx \in Nat
  BY <1>2, ConfigurationAssumption DEF Current, Pair
<1>5. \A t \in Target : PairOf(t) = pair /\ t[3] = idx => t = Current
  BY TargetParts DEF Current
<1>6. \A t \in Target : t[3] \in Nat
  BY TargetParts, ConfigurationAssumption
<1>7. \A t \in Target : t # Current => (Pending(t)' <=> Pending(t))
  BY <1>1, <1>2, <1>4, <1>5, <1>6 DEF Pending
<1>8. \A t \in Target : t = Current => Pending(t) /\ ~Pending(t)'
  BY <1>1, <1>2, <1>3, <1>4 DEF Pending
<1>9. EveryTargetAccounted'
  <2> SUFFICES ASSUME NEW t \in Target, Source(t) \in selected
               PROVE  /\ Pending(t)' \/ t \in items' \/ GivenUp(t)
                      /\ ~(Pending(t)' /\ t \in items')
                      /\ ~(Pending(t)' /\ GivenUp(t))
                      /\ ~(t \in items' /\ GivenUp(t))
    BY <1>1 DEF EveryTargetAccounted, RunTargets, GivenUp
  <2>1. /\ Pending(t) \/ t \in items \/ GivenUp(t)
        /\ ~(Pending(t) /\ t \in items)
        /\ ~(Pending(t) /\ GivenUp(t))
        /\ ~(t \in items /\ GivenUp(t))
    BY <1>1 DEF RunInv, EveryTargetAccounted, RunTargets
  <2>2. CASE t = Current
    BY <1>1, <1>8, <2>1, <2>2
  <2>3. CASE t # Current
    BY <1>1, <1>7, <2>1, <2>3
  <2>4. QED
    BY <2>2, <2>3
<1>10. LoopTypes'
  BY <1>1, <1>2, <1>3 DEF RunInv, LoopTypes, Stage
<1>11. QED
  BY <1>1, <1>2, <1>3, <1>9, <1>10 DEF RunInv, Current

\* Leaving a target changes the outcome of no other one.
LEMMA LeaveTargetOpen ==
  ASSUME RunInv, pc \in TargetStage, LeaveTarget, UNCHANGED todo
  PROVE  /\ \A t \in Target : t # Current => (Pending(t)' <=> Pending(t))
         /\ \A t \in Target : t = Current => ~Pending(t)'
         /\ pair' = pair
         /\ pc' \in {"fetch", "pairs"}
         /\ pc' = "fetch" => idx' \in 1..Filings[pair]
<1> USE DEF TargetStage, AttemptStage
<1>1. /\ pair \in Pair /\ idx \in 1..Filings[pair] /\ pair \notin todo
      /\ Filings[pair] \in Nat
  BY ConfigurationAssumption DEF RunInv, LoopTypes, Pair
<1>2. \A t \in Target : /\ t[3] \in Nat
                        /\ PairOf(t) = pair => t[3] <= Filings[pair]
                        /\ PairOf(t) = pair /\ t[3] = idx => t = Current
  BY <1>1, TargetParts, ConfigurationAssumption DEF Current
<1>3. PairOf(Current) = pair /\ Current[3] = idx
  BY <1>1, TargetOfPair DEF Current
<1>4. CASE HasNextTarget
  <2>1. idx' = idx + 1 /\ pc' = "fetch" /\ pair' = pair /\ idx < Filings[pair]
    BY <1>4 DEF LeaveTarget, HasNextTarget
  <2>2. \A t \in Target : Pending(t)' <=> PairOf(t) \in todo \/ (PairOf(t) = pair /\ idx < t[3])
    BY <1>1, <1>2, <2>1 DEF Pending
  <2>3. QED
    BY <1>1, <1>2, <1>3, <2>1, <2>2 DEF Pending
<1>5. CASE ~HasNextTarget
  <2>1. pc' = "pairs" /\ pair' = pair /\ idx = Filings[pair]
    BY <1>1, <1>5 DEF LeaveTarget, HasNextTarget
  <2>2. \A t \in Target : Pending(t)' <=> PairOf(t) \in todo
    BY <2>1 DEF Pending
  <2>3. QED
    BY <1>1, <1>2, <1>3, <2>1, <2>2 DEF Pending
<1>6. QED
  BY <1>4, <1>5

LEMMA DeadLetterTargetKeeps ==
  ASSUME RunInv, DeadLetterTarget
  PROVE  RunInv'
<1>1. /\ pc \in AttemptStage /\ pc \in TargetStage /\ pc \notin {"summarize", "events"}
      /\ failed' = failed \cup {Current}
      /\ LeaveTarget /\ UNCHANGED <<selected, todo, items, unresolved>>
  BY DEF DeadLetterTarget, TargetStage, AttemptStage
<1>2. /\ pair \in Pair /\ idx \in 1..Filings[pair] /\ pair[1] \in selected
      /\ pair \notin todo /\ pair \notin unresolved
  BY <1>1 DEF RunInv, LoopTypes
<1>3. Current \in Target /\ PairOf(Current) = pair /\ Current[3] = idx /\ idx \in Nat
  BY <1>2, TargetOfPair, ConfigurationAssumption DEF Current, Pair
<1>4. Pending(Current) /\ Current \in RunTargets
  BY <1>1, <1>2, <1>3, TargetOfPair DEF Pending, RunTargets, Current
<1>5. EveryTargetAccounted'
  <2> SUFFICES ASSUME NEW t \in Target, Source(t) \in selected
               PROVE  /\ Pending(t)' \/ t \in items \/ GivenUp(t)'
                      /\ ~(Pending(t)' /\ t \in items)
                      /\ ~(Pending(t)' /\ GivenUp(t)')
                      /\ ~(t \in items /\ GivenUp(t)')
    BY <1>1 DEF EveryTargetAccounted, RunTargets
  <2>1. /\ Pending(t) \/ t \in items \/ GivenUp(t)
        /\ ~(Pending(t) /\ t \in items)
        /\ ~(Pending(t) /\ GivenUp(t))
        /\ ~(t \in items /\ GivenUp(t))
    BY <1>1 DEF RunInv, EveryTargetAccounted, RunTargets, TargetStage, AttemptStage
  <2>2. CASE t = Current
    <3>1. ~Pending(t)' /\ GivenUp(t)'
      BY <1>1, <2>2, LeaveTargetOpen DEF GivenUp
    <3>2. t \notin items
      BY <1>4, <2>1, <2>2
    <3>3. QED
      BY <3>1, <3>2
  <2>3. CASE t # Current
    <3>1. (Pending(t)' <=> Pending(t)) /\ (GivenUp(t)' <=> GivenUp(t))
      BY <1>1, <2>3, LeaveTargetOpen DEF GivenUp
    <3>2. QED
      BY <2>1, <3>1
  <2>4. QED
    BY <2>2, <2>3
<1>6. QED
  BY <1>1, <1>2, <1>3, <1>5, LeaveTargetOpen
  DEF RunInv, LoopTypes, Stage, TargetStage, AttemptStage

LEMMA SaveSummaryKeeps ==
  ASSUME RunInv, SaveSummary
  PROVE  RunInv'
<1>1. /\ pc = "summarize" /\ pc' = "events"
      /\ UNCHANGED <<selected, todo, pair, idx, items, unresolved, failed>>
  BY DEF SaveSummary, run, loop, report
<1>2. \A t \in Target : (Pending(t)' <=> Pending(t)) /\ (GivenUp(t)' <=> GivenUp(t))
  BY <1>1 DEF Pending, GivenUp, TargetStage, AttemptStage
<1>3. EveryTargetAccounted'
  BY <1>1, <1>2 DEF RunInv, EveryTargetAccounted, RunTargets
<1>4. QED
  BY <1>1, <1>3 DEF RunInv, LoopTypes, Stage, TargetStage, AttemptStage, Current

LEMMA ReplaceEventsKeeps ==
  ASSUME RunInv, ReplaceEvents
  PROVE  RunInv'
<1>1. /\ pc = "events" /\ pc \in TargetStage /\ pc \notin AttemptStage
      /\ LeaveTarget /\ UNCHANGED <<selected, todo, items, unresolved, failed>>
  BY DEF ReplaceEvents, report, TargetStage, AttemptStage
<1>2. /\ pair \in Pair /\ idx \in 1..Filings[pair] /\ idx \in Nat
      /\ pair \notin todo /\ pair \notin unresolved /\ pair[1] \in selected
      /\ Current \in items
  BY <1>1, ConfigurationAssumption DEF RunInv, LoopTypes, Pair
<1>3. \A t \in Target : (Pending(t)' <=> Pending(t)) /\ (GivenUp(t)' <=> GivenUp(t))
  <2>1. ~Pending(Current)
    BY <1>1, <1>2, TargetOfPair DEF Pending, Current
  <2>2. QED
    BY <1>1, <2>1, LeaveTargetOpen DEF GivenUp
<1>4. EveryTargetAccounted'
  BY <1>1, <1>3 DEF RunInv, EveryTargetAccounted, RunTargets
<1>5. QED
  BY <1>1, <1>2, <1>4, LeaveTargetOpen
  DEF RunInv, LoopTypes, Stage, TargetStage, AttemptStage

\* The stages after the loops read and write no loop state.
LEMMA PersistKeeps ==
  ASSUME RunInv, pc \in Stage \ (TargetStage \cup {"idle"}), todo = {},
         pc' \in Stage \ (TargetStage \cup {"idle", "pairs"}),
         UNCHANGED <<selected, todo, pair, idx, items, unresolved, failed>>
  PROVE  RunInv'
<1>1. \A t \in Target : (Pending(t)' <=> Pending(t)) /\ (GivenUp(t)' <=> GivenUp(t))
  BY DEF Pending, GivenUp, TargetStage
<1>2. EveryTargetAccounted'
  BY <1>1 DEF RunInv, EveryTargetAccounted, RunTargets
<1>3. QED
  BY <1>2 DEF RunInv, LoopTypes, TargetStage, AttemptStage

LEMMA ExitKeeps == Exit => RunInv'
BY DEF Exit, RunInv, LoopTypes, Stage, TargetStage, AttemptStage, EveryTargetAccounted, Source

-----------------------------------------------------------------------------
\* RunInv holds in every state of every behaviour.
LEMMA NextKeepsRunInv == RunInv /\ [Next]_vars => RunInv'
<1> SUFFICES ASSUME RunInv, [Next]_vars PROVE RunInv'
  OBVIOUS
<1>1. CASE UNCHANGED vars
  BY <1>1, RunInvUnchanged DEF vars, run, loop, report, runInvVars
<1>2. CASE Day
  BY <1>2, RunInvUnchanged DEF Day, loop, report, runInvVars
<1>3. CASE \E t \in Target : Publish(t)
  BY <1>3, RunInvUnchanged DEF Publish, run, loop, report, runInvVars
<1>4. CASE \E m \in Modes : StartRun(m)
  BY <1>4, StartRunKeeps
<1>5. CASE \E p \in Pair : ResolveTargets(p)
  BY <1>5, ResolveTargetsKeeps
<1>6. CASE \E p \in Pair : ResolveFails(p)
  BY <1>6, ResolveFailsKeeps
<1>7. CASE Fetch
  BY <1>7, AttemptKeeps DEF Fetch, report, AttemptStage
<1>8. CASE ProjectGraph
  BY <1>8, AttemptKeeps DEF ProjectGraph, loop, report, AttemptStage
<1>9. CASE SaveNormalized
  BY <1>9, AttemptKeeps DEF SaveNormalized, run, loop, report, AttemptStage
<1>10. CASE RetryAttempt
  BY <1>10, AttemptKeeps DEF RetryAttempt, report, AttemptStage
<1>11. CASE UpsertCatalog
  BY <1>11, UpsertCatalogKeeps
<1>12. CASE DeadLetterTarget
  BY <1>12, DeadLetterTargetKeeps
<1>13. CASE SaveSummary
  BY <1>13, SaveSummaryKeeps
<1>14. CASE ReplaceEvents
  BY <1>14, ReplaceEventsKeeps
<1>15. CASE FinishPairs
  BY <1>15, PersistKeeps
  DEF FinishPairs, run, loop, report, Stage, TargetStage, AttemptStage
<1>16. CASE TruncateSnapshot \/ WriteSnapshot \/ SaveStatus
  <2>1. todo = {}
    BY <1>16 DEF RunInv, TruncateSnapshot, WriteSnapshot, SaveStatus, TargetStage, AttemptStage
  <2>2. QED
    BY <1>16, <2>1, PersistKeeps
    DEF TruncateSnapshot, WriteSnapshot, SaveStatus, run, loop, report, Stage, TargetStage,
        AttemptStage
<1>17. CASE \E s \in Known : RecordRun(s)
  BY <1>17, RunInvUnchanged DEF RecordRun, loop, report, runInvVars
<1>18. CASE FinishRun \/ Abort \/ Kill
  BY <1>18, ExitKeeps DEF FinishRun, Abort, Kill
<1>19. QED
  BY <1>1, <1>2, <1>3, <1>4, <1>5, <1>6, <1>7, <1>8, <1>9, <1>10, <1>11, <1>12,
     <1>13, <1>14, <1>15, <1>16, <1>17, <1>18
  DEF Next, Step

THEOREM RunInvariant == Spec => []RunInv
BY InitRunInv, NextKeepsRunInv, PTL DEF Spec

\* No target of a run is lost and none is settled twice, in every
\* configuration and however failures, aborts and kills fall.
THEOREM Accounting == Spec => []EveryTargetAccounted
<1>1. RunInv => EveryTargetAccounted
  BY DEF RunInv
<1>2. QED
  BY RunInvariant, <1>1, PTL
-----------------------------------------------------------------------------
(* Refinement *)

LEMMA InitRefines == Init => Promise!Init
BY DEF Init, Promise!Init, RunPhase, PendingTargets, GivenUpTargets, RunTargets, Source

LEMMA SameOutcomes ==
  ASSUME UNCHANGED <<selected, items>>,
         \A t \in Target : (Pending(t)' <=> Pending(t)) /\ (GivenUp(t)' <=> GivenUp(t))
  PROVE  UNCHANGED <<PendingTargets, items, GivenUpTargets>>
BY DEF PendingTargets, GivenUpTargets, RunTargets

\* A step that leaves the loop state alone stutters or moves the phase.
LEMMA SameLoops ==
  ASSUME UNCHANGED <<selected, todo, pair, idx, items, unresolved, failed>>,
         pc' = pc \/ (pc \notin TargetStage /\ pc' \notin TargetStage)
                  \/ (pc \in AttemptStage /\ pc' \in AttemptStage)
                  \/ (pc = "summarize" /\ pc' = "events")
  PROVE  UNCHANGED <<PendingTargets, items, GivenUpTargets>>
<1>1. \A t \in Target : (Pending(t)' <=> Pending(t)) /\ (GivenUp(t)' <=> GivenUp(t))
  BY DEF Pending, GivenUp, TargetStage, AttemptStage
<1>2. QED
  BY <1>1, SameOutcomes

LEMMA StartRunRefines ==
  ASSUME RunInv, NEW m \in Modes, StartRun(m)
  PROVE  Promise!Begin
<1>1. /\ pc = "idle" /\ pc' = "pairs" /\ items' = {} /\ failed' = {} /\ unresolved' = {}
  BY DEF StartRun
<1>2. items = {} /\ failed = {} /\ unresolved = {}
  BY <1>1 DEF RunInv
<1>3. GivenUpTargets = {} /\ GivenUpTargets' = {}
  BY <1>1, <1>2 DEF GivenUpTargets, GivenUp
<1>4. PendingTargets' \in SUBSET Target
  BY DEF PendingTargets, RunTargets
<1>5. QED
  BY <1>1, <1>2, <1>3, <1>4 DEF Promise!Begin, RunPhase

LEMMA ResolveFailsRefines ==
  ASSUME RunInv, NEW p \in Pair, ResolveFails(p)
  PROVE  (\E T \in SUBSET Target : Promise!GiveUp(T)) \/ UNCHANGED Promise!vars
<1> DEFINE T == {t \in RunTargets : PairOf(t) = p}
<1>1. /\ pc = "pairs" /\ p \in todo /\ todo' = todo \ {p}
      /\ unresolved' = unresolved \cup {p}
      /\ UNCHANGED <<pc, pair, idx, selected, items, failed>>
  BY DEF ResolveFails
<1>2. T \subseteq PendingTargets /\ T \in SUBSET Target
  BY <1>1 DEF PendingTargets, Pending, RunTargets
<1>3. PendingTargets' = PendingTargets \ T
  BY <1>1 DEF PendingTargets, Pending, RunTargets, TargetStage, AttemptStage
<1>4. GivenUpTargets' = GivenUpTargets \cup T
  BY <1>1 DEF GivenUpTargets, GivenUp, RunTargets
<1>5. RunPhase = "running" /\ RunPhase' = RunPhase /\ items' = items
  BY <1>1 DEF RunPhase
<1>6. CASE T = {}
  BY <1>3, <1>4, <1>5, <1>6 DEF Promise!vars
<1>7. CASE T # {}
  <2>1. Promise!GiveUp(T)
    BY <1>2, <1>3, <1>4, <1>5, <1>7 DEF Promise!GiveUp
  <2>2. QED
    BY <1>2, <2>1
<1>8. QED
  BY <1>6, <1>7

LEMMA UpsertCatalogRefines ==
  ASSUME RunInv, RunInv', UpsertCatalog
  PROVE  \E t \in Target : Promise!Ingest(t)
<1>1. /\ pc = "normalized" /\ pc' = "summarize" /\ items' = items \cup {Current}
      /\ UNCHANGED <<selected, todo, pair, idx, unresolved, failed>>
  BY DEF UpsertCatalog
<1>2. /\ pair \in Pair /\ idx \in 1..Filings[pair] /\ pair[1] \in selected
      /\ pair \notin todo
  BY <1>1 DEF RunInv, LoopTypes, TargetStage, AttemptStage
<1>3. /\ Current \in Target /\ PairOf(Current) = pair /\ Current[3] = idx /\ idx \in Nat
      /\ Source(Current) = pair[1]
  BY <1>2, TargetOfPair, ConfigurationAssumption DEF Current, Pair
<1>4. \A t \in Target : t[3] \in Nat /\ (PairOf(t) = pair /\ t[3] = idx => t = Current)
  BY TargetParts, ConfigurationAssumption DEF Current
<1>5. Current \in PendingTargets
  BY <1>1, <1>2, <1>3 DEF PendingTargets, Pending, RunTargets, AttemptStage
<1>6. PendingTargets' = PendingTargets \ {Current}
  BY <1>1, <1>2, <1>3, <1>4 DEF PendingTargets, Pending, RunTargets, TargetStage, AttemptStage
<1>7. UNCHANGED GivenUpTargets
  BY <1>1 DEF GivenUpTargets, GivenUp, RunTargets
<1>8. RunPhase = "running" /\ RunPhase' = "running"
  BY <1>1 DEF RunPhase
<1>9. Promise!Ingest(Current)
  BY <1>1, <1>5, <1>6, <1>7, <1>8 DEF Promise!Ingest
<1>10. QED
  BY <1>3, <1>9

LEMMA DeadLetterTargetRefines ==
  ASSUME RunInv, RunInv', DeadLetterTarget
  PROVE  \E T \in SUBSET Target : Promise!GiveUp(T)
<1>1. /\ pc \in AttemptStage /\ pc \in TargetStage
      /\ failed' = failed \cup {Current}
      /\ LeaveTarget /\ UNCHANGED <<selected, todo, items, unresolved>>
  BY DEF DeadLetterTarget, TargetStage, AttemptStage
<1>2. /\ pair \in Pair /\ idx \in 1..Filings[pair] /\ pair[1] \in selected
  BY <1>1 DEF RunInv, LoopTypes
<1>3. Current \in Target /\ Current \in RunTargets /\ Pending(Current)
  BY <1>1, <1>2, TargetOfPair, ConfigurationAssumption
  DEF Current, Pair, RunTargets, Pending
<1>4. PendingTargets' = PendingTargets \ {Current}
  BY <1>1, <1>3, LeaveTargetOpen DEF PendingTargets, RunTargets
<1>5. GivenUpTargets' = GivenUpTargets \cup {Current}
  BY <1>1, <1>3 DEF GivenUpTargets, GivenUp, RunTargets
<1>6. RunPhase = "running" /\ RunPhase' = "running"
  BY <1>1, LeaveTargetOpen DEF RunPhase, AttemptStage
<1>7. {Current} \subseteq PendingTargets
  BY <1>3 DEF PendingTargets
<1>8. Promise!GiveUp({Current})
  BY <1>1, <1>4, <1>5, <1>6, <1>7 DEF Promise!GiveUp
<1>9. QED
  BY <1>3, <1>8

LEMMA ExitRefines == Exit /\ pc # "idle" => Promise!End
<1> SUFFICES ASSUME Exit, pc # "idle" PROVE Promise!End
  OBVIOUS
<1>1. /\ pc' = "idle" /\ selected' = {} /\ items' = {}
  BY DEF Exit
<1>2. PendingTargets' = {} /\ GivenUpTargets' = {}
  BY <1>1 DEF PendingTargets, GivenUpTargets, RunTargets
<1>3. QED
  BY <1>1, <1>2 DEF Promise!End, RunPhase

LEMMA NextRefines == RunInv /\ RunInv' /\ [Next]_vars => [Promise!Next]_(Promise!vars)
<1> SUFFICES ASSUME RunInv, RunInv', [Next]_vars PROVE [Promise!Next]_(Promise!vars)
  OBVIOUS
<1> USE DEF TargetStage, AttemptStage
<1>1. CASE UNCHANGED vars
  BY <1>1, SameLoops DEF vars, run, loop, report, Promise!vars, RunPhase
<1>2. CASE Day
  BY <1>2, SameLoops DEF Day, loop, report, Promise!vars, RunPhase
<1>3. CASE \E t \in Target : Publish(t)
  BY <1>3, SameLoops DEF Publish, run, loop, report, Promise!vars, RunPhase
<1>4. CASE \E m \in Modes : StartRun(m)
  BY <1>4, StartRunRefines DEF Promise!Next
<1>5. CASE \E p \in Pair : ResolveTargets(p)
  <2>1. PICK p \in Pair : ResolveTargets(p)
    BY <1>5
  <2>2. /\ pc = "pairs" /\ p \in todo /\ todo' = todo \ {p} /\ pair' = p /\ idx' = 1
        /\ pc' = IF Filings[p] = 0 THEN "pairs" ELSE "fetch"
        /\ UNCHANGED <<selected, items, unresolved, failed>>
    BY <2>1 DEF ResolveTargets, report
  <2>3. Filings[p] \in Nat
    BY ConfigurationAssumption DEF Pair
  <2>4. \A t \in Target : PairOf(t) = p => t[3] \in Nat /\ 1 <= t[3] /\ Filings[p] # 0
    BY TargetParts, <2>3
  <2>5. \A t \in Target : (Pending(t)' <=> Pending(t)) /\ (GivenUp(t)' <=> GivenUp(t))
    BY <2>2, <2>3, <2>4 DEF Pending, GivenUp
  <2>6. QED
    BY <2>2, <2>5, SameOutcomes DEF Promise!vars, RunPhase
<1>6. CASE \E p \in Pair : ResolveFails(p)
  BY <1>6, ResolveFailsRefines DEF Promise!Next
<1>7. CASE Fetch \/ ProjectGraph \/ SaveNormalized \/ RetryAttempt
  <2>1. /\ pc \in AttemptStage /\ pc' \in AttemptStage
        /\ UNCHANGED <<selected, todo, pair, idx, items, unresolved, failed>>
    BY <1>7 DEF Fetch, ProjectGraph, SaveNormalized, RetryAttempt, run, loop, report
  <2>2. QED
    BY <2>1, SameLoops DEF Promise!vars, RunPhase
<1>8. CASE UpsertCatalog
  BY <1>8, UpsertCatalogRefines DEF Promise!Next
<1>9. CASE DeadLetterTarget
  BY <1>9, DeadLetterTargetRefines DEF Promise!Next
<1>10. CASE SaveSummary
  BY <1>10, SameLoops DEF SaveSummary, run, loop, report, Promise!vars, RunPhase
<1>11. CASE ReplaceEvents
  <2>1. /\ pc = "events" /\ LeaveTarget
        /\ UNCHANGED <<selected, todo, items, unresolved, failed>>
    BY <1>11 DEF ReplaceEvents, report
  <2>2. pair \in Pair /\ idx \in 1..Filings[pair] /\ idx \in Nat /\ pair \notin todo
    BY <2>1, ConfigurationAssumption DEF RunInv, LoopTypes, Pair
  <2>3. ~Pending(Current)
    BY <2>1, <2>2, TargetOfPair DEF Pending, Current
  <2>4. \A t \in Target : (Pending(t)' <=> Pending(t)) /\ (GivenUp(t)' <=> GivenUp(t))
    BY <2>1, <2>3, LeaveTargetOpen DEF GivenUp
  <2>5. RunPhase' = RunPhase
    BY <2>1, LeaveTargetOpen DEF RunPhase
  <2>6. QED
    BY <2>1, <2>4, <2>5, SameOutcomes DEF Promise!vars
<1>12. CASE FinishPairs \/ TruncateSnapshot
  BY <1>12, SameLoops
  DEF FinishPairs, TruncateSnapshot, run, loop, report, Promise!vars, RunPhase
<1>13. CASE WriteSnapshot
  <2>1. UNCHANGED <<PendingTargets, items, GivenUpTargets>>
    BY <1>13, SameLoops DEF WriteSnapshot, run, loop, report
  <2>2. PendingTargets = {}
    BY <1>13 DEF RunInv, WriteSnapshot, PendingTargets, Pending
  <2>3. Promise!Persist
    BY <1>13, <2>1, <2>2 DEF Promise!Persist, WriteSnapshot, RunPhase
  <2>4. QED
    BY <2>3 DEF Promise!Next
<1>14. CASE SaveStatus \/ \E s \in Known : RecordRun(s)
  BY <1>14, SameLoops DEF SaveStatus, RecordRun, loop, report, Promise!vars, RunPhase
<1>15. CASE FinishRun \/ Abort \/ Kill
  BY <1>15, ExitRefines DEF FinishRun, Abort, Kill, Promise!Next
<1>16. QED
  BY <1>1, <1>2, <1>3, <1>4, <1>5, <1>6, <1>7, <1>8, <1>9, <1>10, <1>11, <1>12,
     <1>13, <1>14, <1>15
  DEF Next, Step

\* The orchestrator with its loops, retries and failures implements the
\* abstract run: start, settle each target once, persist when none is open.
THEOREM Refinement == Spec => KeepsPromise
<1>1. Spec => Promise!Init /\ [][Promise!Next]_(Promise!vars)
  BY InitRefines, NextRefines, RunInvariant, PTL DEF Spec
<1>2. QED
  BY <1>1 DEF KeepsPromise, Promise!Spec

-----------------------------------------------------------------------------
(* The stores. Every change set compares two documents the catalog held, a  *)
(* due run takes no projection back, a source recorded as run is stored     *)
(* everywhere, and what only due runs leave half-written is due or          *)
(* dead-lettered.                                                           *)

\* No store is ahead of the publisher.
Texts ==
  \A t \in Target : /\ catalog[t] <= content[t]
                    /\ graph[t] <= content[t]
                    /\ snapshot[t] <= content[t]

\* From its fetch on, the text under way is at least as new as what the
\* catalog and the graph have of its target; and it is in the stores the
\* attempt has come past.
FetchedText ==
  /\ pc \in {"fetched", "projected", "normalized", "summarize", "events"} =>
       /\ fetched \in 1..content[Current]
       /\ catalog[Current] <= fetched /\ graph[Current] <= fetched
  /\ pc \in {"projected", "normalized"} => graph[Current] = fetched
  /\ pc = "normalized" => normalized[Current] = fetched

Doc(i) == <<pair[1], pair[2], i>>

\* The periods ingested of a pair are in order, up to the target under way,
\* and in the catalog.
DocsKnown ==
  pc \in TargetStage =>
    \A i \in 1..Len(docs) :
      /\ docs[i] \in 1..idx
      /\ pc \in AttemptStage => docs[i] < idx
      /\ catalog[Doc(docs[i])] # 0
      /\ \A j \in 1..Len(docs) : i < j => docs[i] < docs[j]

\* The graph in the memory of a due run has what the snapshot has, or newer.
Layered ==
  mode = "due" /\ pc # "idle" => \A t \in Target : snapshot[t] <= graph[t]

BeingStored(t) == pc \in {"summarize", "events"} /\ t = Current

\* An item of the report is in every store but the snapshot, unless the loop
\* is still at it; what the report is saved with is in the snapshot too.
ItemsStored ==
  /\ \A t \in items :
       /\ normalized[t] = catalog[t] /\ graph[t] = catalog[t]
       /\ BeingStored(t) => catalog[t] = fetched
       /\ BeingStored(t) /\ pc = "events" => summaries[t] = fetched
       /\ ~BeingStored(t) => summaries[t] = catalog[t] /\ events[t] = catalog[t]
  /\ pc \in {"status", "record"} => torn = FALSE /\ snapshot = graph

StoreInv ==
  /\ TypeOK
  /\ Texts /\ FetchedText /\ DocsKnown /\ ChangeSetsGrounded
  /\ Layered /\ ItemsStored

-----------------------------------------------------------------------------
(* Facts about the loop's position *)

LEMMA FilingsType == \A p \in Pair : Filings[p] \in 0..MaxFilings
BY ConfigurationAssumption DEF Pair

LEMMA PositionTypes ==
  ASSUME RunInv, pc \in TargetStage
  PROVE  /\ pair \in Pair /\ idx \in 1..Filings[pair] /\ idx \in 1..MaxFilings
         /\ Current \in Target /\ Current[3] = idx /\ PairOf(Current) = pair
         /\ Source(Current) \in selected
         /\ \A i \in 1..idx : Doc(i) \in Target /\ Doc(i)[3] = i
<1>1. pair \in Pair /\ idx \in 1..Filings[pair] /\ pair[1] \in selected
  BY DEF RunInv, LoopTypes
<1>2. Filings[pair] \in 0..MaxFilings /\ MaxFilings \in Nat
  BY <1>1, FilingsType, ConfigurationAssumption
<1>3. idx \in 1..MaxFilings
  BY <1>1, <1>2
<1>4. \A i \in 1..idx : Doc(i) \in Target /\ Doc(i)[3] = i
  BY <1>1, <1>2, TargetOfPair DEF Doc
<1>5. Current \in Target /\ PairOf(Current) = pair /\ Source(Current) = pair[1]
  BY <1>1, TargetOfPair DEF Current
<1>6. QED
  BY <1>1, <1>3, <1>4, <1>5 DEF Current

\* A target an attempt is at is not an item yet.
LEMMA AttemptedIsNoItem ==
  ASSUME RunInv, pc \in AttemptStage
  PROVE  Current \notin items
<1>1. pc \in TargetStage /\ pc # "idle"
  BY DEF TargetStage, AttemptStage
<1>2. /\ Current \in RunTargets /\ Current[3] = idx /\ idx \in Nat
      /\ PairOf(Current) = pair
  BY <1>1, PositionTypes DEF RunTargets
<1>3. Pending(Current)
  BY <1>2 DEF Pending
<1>4. QED
  BY <1>1, <1>2, <1>3 DEF RunInv, EveryTargetAccounted

LEMMA VersionTypes ==
  /\ \A v \in Version : v \in Nat /\ v # 0 /\ v \in Stored
  /\ \A v \in Stored : v \in Nat /\ (v # 0 => v \in Version)
  /\ 0 \in Stored /\ 1 \in Version
BY ConfigurationAssumption DEF Version, Stored

LEMMA StoreTypes ==
  ASSUME TypeOK, NEW t \in Target
  PROVE  /\ content[t] \in Version /\ content[t] \in Nat
         /\ normalized[t] \in Nat /\ catalog[t] \in Nat /\ summaries[t] \in Nat
         /\ events[t] \in Nat /\ snapshot[t] \in Nat /\ graph[t] \in Nat
BY VersionTypes DEF TypeOK

LEMMA InitStoreInv == Init => StoreInv
<1> SUFFICES ASSUME Init PROVE StoreInv
  OBVIOUS
<1> USE ConfigurationAssumption DEF Init
<1>1. TypeOK
  <2>1. /\ docs \in Seq(1..MaxFilings) /\ pc \in Stage
        /\ pair \in Pair \cup {NoPair} /\ idx \in Nat \ {0}
        /\ attempt \in 1..MaxAttempts /\ fetched \in Stored
    BY DEF Stage, Stored
  <2>2. changeSets \in [Target -> ChangeSet]
    BY DEF ChangeSet, Stored
  <2>3. \A s \in Known : age[s] \in 0..Cadence[s]
    OBVIOUS
  <2>4. content \in [Target -> Version] /\ NoDocuments \in [Target -> Stored]
    BY DEF NoDocuments, Stored, Version
  <2>5. torn \in BOOLEAN
    OBVIOUS
  <2>6. faults \in 0..FaultBudget
    OBVIOUS
  <2>7. QED
    BY <2>1, <2>2, <2>3, <2>4, <2>5, <2>6 DEF TypeOK
<1>2. Texts /\ FetchedText /\ Layered /\ ItemsStored
  BY DEF Texts, FetchedText, Layered, ItemsStored, NoDocuments
<1>3. DocsKnown /\ ChangeSetsGrounded
  BY DEF DocsKnown, ChangeSetsGrounded, TargetStage, AttemptStage
<1>4. QED
  BY <1>1, <1>2, <1>3 DEF StoreInv

-----------------------------------------------------------------------------
(* One lemma per action or kind of action *)

LEMMA DayStores ==
  ASSUME StoreInv, Day
  PROVE  StoreInv'
<1>1. TypeOK'
  <2>1. \A s \in Known : age'[s] \in 0..Cadence'[s]
    BY ConfigurationAssumption DEF StoreInv, TypeOK, Day, IsDue
  <2>2. elapsed' \in Nat
    BY DEF StoreInv, TypeOK, Day
  <2>3. QED
    BY <2>1, <2>2 DEF StoreInv, TypeOK, Day, loop, report
<1>2. QED
  BY <1>1 DEF StoreInv, Texts, FetchedText, DocsKnown, ChangeSetsGrounded, Layered,
              ItemsStored, BeingStored, Day, loop, report, Current, Doc

LEMMA PublishStores ==
  ASSUME RunInv, StoreInv, NEW t \in Target, Publish(t)
  PROVE  StoreInv'
<1>1. /\ content \in [Target -> Version] /\ MaxVersion \in Nat
      /\ content' = [content EXCEPT ![t] = @ + 1] /\ content[t] < MaxVersion
      /\ UNCHANGED <<stores, pc, run, faults>>
  BY ConfigurationAssumption DEF StoreInv, TypeOK, Publish
<1>2. content' \in [Target -> Version] /\ \A u \in Target : content[u] <= content'[u]
  BY <1>1 DEF Version
<1>3. TypeOK'
  BY <1>1, <1>2 DEF StoreInv, TypeOK, stores, run, loop, report
<1>4. Texts'
  BY <1>1, <1>2 DEF StoreInv, TypeOK, Texts, stores, run, Stored, Version
<1>5. FetchedText'
  <2>1. /\ \A u \in Target : content[u] \in Nat /\ content'[u] \in Nat
        /\ fetched \in Nat
    BY <1>2, <1>3, VersionTypes DEF StoreInv, TypeOK
  <2>2. UNCHANGED <<pc, Current, fetched, catalog, graph, normalized>>
    BY <1>1 DEF stores, run, loop, Current
  <2>3. pc \in TargetStage => Current \in Target
    BY PositionTypes
  <2>4. pc \in {"fetched", "projected", "normalized", "summarize", "events"} =>
          content[Current] \in Nat /\ content'[Current] \in Nat
          /\ content[Current] <= content'[Current]
    BY <1>2, <2>1, <2>3 DEF TargetStage, AttemptStage
  <2>5. QED
    BY <2>1, <2>2, <2>4 DEF StoreInv, FetchedText
<1>6. QED
  BY <1>1, <1>3, <1>4, <1>5
  DEF StoreInv, DocsKnown, ChangeSetsGrounded, Layered, ItemsStored, BeingStored,
      stores, run, loop, report, Current, Doc

LEMMA StartRunStores ==
  ASSUME StoreInv, NEW m \in Modes, StartRun(m)
  PROVE  StoreInv'
<1>1. /\ pc' = "pairs" /\ mode' = m /\ graph' = BaseGraph(m) /\ items' = {}
      /\ UNCHANGED <<content, stores, pair, idx, attempt, fetched, docs, faults>>
  BY DEF StartRun
<1>2. TypeOK'
  <2>1. graph' \in [Target -> Stored]
    BY <1>1, VersionTypes DEF StoreInv, TypeOK, BaseGraph, NoDocuments
  <2>2. selected' \subseteq Sources /\ unknown' \subseteq Sources /\ todo' \subseteq Pair
    BY ConfigurationAssumption DEF StartRun, SelectedSources, DueSources, Pair
  <2>3. /\ mode' \in {"due", "full"} /\ elapsed' \in Nat /\ pc' \in Stage
        /\ failed' \subseteq Target /\ unresolved' \subseteq Pair /\ toRecord' \subseteq Known
        /\ items' \subseteq Target
    BY <1>1, ConfigurationAssumption DEF StartRun, Stage
  <2>4. QED
    BY <1>1, <2>1, <2>2, <2>3 DEF StoreInv, TypeOK, stores
<1>3. Texts'
  <2>1. \A t \in Target : graph'[t] = 0 \/ graph'[t] = snapshot[t]
    BY <1>1 DEF BaseGraph, NoDocuments
  <2>2. \A t \in Target : graph'[t] <= content[t]
    BY <2>1, StoreTypes DEF StoreInv, Texts
  <2>3. QED
    BY <1>1, <2>2 DEF StoreInv, Texts, stores
<1>4. Layered'
  <2>1. m = "due" => graph' = snapshot
    BY <1>1 DEF BaseGraph
  <2>2. QED
    BY <1>1, <2>1, StoreTypes DEF StoreInv, Layered, stores
<1>5. ChangeSetsGrounded'
  BY <1>1 DEF StoreInv, ChangeSetsGrounded, stores
<1>6. FetchedText' /\ DocsKnown' /\ ItemsStored'
  BY <1>1 DEF FetchedText, DocsKnown, ItemsStored, TargetStage, AttemptStage
<1>7. QED
  BY <1>2, <1>3, <1>4, <1>5, <1>6 DEF StoreInv

LEMMA ResolveTargetsStores ==
  ASSUME StoreInv, NEW p \in Pair, ResolveTargets(p)
  PROVE  StoreInv'
<1>1. /\ pc = "pairs" /\ pc' \in {"pairs", "fetch"} /\ pair' = p /\ idx' = 1
      /\ attempt' = 1 /\ docs' = <<>> /\ todo' = todo \ {p}
      /\ UNCHANGED <<content, stores, mode, elapsed, selected, fetched, graph, report,
                     toRecord, faults>>
  BY DEF ResolveTargets
<1>2. TypeOK'
  <2>1. docs' \in Seq(1..MaxFilings) /\ attempt' \in 1..MaxAttempts /\ pc' \in Stage
        /\ idx' \in Nat \ {0}
    BY <1>1, ConfigurationAssumption DEF Stage
  <2>2. QED
    BY <1>1, <2>1 DEF StoreInv, TypeOK, stores, report
<1>3. FetchedText' /\ DocsKnown'
  BY <1>1 DEF FetchedText, DocsKnown
<1>4. ItemsStored'
  BY <1>1 DEF StoreInv, ItemsStored, BeingStored, stores, report
<1>5. QED
  BY <1>1, <1>2, <1>3, <1>4 DEF StoreInv, Texts, ChangeSetsGrounded, Layered, stores

LEMMA ResolveFailsStores ==
  ASSUME StoreInv, NEW p \in Pair, ResolveFails(p)
  PROVE  StoreInv'
<1>1. /\ pc = "pairs" /\ todo' = todo \ {p}
      /\ deadLetters' = deadLetters \cup {p} /\ unresolved' = unresolved \cup {p}
      /\ faults < FaultBudget /\ faults' = faults + 1
      /\ UNCHANGED <<content, normalized, catalog, summaries, events, changeSets,
                 snapshot, torn, age, pc, mode, elapsed, selected, pair, idx,
                 attempt, fetched, docs, graph, items, unknown, failed, toRecord>>
  BY DEF ResolveFails, Fault
<1>2. faults' \in 0..FaultBudget
  BY <1>1, ConfigurationAssumption DEF StoreInv, TypeOK
<1>3. TypeOK'
  BY <1>1, <1>2 DEF StoreInv, TypeOK
<1>4. QED
  BY <1>1, <1>3 DEF StoreInv, Texts, FetchedText, DocsKnown, ChangeSetsGrounded, Layered,
                    ItemsStored, BeingStored, Current, Doc

LEMMA FetchStores ==
  ASSUME RunInv, StoreInv, Fetch
  PROVE  StoreInv'
<1>1. /\ pc = "fetch" /\ pc' = "fetched" /\ fetched' = content[Current]
      /\ UNCHANGED <<content, stores, mode, elapsed, selected, todo, pair, idx,
                     attempt, docs, graph, report, toRecord, faults>>
  BY DEF Fetch
<1>2. Current \in Target /\ Current' = Current
  BY <1>1, PositionTypes DEF TargetStage, AttemptStage, Current
<1>3. content[Current] \in Version /\ content[Current] \in Stored
  BY <1>2, StoreTypes, VersionTypes DEF StoreInv
<1>4. TypeOK'
  <2>1. fetched' \in Stored /\ pc' \in Stage
    BY <1>1, <1>3 DEF Stage
  <2>2. QED
    BY <1>1, <2>1 DEF StoreInv, TypeOK, stores, report
<1>5. FetchedText'
  <2>1. content[Current] \in 1..content[Current]
    BY <1>3, VersionTypes
  <2>2. catalog[Current] <= content[Current] /\ graph[Current] <= content[Current]
    BY <1>2 DEF StoreInv, Texts
  <2>3. UNCHANGED <<content, catalog, graph>>
    BY <1>1 DEF stores
  <2>4. QED
    BY <1>1, <1>2, <2>1, <2>2, <2>3 DEF FetchedText
<1>6. DocsKnown'
  BY <1>1 DEF StoreInv, DocsKnown, stores, TargetStage, AttemptStage, Doc
<1>7. ItemsStored'
  BY <1>1 DEF StoreInv, ItemsStored, BeingStored, stores, report
<1>8. QED
  BY <1>1, <1>4, <1>5, <1>6, <1>7
  DEF StoreInv, Texts, ChangeSetsGrounded, Layered, stores

LEMMA ProjectGraphStores ==
  ASSUME RunInv, StoreInv, ProjectGraph
  PROVE  StoreInv'
<1>1. /\ pc = "fetched" /\ pc' = "projected"
      /\ graph' = [graph EXCEPT ![Current] = fetched]
      /\ UNCHANGED <<content, stores, mode, elapsed, selected, loop, report,
                     toRecord, faults>>
  BY DEF ProjectGraph
<1>2. Current \in Target /\ Current' = Current /\ Current \notin items
  BY <1>1, PositionTypes, AttemptedIsNoItem DEF TargetStage, AttemptStage, Current, loop
<1>3. graph \in [Target -> Stored] /\ fetched \in Stored
  BY DEF StoreInv, TypeOK
<1>4. /\ graph' \in [Target -> Stored] /\ graph'[Current] = fetched
      /\ \A t \in Target : t # Current => graph'[t] = graph[t]
  BY <1>1, <1>2, <1>3
<1>5. /\ fetched \in 1..content[Current] /\ catalog[Current] <= fetched
      /\ graph[Current] <= fetched
  BY <1>1 DEF StoreInv, FetchedText
<1>6. /\ content[Current] \in Nat /\ graph[Current] \in Nat /\ fetched \in Nat
      /\ snapshot[Current] \in Nat
  BY <1>2, <1>3, StoreTypes, VersionTypes DEF StoreInv
<1>7. TypeOK'
  BY <1>1, <1>4 DEF StoreInv, TypeOK, stores, loop, report, Stage
<1>8. Texts'
  BY <1>1, <1>4, <1>5, <1>6 DEF StoreInv, Texts, stores
<1>9. FetchedText'
  BY <1>1, <1>2, <1>4, <1>5, <1>6 DEF FetchedText, stores, loop
<1>10. DocsKnown'
  BY <1>1 DEF StoreInv, DocsKnown, stores, loop, TargetStage, AttemptStage, Doc
<1>11. Layered'
  BY <1>1, <1>2, <1>4, <1>5, <1>6 DEF StoreInv, Layered, stores
<1>12. ItemsStored'
  <2>1. items \subseteq Target
    BY DEF StoreInv, TypeOK
  <2>2. \A t \in items : graph'[t] = graph[t]
    BY <1>2, <1>4, <2>1
  <2>3. QED
    BY <1>1, <2>2 DEF StoreInv, ItemsStored, BeingStored, stores, report
<1>13. QED
  BY <1>1, <1>7, <1>8, <1>9, <1>10, <1>11, <1>12
  DEF StoreInv, ChangeSetsGrounded, stores

LEMMA SaveNormalizedStores ==
  ASSUME RunInv, StoreInv, SaveNormalized
  PROVE  StoreInv'
<1>1. /\ pc = "projected" /\ pc' = "normalized"
      /\ normalized' = [normalized EXCEPT ![Current] = fetched]
      /\ UNCHANGED <<content, catalog, summaries, events, changeSets, deadLetters,
                     snapshot, torn, age, mode, elapsed, selected, todo, pair, idx,
                     attempt, fetched, docs, graph, items, unknown, unresolved, failed,
                     toRecord, faults>>
  BY DEF SaveNormalized, run, loop, report
<1>2. Current \in Target /\ Current' = Current /\ Current \notin items
  BY <1>1, PositionTypes, AttemptedIsNoItem DEF TargetStage, AttemptStage, Current
<1>3. /\ normalized \in [Target -> Stored] /\ fetched \in Stored /\ items \subseteq Target
  BY DEF StoreInv, TypeOK
<1>4. /\ normalized' \in [Target -> Stored] /\ normalized'[Current] = fetched
      /\ \A t \in items : normalized'[t] = normalized[t]
  BY <1>1, <1>2, <1>3
<1>5. TypeOK'
  BY <1>1, <1>4 DEF StoreInv, TypeOK, Stage
<1>6. FetchedText'
  BY <1>1, <1>2, <1>4 DEF StoreInv, FetchedText
<1>7. DocsKnown'
  BY <1>1 DEF StoreInv, DocsKnown, TargetStage, AttemptStage, Doc
<1>8. ItemsStored'
  BY <1>1, <1>4 DEF StoreInv, ItemsStored, BeingStored
<1>9. QED
  BY <1>1, <1>5, <1>6, <1>7, <1>8 DEF StoreInv, Texts, ChangeSetsGrounded, Layered

LEMMA UpsertCatalogStores ==
  ASSUME RunInv, StoreInv, UpsertCatalog
  PROVE  StoreInv'
<1>1. /\ pc = "normalized" /\ pc' = "summarize"
      /\ catalog' = [catalog EXCEPT ![Current] = fetched]
      /\ items' = items \cup {Current} /\ docs' = Append(docs, idx)
      /\ UNCHANGED <<content, normalized, summaries, events, changeSets,
                     deadLetters, snapshot, torn, age, mode, elapsed, selected,
                     todo, pair, idx, attempt, fetched, graph, unknown,
                     unresolved, failed, toRecord, faults>>
  BY DEF UpsertCatalog
<1>2. /\ Current \in Target /\ Current' = Current /\ Current \notin items
      /\ idx \in 1..MaxFilings /\ Current = Doc(idx)
  BY <1>1, PositionTypes, AttemptedIsNoItem
  DEF TargetStage, AttemptStage, Current, Doc
<1>3. /\ catalog \in [Target -> Stored] /\ fetched \in Stored /\ items \subseteq Target
      /\ docs \in Seq(1..MaxFilings)
  BY DEF StoreInv, TypeOK
<1>4. /\ catalog' \in [Target -> Stored] /\ catalog'[Current] = fetched
      /\ \A t \in Target : t # Current => catalog'[t] = catalog[t]
  BY <1>1, <1>2, <1>3
<1>5. /\ fetched \in 1..content[Current] /\ catalog[Current] <= fetched
      /\ graph[Current] = fetched /\ normalized[Current] = fetched
  BY <1>1 DEF StoreInv, FetchedText
<1>6. /\ content[Current] \in Nat /\ fetched \in Nat
      /\ \A t \in Target : catalog[t] \in Nat /\ catalog'[t] \in Nat
  BY <1>2, <1>3, <1>4, StoreTypes, VersionTypes DEF StoreInv
<1>7. \A t \in Target : catalog[t] <= catalog'[t]
  BY <1>2, <1>4, <1>5, <1>6
<1>8. TypeOK'
  <2>1. docs' \in Seq(1..MaxFilings) /\ pc' \in Stage /\ items' \subseteq Target
    BY <1>1, <1>2, <1>3 DEF Stage
  <2>2. QED
    BY <1>1, <1>4, <2>1 DEF StoreInv, TypeOK
<1>9. Texts'
  BY <1>1, <1>4, <1>5, <1>6 DEF StoreInv, Texts
<1>10. FetchedText'
  BY <1>1, <1>2, <1>4, <1>5, <1>6 DEF FetchedText
<1>11. DocsKnown'
  <2>1. /\ Len(docs) \in Nat /\ Len(docs') = Len(docs) + 1 /\ docs'[Len(docs')] = idx
        /\ \A i \in 1..Len(docs) : docs'[i] = docs[i]
    BY <1>1, <1>2, <1>3
  <2>2. pc \in TargetStage /\ pc \in AttemptStage
    BY <1>1 DEF TargetStage, AttemptStage
  <2>3. ASSUME NEW i \in 1..Len(docs)
        PROVE  /\ docs[i] \in 1..idx /\ docs[i] < idx
               /\ catalog[Doc(docs[i])] # 0 /\ catalog'[Doc(docs[i])] # 0
               /\ \A j \in 1..Len(docs) : i < j => docs[i] < docs[j]
    <3>1. /\ docs[i] \in 1..idx /\ docs[i] < idx /\ catalog[Doc(docs[i])] # 0
          /\ \A j \in 1..Len(docs) : i < j => docs[i] < docs[j]
      BY <2>2 DEF StoreInv, DocsKnown
    <3>2. Doc(docs[i]) \in Target
      BY <2>2, <3>1, PositionTypes
    <3>3. catalog'[Doc(docs[i])] # 0
      BY <1>6, <1>7, <3>1, <3>2
    <3>4. QED
      BY <3>1, <3>3
  <2>4. catalog'[Doc(idx)] # 0
    BY <1>2, <1>4, <1>5
  <2>5. \A i \in 1..Len(docs') : i \in 1..Len(docs) \/ i = Len(docs')
    BY <2>1
  <2>6. idx' = idx /\ idx \in 1..idx /\ pc' \notin AttemptStage /\ UNCHANGED pair
    BY <1>1, <1>2, ConfigurationAssumption DEF AttemptStage
  <2>7. \A i \in 1..Len(docs') :
          /\ docs'[i] \in 1..idx /\ catalog'[Doc(docs'[i])] # 0
          /\ \A j \in 1..Len(docs') : i < j => docs'[i] < docs'[j]
    BY <2>1, <2>3, <2>4, <2>5, <2>6
  <2>8. QED
    BY <2>6, <2>7 DEF DocsKnown, Doc
<1>12. ChangeSetsGrounded'
  <2> SUFFICES ASSUME NEW t \in Target, changeSets[t].version # 0
               PROVE  /\ changeSets[t].prev \in 1..(t[3] - 1)
                      /\ changeSets[t].version \in 1..catalog'[t]
                      /\ changeSets[t].prevVersion
                           \in 1..catalog'[<<t[1], t[2], changeSets[t].prev>>]
    BY <1>1 DEF ChangeSetsGrounded
  <2>1. /\ changeSets[t].prev \in 1..(t[3] - 1)
        /\ changeSets[t].version \in 1..catalog[t]
        /\ changeSets[t].prevVersion \in 1..catalog[<<t[1], t[2], changeSets[t].prev>>]
    BY DEF StoreInv, ChangeSetsGrounded
  <2>2. <<t[1], t[2], changeSets[t].prev>> \in Target
    <3>1. PairOf(t) \in Pair /\ t[3] \in 1..Filings[PairOf(t)]
      BY TargetParts
    <3>2. changeSets[t].prev \in 1..Filings[PairOf(t)]
      BY <2>1, <3>1, FilingsType, ConfigurationAssumption
    <3>3. QED
      BY <3>1, <3>2, TargetOfPair DEF PairOf
  <2>3. QED
    BY <1>6, <1>7, <2>1, <2>2
<1>13. Layered'
  BY <1>1 DEF StoreInv, Layered
<1>14. ItemsStored'
  BY <1>1, <1>2, <1>3, <1>4, <1>5 DEF StoreInv, ItemsStored, BeingStored
<1>15. QED
  BY <1>8, <1>9, <1>10, <1>11, <1>12, <1>13, <1>14 DEF StoreInv

LEMMA LeaveTargetStores ==
  ASSUME RunInv, StoreInv, pc \in TargetStage, LeaveTarget,
         UNCHANGED <<content, catalog, docs, todo>>
  PROVE  /\ changeSets' \in [Target -> ChangeSet]
         /\ ChangeSetsGrounded' /\ DocsKnown' /\ FetchedText'
         /\ pc' \in {"fetch", "pairs"} /\ pair' = pair
         /\ idx' \in Nat \ {0} /\ attempt' \in 1..MaxAttempts
<1> DEFINE n == Len(docs)
           prev == Doc(docs[n - 1])
           cur == Doc(docs[n])
           set == [prev |-> docs[n - 1], prevVersion |-> catalog[prev],
                   version |-> catalog[cur]]
<1>1. /\ docs \in Seq(1..MaxFilings) /\ n \in Nat
      /\ catalog \in [Target -> Stored] /\ changeSets \in [Target -> ChangeSet]
      /\ idx \in Nat \ {0} /\ attempt \in 1..MaxAttempts
  BY DEF StoreInv, TypeOK
<1>2. /\ pair' = pair /\ pc' \in {"fetch", "pairs"}
      /\ idx' \in Nat \ {0} /\ attempt' \in 1..MaxAttempts
  BY <1>1, LeaveTargetOpen, ConfigurationAssumption DEF LeaveTarget
<1>3. ASSUME n >= 2
      PROVE  /\ prev \in Target /\ cur \in Target /\ prev[3] = docs[n - 1]
             /\ cur = <<pair[1], pair[2], docs[n]>> /\ cur[3] = docs[n]
             /\ prev = <<cur[1], cur[2], docs[n - 1]>>
             /\ docs[n - 1] \in 1..(docs[n] - 1) /\ docs[n - 1] \in 0..MaxFilings
             /\ catalog[prev] \in Stored /\ catalog[prev] # 0
             /\ catalog[cur] \in Stored /\ catalog[cur] # 0
  <2>1. n - 1 \in 1..n /\ n \in 1..n /\ n - 1 < n
    BY <1>1, <1>3
  <2>2. /\ docs[n - 1] \in 1..MaxFilings /\ docs[n] \in 1..MaxFilings
        /\ docs[n - 1] \in 1..idx /\ docs[n] \in 1..idx /\ docs[n - 1] < docs[n]
        /\ catalog[prev] # 0 /\ catalog[cur] # 0
    <3>1. \A i \in 1..n : docs[i] \in 1..idx /\ catalog[Doc(docs[i])] # 0
      BY DEF StoreInv, DocsKnown
    <3>2. \A i \in 1..n : docs[i] \in 1..MaxFilings
      BY <1>1, ConfigurationAssumption
    <3>3. docs[n - 1] < docs[n]
      BY <2>1 DEF StoreInv, DocsKnown
    <3>4. QED
      BY <2>1, <3>1, <3>2, <3>3
  <2>3. /\ prev \in Target /\ cur \in Target /\ prev[3] = docs[n - 1] /\ cur[3] = docs[n]
    BY <2>2, PositionTypes
  <2>4. QED
    BY <1>1, <2>2, <2>3, ConfigurationAssumption DEF Doc
<1>4. changeSets' = changeSets \/ (n >= 2 /\ changeSets' = [changeSets EXCEPT ![cur] = set])
  <2>1. /\ ComparedPeriods(docs)[1] = docs[n - 1] /\ ComparedPeriods(docs)[2] = docs[n]
        /\ <<pair[1], pair[2], docs[n - 1]>>[3] = docs[n - 1]
    BY DEF ComparedPeriods
  <2>2. Diff(docs) = [changeSets EXCEPT ![cur] = set]
    BY <2>1 DEF Diff, Doc
  <2>3. changeSets' = changeSets \/ (n >= 2 /\ changeSets' = Diff(docs))
    BY DEF LeaveTarget
  <2>4. QED
    BY <2>2, <2>3
<1>5. changeSets' \in [Target -> ChangeSet] /\ ChangeSetsGrounded'
  <2>1. CASE changeSets' = changeSets
    BY <1>1, <2>1 DEF StoreInv, ChangeSetsGrounded
  <2>2. CASE n >= 2 /\ changeSets' = [changeSets EXCEPT ![cur] = set]
    <3>1. set \in ChangeSet
      BY <1>3, <2>2 DEF ChangeSet
    <3>2. /\ changeSets' \in [Target -> ChangeSet] /\ changeSets'[cur] = set
          /\ \A t \in Target : t # cur => changeSets'[t] = changeSets[t]
      BY <1>1, <1>3, <2>2, <3>1
    <3>3. /\ set.prev \in 1..(cur[3] - 1) /\ set.version \in 1..catalog[cur]
          /\ set.prevVersion \in 1..catalog[<<cur[1], cur[2], set.prev>>]
      BY <1>3, <2>2, VersionTypes
    <3>4. QED
      BY <3>2, <3>3 DEF StoreInv, ChangeSetsGrounded
  <2>3. QED
    BY <1>4, <2>1, <2>2
<1>6. FetchedText'
  BY <1>2 DEF FetchedText
<1>7. DocsKnown'
  <2>1. CASE HasNextTarget
    <3>1. idx' = idx + 1 /\ pc' = "fetch"
      BY <2>1 DEF LeaveTarget
    <3>2. \A i \in 1..Len(docs) : docs[i] \in 1..(idx + 1) /\ docs[i] < idx + 1
      BY <1>1 DEF StoreInv, DocsKnown
    <3>3. QED
      BY <1>2, <3>1, <3>2 DEF StoreInv, DocsKnown, Doc
  <2>2. CASE ~HasNextTarget
    BY <2>2 DEF LeaveTarget, DocsKnown, TargetStage, AttemptStage
  <2>3. QED
    BY <2>1, <2>2
<1>8. QED
  BY <1>2, <1>5, <1>6, <1>7

LEMMA RetryAttemptStores ==
  ASSUME RunInv, StoreInv, RetryAttempt
  PROVE  StoreInv'
<1>1. /\ pc \in AttemptStage /\ pc' = "fetch" /\ attempt' = attempt + 1
      /\ attempt < MaxAttempts /\ faults < FaultBudget /\ faults' = faults + 1
      /\ UNCHANGED <<content, stores, mode, elapsed, selected, todo, pair, idx,
                     fetched, docs, graph, report, toRecord>>
  BY DEF RetryAttempt, Fault
<1>2. TypeOK'
  <2>1. attempt' \in 1..MaxAttempts /\ faults' \in 0..FaultBudget
    BY <1>1, ConfigurationAssumption DEF StoreInv, TypeOK
  <2>2. QED
    BY <1>1, <2>1 DEF StoreInv, TypeOK, stores, report, Stage
<1>3. FetchedText'
  BY <1>1 DEF FetchedText
<1>4. DocsKnown'
  BY <1>1 DEF StoreInv, DocsKnown, stores, TargetStage, Doc
<1>5. ItemsStored'
  BY <1>1 DEF StoreInv, ItemsStored, BeingStored, stores, report, AttemptStage
<1>6. Layered'
  BY <1>1 DEF StoreInv, Layered, stores, AttemptStage
<1>7. QED
  BY <1>1, <1>2, <1>3, <1>4, <1>5, <1>6 DEF StoreInv, Texts, ChangeSetsGrounded, stores

LEMMA DeadLetterTargetStores ==
  ASSUME RunInv, StoreInv, DeadLetterTarget
  PROVE  StoreInv'
<1>1. /\ pc \in AttemptStage /\ pc \in TargetStage /\ LeaveTarget
      /\ failed' = failed \cup {Current} /\ deadLetters' = deadLetters \cup {Current}
      /\ faults < FaultBudget /\ faults' = faults + 1
      /\ UNCHANGED <<content, normalized, catalog, summaries, events, snapshot,
                     torn, age, mode, elapsed, selected, todo, fetched, docs,
                     graph, items, unknown, unresolved, toRecord>>
  BY DEF DeadLetterTarget, Fault, TargetStage
<1>2. /\ changeSets' \in [Target -> ChangeSet]
      /\ ChangeSetsGrounded' /\ DocsKnown' /\ FetchedText'
      /\ pc' \in {"fetch", "pairs"} /\ pair' = pair
      /\ idx' \in Nat \ {0} /\ attempt' \in 1..MaxAttempts
  BY <1>1, LeaveTargetStores
<1>3. TypeOK'
  <2>1. faults' \in 0..FaultBudget
    BY <1>1, ConfigurationAssumption DEF StoreInv, TypeOK
  <2>2. Current \in Target
    BY <1>1, PositionTypes
  <2>3. QED
    BY <1>1, <1>2, <2>1, <2>2 DEF StoreInv, TypeOK, Stage
<1>4. ItemsStored'
  BY <1>1, <1>2 DEF StoreInv, ItemsStored, BeingStored, AttemptStage
<1>5. Layered'
  BY <1>1 DEF StoreInv, Layered, AttemptStage
<1>6. QED
  BY <1>1, <1>2, <1>3, <1>4, <1>5 DEF StoreInv, Texts

LEMMA SaveSummaryStores ==
  ASSUME RunInv, StoreInv, SaveSummary
  PROVE  StoreInv'
<1>1. /\ pc = "summarize" /\ pc' = "events"
      /\ summaries' = [summaries EXCEPT ![Current] = fetched]
      /\ UNCHANGED <<content, normalized, catalog, events, changeSets, deadLetters,
                     snapshot, torn, age, mode, elapsed, selected, todo, pair, idx,
                     attempt, fetched, docs, graph, items, unknown, unresolved, failed,
                     toRecord, faults>>
  BY DEF SaveSummary, run, loop, report
<1>2. Current \in Target /\ Current' = Current
  BY <1>1, PositionTypes DEF TargetStage, Current
<1>3. summaries \in [Target -> Stored] /\ fetched \in Stored /\ items \subseteq Target
  BY DEF StoreInv, TypeOK
<1>4. /\ summaries' \in [Target -> Stored] /\ summaries'[Current] = fetched
      /\ \A t \in items : t # Current => summaries'[t] = summaries[t]
  BY <1>1, <1>2, <1>3
<1>5. TypeOK'
  BY <1>1, <1>4 DEF StoreInv, TypeOK, Stage
<1>6. FetchedText'
  BY <1>1, <1>2 DEF StoreInv, FetchedText
<1>7. DocsKnown'
  BY <1>1 DEF StoreInv, DocsKnown, TargetStage, AttemptStage, Doc
<1>8. ItemsStored'
  BY <1>1, <1>2, <1>4 DEF StoreInv, ItemsStored, BeingStored
<1>9. QED
  BY <1>1, <1>5, <1>6, <1>7, <1>8 DEF StoreInv, Texts, ChangeSetsGrounded, Layered

LEMMA ReplaceEventsStores ==
  ASSUME RunInv, StoreInv, ReplaceEvents
  PROVE  StoreInv'
<1>1. /\ pc = "events" /\ pc \in TargetStage /\ LeaveTarget
      /\ events' = [events EXCEPT ![Current] = fetched]
      /\ UNCHANGED <<content, normalized, catalog, summaries, deadLetters,
                     snapshot, torn, age, mode, elapsed, selected, todo, fetched,
                     docs, graph, items, unknown, unresolved, failed, toRecord, faults>>
  BY DEF ReplaceEvents, report, TargetStage
<1>2. /\ changeSets' \in [Target -> ChangeSet]
      /\ ChangeSetsGrounded' /\ DocsKnown' /\ FetchedText'
      /\ pc' \in {"fetch", "pairs"} /\ pair' = pair
      /\ idx' \in Nat \ {0} /\ attempt' \in 1..MaxAttempts
  BY <1>1, LeaveTargetStores
<1>3. events \in [Target -> Stored] /\ fetched \in Stored /\ items \subseteq Target
  BY DEF StoreInv, TypeOK
<1>4. Current \in Target
  BY <1>1, PositionTypes
<1>5. /\ events' \in [Target -> Stored] /\ events'[Current] = fetched
      /\ \A t \in items : t # Current => events'[t] = events[t]
  BY <1>1, <1>3, <1>4
<1>6. TypeOK'
  BY <1>1, <1>2, <1>5 DEF StoreInv, TypeOK, Stage
<1>7. ItemsStored'
  BY <1>1, <1>2, <1>5 DEF StoreInv, ItemsStored, BeingStored
<1>8. QED
  BY <1>1, <1>2, <1>6, <1>7 DEF StoreInv, Texts, Layered

\* The steps that persist a run write nothing but the snapshot.
LEMMA WriteSnapshotStores ==
  ASSUME StoreInv, WriteSnapshot
  PROVE  StoreInv'
<1>1. /\ pc = "writing" /\ pc' = "status" /\ snapshot' = graph /\ torn' = FALSE
      /\ UNCHANGED <<content, normalized, catalog, summaries, events, changeSets,
                     deadLetters, age, mode, elapsed, selected, loop, graph, report,
                     toRecord, faults>>
  BY DEF WriteSnapshot, run
<1>2. TypeOK'
  <2>1. torn' \in BOOLEAN
    BY <1>1
  <2>2. QED
    BY <1>1, <2>1 DEF StoreInv, TypeOK, Stage, loop, report
<1>3. Texts'
  BY <1>1 DEF StoreInv, Texts
<1>4. Layered'
  BY <1>1, StoreTypes DEF StoreInv, Layered
<1>5. ItemsStored'
  BY <1>1 DEF StoreInv, ItemsStored, BeingStored, report
<1>6. QED
  BY <1>1, <1>2, <1>3, <1>4, <1>5
  DEF StoreInv, FetchedText, DocsKnown, ChangeSetsGrounded, TargetStage, AttemptStage

LEMMA PersistStores ==
  ASSUME StoreInv,
         FinishPairs \/ TruncateSnapshot \/ SaveStatus \/ \E s \in Known : RecordRun(s)
  PROVE  StoreInv'
<1>1. /\ pc \in {"pairs", "saving", "status", "record"}
      /\ pc' \in {"saving", "writing", "record"}
      /\ pc' = "record" => pc \in {"status", "record"} /\ torn' = torn
      /\ UNCHANGED <<content, normalized, catalog, summaries, events, changeSets,
                     deadLetters, snapshot, mode, elapsed, selected, loop, graph,
                     report, faults>>
  BY DEF FinishPairs, TruncateSnapshot, SaveStatus, RecordRun, stores, run
<1>2. TypeOK'
  <2>1. torn' \in BOOLEAN
    BY DEF StoreInv, TypeOK, FinishPairs, TruncateSnapshot, SaveStatus, RecordRun, stores
  <2>2. toRecord' \subseteq Known
    BY TargetParts DEF StoreInv, TypeOK, FinishPairs, TruncateSnapshot, SaveStatus,
                       RecordRun, run, ReportedSources
  <2>3. \A s \in Known : age'[s] \in 0..Cadence[s]
    <3>1. CASE \E s \in Known : RecordRun(s)
      <4>1. PICK s \in Known : RecordRun(s)
        BY <3>1
      <4>2. (IF elapsed < Cadence[s] THEN elapsed ELSE Cadence[s]) \in 0..Cadence[s]
        BY ConfigurationAssumption DEF StoreInv, TypeOK
      <4>3. \A u \in Known : age'[u] = age[u] \/ (u = s /\ age'[u] \in 0..Cadence[s])
        BY <4>1, <4>2 DEF RecordRun
      <4>4. QED
        BY <4>3 DEF StoreInv, TypeOK
    <3>2. CASE FinishPairs \/ TruncateSnapshot \/ SaveStatus
      BY <3>2 DEF StoreInv, TypeOK, FinishPairs, TruncateSnapshot, SaveStatus, stores
    <3>3. QED
      BY <3>1, <3>2
  <2>4. QED
    BY <1>1, <2>1, <2>2, <2>3 DEF StoreInv, TypeOK, Stage, loop, report
<1>3. Layered'
  BY <1>1 DEF StoreInv, Layered
<1>4. ItemsStored'
  BY <1>1 DEF StoreInv, ItemsStored, BeingStored, report
<1>5. QED
  BY <1>1, <1>2, <1>3, <1>4
  DEF StoreInv, Texts, FetchedText, DocsKnown, ChangeSetsGrounded, TargetStage,
      AttemptStage

LEMMA ExitStores ==
  ASSUME StoreInv, FinishRun \/ Abort \/ Kill
  PROVE  StoreInv'
<1>1. Exit /\ faults' \in 0..FaultBudget
  BY ConfigurationAssumption DEF StoreInv, TypeOK, FinishRun, Abort, Kill, Fault
<1>2. TypeOK'
  <2>1. /\ pc' \in Stage /\ mode' \in {"due", "full"} /\ elapsed' \in Nat
        /\ pair' \in Pair \cup {NoPair} /\ idx' \in Nat \ {0}
        /\ attempt' \in 1..MaxAttempts /\ fetched' \in Stored
        /\ docs' \in Seq(1..MaxFilings) /\ graph' \in [Target -> Stored]
    BY <1>1, ConfigurationAssumption, VersionTypes DEF Exit, Stage, NoDocuments
  <2>2. /\ selected' = {} /\ todo' = {} /\ toRecord' = {} /\ items' = {}
        /\ unknown' = {} /\ unresolved' = {} /\ failed' = {}
        /\ UNCHANGED <<content, stores>>
    BY <1>1 DEF Exit
  <2>3. QED
    BY <1>1, <2>1, <2>2 DEF StoreInv, TypeOK, stores
<1>3. Texts'
  <2>1. UNCHANGED <<content, stores>> /\ \A t \in Target : graph'[t] = 0
    BY <1>1 DEF Exit, NoDocuments
  <2>2. QED
    BY <2>1, StoreTypes DEF StoreInv, Texts, stores
<1>4. QED
  BY <1>1, <1>2, <1>3
  DEF StoreInv, FetchedText, DocsKnown, ChangeSetsGrounded, Layered, ItemsStored, Exit,
      stores, TargetStage, AttemptStage

LEMMA NextStoreInv == RunInv /\ StoreInv /\ [Next]_vars => StoreInv'
<1> SUFFICES ASSUME RunInv, StoreInv, [Next]_vars
             PROVE  StoreInv'
  OBVIOUS
<1>1. CASE UNCHANGED vars
  BY <1>1 DEF vars, stores, run, loop, report, StoreInv, TypeOK, Texts, FetchedText,
              DocsKnown, ChangeSetsGrounded, Layered, ItemsStored, BeingStored, Current,
              Doc
<1>2. CASE Day
  BY <1>2, DayStores
<1>3. CASE \E t \in Target : Publish(t)
  BY <1>3, PublishStores
<1>4. CASE \E m \in Modes : StartRun(m)
  BY <1>4, StartRunStores
<1>5. CASE \E p \in Pair : ResolveTargets(p) \/ ResolveFails(p)
  BY <1>5, ResolveTargetsStores, ResolveFailsStores
<1>6. CASE Fetch
  BY <1>6, FetchStores
<1>7. CASE ProjectGraph
  BY <1>7, ProjectGraphStores
<1>8. CASE SaveNormalized
  BY <1>8, SaveNormalizedStores
<1>9. CASE UpsertCatalog
  BY <1>9, UpsertCatalogStores
<1>10. CASE RetryAttempt
  BY <1>10, RetryAttemptStores
<1>11. CASE DeadLetterTarget
  BY <1>11, DeadLetterTargetStores
<1>12. CASE SaveSummary
  BY <1>12, SaveSummaryStores
<1>13. CASE ReplaceEvents
  BY <1>13, ReplaceEventsStores
<1>14. CASE WriteSnapshot
  BY <1>14, WriteSnapshotStores
<1>15. CASE FinishPairs \/ TruncateSnapshot \/ SaveStatus \/ \E s \in Known : RecordRun(s)
  BY <1>15, PersistStores
<1>16. CASE FinishRun \/ Abort \/ Kill
  BY <1>16, ExitStores
<1>17. QED
  BY <1>1, <1>2, <1>3, <1>4, <1>5, <1>6, <1>7, <1>8, <1>9, <1>10, <1>11, <1>12, <1>13,
     <1>14, <1>15, <1>16
  DEF Next, Step

\* What the stores, the loop and the report have to do with one another, in
\* every reachable state.
THEOREM StoreInvariant == Spec => []StoreInv
BY InitStoreInv, NextStoreInv, RunInvariant, PTL DEF Spec

\* Every store and every loop variable keeps its type; in particular the
\* change set at the end of a pair never reads a document that is not there.
THEOREM IngestionTypes == Spec => []TypeOK
<1>1. StoreInv => TypeOK
  BY DEF StoreInv
<1>2. QED
  BY <1>1, StoreInvariant, PTL

\* Every change set compares two versions the catalog held, of two documents
\* of one pair, the earlier period on the previous side.
THEOREM GroundedChangeSets == Spec => []ChangeSetsGrounded
<1>1. StoreInv => ChangeSetsGrounded
  BY DEF StoreInv
<1>2. QED
  BY <1>1, StoreInvariant, PTL

\* A due run never takes a document out of the snapshot or back to an older
\* text: it starts from the snapshot, and what it projects was fetched later.
THEOREM KeptProjections == Spec => DueRunKeepsProjections
<1>1. StoreInv /\ [Next]_vars =>
        [mode = "due" => \A t \in Target : snapshot'[t] >= snapshot[t]]_vars
  <2> SUFFICES ASSUME StoreInv, Next, mode = "due", NEW t \in Target
               PROVE  snapshot'[t] >= snapshot[t]
    OBVIOUS
  <2>1. snapshot[t] \in Nat
    BY StoreTypes DEF StoreInv
  <2>2. CASE WriteSnapshot
    BY <2>1, <2>2, StoreTypes DEF WriteSnapshot, StoreInv, Layered
  <2>3. CASE ~WriteSnapshot
    <3>1. snapshot' = snapshot
      BY <2>3
      DEF Next, Step, Day, Publish, StartRun, ResolveTargets, ResolveFails, Fetch,
          ProjectGraph, SaveNormalized, UpsertCatalog, RetryAttempt, DeadLetterTarget,
          SaveSummary, ReplaceEvents, FinishPairs, TruncateSnapshot, SaveStatus,
          RecordRun, FinishRun, Abort, Kill, Exit, stores
    <3>2. QED
      BY <2>1, <3>1
  <2>4. QED
    BY <2>2, <2>3
<1>2. QED
  BY <1>1, StoreInvariant, PTL DEF Spec, DueRunKeepsProjections

\* A source is recorded as run only when each item the run reports for it has
\* the same text in all five stores and the snapshot can be read.
THEOREM RecordedIsStored == Spec => RecordedRunIsStored
<1> DEFINE Recorded ==
      \A s \in Known :
        pc = "record" /\ s \in toRecord \ toRecord' /\ pc' = "record" =>
          /\ ~torn
          /\ \A t \in items : Source(t) = s => StoresAgree(t)
<1>1. StoreInv /\ [Next]_vars => [Recorded]_vars
  <2> SUFFICES ASSUME StoreInv, pc = "record"
               PROVE  ~torn /\ \A t \in items : StoresAgree(t)
    OBVIOUS
  <2>1. torn = FALSE /\ snapshot = graph
    BY DEF StoreInv, ItemsStored
  <2>2. \A t \in items : /\ normalized[t] = catalog[t] /\ graph[t] = catalog[t]
                          /\ summaries[t] = catalog[t] /\ events[t] = catalog[t]
    BY DEF StoreInv, ItemsStored, BeingStored
  <2>3. QED
    BY <2>1, <2>2 DEF StoresAgree
<1>2. QED
  BY <1>1, StoreInvariant, PTL DEF Spec, RecordedRunIsStored

-----------------------------------------------------------------------------
(* Where only due runs happen *)

\* The stores agree on a target, or its source is still due, or it is in the
\* dead letters.  While a run is at work its sources are due, and it has left
\* the projections of all others alone; recording a source as run is the one
\* step that ends its being due.
Repairable == \A t \in Target : StoresAgree(t) \/ IsDue(Source(t)) \/ Dead(t)

DueInv ==
  /\ mode = "due"
  /\ Repairable
  /\ pc \notin {"idle", "record"} => \A s \in Known : s \in selected => IsDue(s)
  /\ pc # "idle" => \A t \in Target : Source(t) \notin selected => graph[t] = snapshot[t]
  /\ failed \subseteq deadLetters /\ unresolved \subseteq deadLetters
  /\ pc = "record" => toRecord \subseteq selected

LEMMA InitDueInv == Init => DueInv
BY ConfigurationAssumption
DEF Init, DueInv, Repairable, StoresAgree, NoDocuments

\* What a step does to a target of a source that stays due does not matter.
LEMMA RepairableKept ==
  ASSUME Repairable,
         \A s \in Known : IsDue(s) => IsDue(s)',
         deadLetters \subseteq deadLetters',
         \A t \in Target : IsDue(Source(t)) \/ Dead(t)
           \/ (/\ normalized'[t] = normalized[t] /\ catalog'[t] = catalog[t]
               /\ summaries'[t] = summaries[t] /\ events'[t] = events[t]
               /\ snapshot'[t] = snapshot[t])
  PROVE  Repairable'
BY TargetParts DEF Repairable, StoresAgree, Dead

LEMMA DayKeepsDue ==
  ASSUME DueInv, Day
  PROVE  DueInv'
<1>1. \A s \in Known : IsDue(s) => IsDue(s)'
  BY ConfigurationAssumption DEF Day, IsDue
<1>2. Repairable'
  BY <1>1, RepairableKept DEF DueInv, Day
<1>3. QED
  BY <1>1, <1>2 DEF DueInv, Day, loop, report

LEMMA StartRunKeepsDue ==
  ASSUME StoreInv, DueInv, Modes = {"due"}, NEW m \in Modes, StartRun(m)
  PROVE  DueInv'
<1>1. /\ mode' = "due" /\ pc' = "pairs" /\ selected' = DueSources /\ graph' = snapshot
      /\ failed' = {} /\ unresolved' = {} /\ UNCHANGED stores
  BY DEF StartRun, SelectedSources, BaseGraph
<1>2. Repairable' /\ \A s \in Known : IsDue(s)' <=> IsDue(s)
  BY <1>1, RepairableKept DEF DueInv, stores, IsDue
<1>3. QED
  BY <1>1, <1>2 DEF DueInv, stores, DueSources

\* A step of the loops that writes stores only at the target under way.
LEMMA LoopKeepsDue ==
  ASSUME RunInv, DueInv, pc \notin {"idle", "record"}, pc' \notin {"idle", "record"},
         UNCHANGED <<mode, age, selected, snapshot>>,
         \A t \in Target : (pc \in TargetStage /\ t = Current)
           \/ (/\ normalized'[t] = normalized[t] /\ catalog'[t] = catalog[t]
               /\ summaries'[t] = summaries[t] /\ events'[t] = events[t]
               /\ graph'[t] = graph[t]),
         deadLetters \subseteq deadLetters',
         failed' \subseteq deadLetters', unresolved' \subseteq deadLetters'
  PROVE  DueInv'
<1>1. \A s \in Known : IsDue(s)' <=> IsDue(s)
  BY DEF IsDue
<1>2. pc \in TargetStage => Source(Current) \in selected /\ Current \in Target
  BY PositionTypes
<1>3. pc \in TargetStage => IsDue(Source(Current))
  BY <1>2, TargetParts DEF DueInv
<1>4. Repairable'
  BY <1>1, <1>3, RepairableKept DEF DueInv
<1>5. \A t \in Target : Source(t) \notin selected => graph'[t] = graph[t]
  BY <1>2
<1>6. QED
  BY <1>1, <1>4, <1>5 DEF DueInv

LEMMA WriteSnapshotKeepsDue ==
  ASSUME DueInv, WriteSnapshot
  PROVE  DueInv'
<1>1. /\ pc = "writing" /\ pc' = "status" /\ snapshot' = graph
      /\ UNCHANGED <<normalized, catalog, summaries, events, deadLetters, age, mode,
                     selected, graph, failed, unresolved>>
  BY DEF WriteSnapshot, run, report
<1>2. \A s \in Known : IsDue(s)' <=> IsDue(s)
  BY <1>1 DEF IsDue
<1>3. \A t \in Target : IsDue(Source(t)) \/ snapshot'[t] = snapshot[t]
  BY <1>1, TargetParts DEF DueInv
<1>4. Repairable'
  BY <1>1, <1>2, <1>3, RepairableKept DEF DueInv
<1>5. QED
  BY <1>1, <1>2, <1>4 DEF DueInv

LEMMA SaveStatusKeepsDue ==
  ASSUME RunInv, DueInv, SaveStatus
  PROVE  DueInv'
<1>1. /\ pc = "status" /\ pc' = "record" /\ toRecord' = ReportedSources
      /\ UNCHANGED <<stores, mode, selected, graph, failed, unresolved>>
  BY DEF SaveStatus, report
<1>2. ReportedSources \subseteq selected
  BY DEF RunInv, ReportedSources
<1>3. Repairable'
  BY <1>1, RepairableKept DEF DueInv, stores, IsDue
<1>4. QED
  BY <1>1, <1>2, <1>3 DEF DueInv, stores

\* A source is recorded as run when each of its targets is an item, and so in
\* every store, or was given up.
LEMMA RecordRunKeepsDue ==
  ASSUME RunInv, StoreInv, DueInv, NEW s \in Known, RecordRun(s)
  PROVE  DueInv'
<1>1. /\ pc = "record" /\ pc' = "record" /\ s \in toRecord /\ toRecord' = toRecord \ {s}
      /\ age' = [age EXCEPT ![s] = IF elapsed < Cadence[s] THEN elapsed ELSE Cadence[s]]
      /\ UNCHANGED <<normalized, catalog, summaries, events, deadLetters, snapshot, mode,
                     selected, graph, failed, unresolved>>
  BY DEF RecordRun, report
<1>2. ASSUME NEW t \in Target, Source(t) = s
      PROVE  StoresAgree(t) \/ Dead(t)
  <2>1. t \in RunTargets /\ ~Pending(t)
    BY <1>1, <1>2 DEF DueInv, RunTargets, Pending, RunInv, TargetStage, AttemptStage
  <2>2. t \in items \/ GivenUp(t)
    BY <1>1, <2>1 DEF RunInv, EveryTargetAccounted
  <2>3. GivenUp(t) => Dead(t)
    BY DEF GivenUp, Dead, DueInv
  <2>4. t \in items => StoresAgree(t)
    BY <1>1 DEF StoreInv, ItemsStored, BeingStored, StoresAgree
  <2>5. QED
    BY <2>2, <2>3, <2>4
<1>3. \A u \in Known : u # s => (IsDue(u)' <=> IsDue(u))
  BY <1>1 DEF IsDue
<1>4. \A t \in Target : (StoresAgree(t)' <=> StoresAgree(t)) /\ (Dead(t)' <=> Dead(t))
  BY <1>1 DEF StoresAgree, Dead
<1>5. Repairable'
  BY <1>2, <1>3, <1>4, TargetParts DEF DueInv, Repairable
<1>6. QED
  BY <1>1, <1>5 DEF DueInv

LEMMA ExitKeepsDue ==
  ASSUME DueInv, Exit
  PROVE  DueInv'
<1>1. /\ pc' = "idle" /\ mode' = "due" /\ failed' = {} /\ unresolved' = {}
      /\ UNCHANGED stores
  BY DEF Exit
<1>2. Repairable'
  BY <1>1, RepairableKept DEF DueInv, stores, IsDue
<1>3. QED
  BY <1>1, <1>2 DEF DueInv

LEMMA NextDueInv ==
  ASSUME Modes = {"due"}, RunInv, StoreInv, DueInv, [Next]_vars
  PROVE  DueInv'
<1> USE DEF TargetStage, AttemptStage
<1>1. CASE UNCHANGED vars \/ \E t \in Target : Publish(t)
  <2>1. UNCHANGED <<stores, pc, run>>
    BY <1>1 DEF vars, Publish
  <2>2. Repairable' /\ \A s \in Known : IsDue(s)' <=> IsDue(s)
    BY <2>1, RepairableKept DEF DueInv, stores, IsDue
  <2>3. QED
    BY <2>1, <2>2 DEF DueInv, stores, run, report
<1>2. CASE Day
  BY <1>2, DayKeepsDue
<1>3. CASE \E m \in Modes : StartRun(m)
  BY <1>3, StartRunKeepsDue
<1>4. CASE \E p \in Pair : ResolveTargets(p) \/ ResolveFails(p)
  BY <1>4, LoopKeepsDue
  DEF DueInv, ResolveTargets, ResolveFails, stores, report
<1>5. CASE Fetch \/ RetryAttempt \/ FinishPairs \/ TruncateSnapshot
  BY <1>5, LoopKeepsDue
  DEF DueInv, Fetch, RetryAttempt, FinishPairs, TruncateSnapshot, stores, run, report
<1>6. CASE ProjectGraph \/ SaveNormalized \/ UpsertCatalog \/ SaveSummary
  <2>1. /\ pc \in TargetStage /\ pc' \in TargetStage
        /\ UNCHANGED <<mode, age, selected, snapshot, deadLetters, failed, unresolved>>
    BY <1>6 DEF ProjectGraph, SaveNormalized, UpsertCatalog, SaveSummary, stores, run,
                report
  <2>2. \A t \in Target : t # Current =>
          /\ normalized'[t] = normalized[t] /\ catalog'[t] = catalog[t]
          /\ summaries'[t] = summaries[t] /\ events'[t] = events[t]
          /\ graph'[t] = graph[t]
    BY <1>6 DEF ProjectGraph, SaveNormalized, UpsertCatalog, SaveSummary, stores, run,
                StoreInv, TypeOK
  <2>3. QED
    BY <2>1, <2>2, LoopKeepsDue DEF DueInv
<1>7. CASE DeadLetterTarget \/ ReplaceEvents
  <2>1. /\ pc \in TargetStage /\ LeaveTarget
        /\ UNCHANGED <<mode, age, selected, snapshot, unresolved, normalized, catalog,
                       summaries, graph>>
        /\ deadLetters \subseteq deadLetters'
    BY <1>7 DEF DeadLetterTarget, ReplaceEvents, report
  <2>2. failed' \subseteq deadLetters' /\ unresolved' \subseteq deadLetters'
    BY <1>7 DEF DueInv, DeadLetterTarget, ReplaceEvents, report
  <2>3. \A t \in Target : t # Current => events'[t] = events[t]
    BY <1>7 DEF DeadLetterTarget, ReplaceEvents, StoreInv, TypeOK
  <2>4. pc' \in {"fetch", "pairs"}
    BY <2>1 DEF LeaveTarget
  <2>5. QED
    BY <2>1, <2>2, <2>3, <2>4, LoopKeepsDue
<1>8. CASE WriteSnapshot
  BY <1>8, WriteSnapshotKeepsDue
<1>9. CASE SaveStatus
  BY <1>9, SaveStatusKeepsDue
<1>10. CASE \E s \in Known : RecordRun(s)
  BY <1>10, RecordRunKeepsDue
<1>11. CASE FinishRun \/ Abort \/ Kill
  BY <1>11, ExitKeepsDue DEF FinishRun, Abort, Kill
<1>12. QED
  BY <1>1, <1>2, <1>3, <1>4, <1>5, <1>6, <1>7, <1>8, <1>9, <1>10, <1>11
  DEF Next, Step

\* Where only due runs happen, between two runs each target is the same in all
\* five stores, or its source is due, or it or its pair is in the dead letters,
\* wherever runs were killed or aborted.
THEOREM HalfWritten ==
  ASSUME Modes = {"due"}
  PROVE  Spec => []HalfWrittenIsDueOrDead
<1>1. DueInv => HalfWrittenIsDueOrDead
  BY DEF DueInv, Repairable, HalfWrittenIsDueOrDead
<1>2. RunInv /\ StoreInv /\ DueInv /\ [Next]_vars => DueInv'
  BY NextDueInv
<1>3. QED
  BY <1>1, <1>2, InitDueInv, RunInvariant, StoreInvariant, PTL DEF Spec
=============================================================================
