---------------------------- MODULE IngestionRun ----------------------------
(***************************************************************************)
(* What a run of the orchestrator promises its caller, whatever it fetches *)
(* and however often it retries: it starts with a set of targets, settles  *)
(* each once, as ingested or as given up, and persists its result only     *)
(* when none is left.  A run may be abandoned at any time.                 *)
(***************************************************************************)
CONSTANT Target

VARIABLES
  phase,      \* "idle", "running" or "persisted"
  pending,    \* targets without an outcome
  ingested,   \* targets with an item in the report
  givenUp     \* targets that were dead-lettered

vars == <<phase, pending, ingested, givenUp>>

Init ==
  /\ phase = "idle"
  /\ pending = {} /\ ingested = {} /\ givenUp = {}

Begin ==
  /\ phase = "idle" /\ phase' = "running"
  /\ pending' \in SUBSET Target
  /\ UNCHANGED <<ingested, givenUp>>

Ingest(t) ==
  /\ phase = "running" /\ t \in pending
  /\ pending' = pending \ {t}
  /\ ingested' = ingested \cup {t}
  /\ UNCHANGED <<phase, givenUp>>

\* Discovery may give up all targets of a pair at once.
GiveUp(T) ==
  /\ phase = "running" /\ T # {} /\ T \subseteq pending
  /\ pending' = pending \ T
  /\ givenUp' = givenUp \cup T
  /\ UNCHANGED <<phase, ingested>>

Persist ==
  /\ phase = "running" /\ pending = {}
  /\ phase' = "persisted"
  /\ UNCHANGED <<pending, ingested, givenUp>>

\* The run is over, persisted or abandoned: nothing of it is left in memory.
End ==
  /\ phase # "idle" /\ phase' = "idle"
  /\ pending' = {} /\ ingested' = {} /\ givenUp' = {}

Next ==
  \/ Begin
  \/ \E t \in Target : Ingest(t)
  \/ \E T \in SUBSET Target : GiveUp(T)
  \/ Persist \/ End

Spec == Init /\ [][Next]_vars
=============================================================================
