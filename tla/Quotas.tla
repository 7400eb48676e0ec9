------------------------------- MODULE Quotas -------------------------------
(***************************************************************************)
(* The daily quota of the metered routes, /retrieve and /analyst: read the *)
(* plan, count today's calls, and record the call, three steps that other  *)
(* requests of the same account interleave. Anonymous calls are limited by *)
(* FixedWindowLimiter and not metered.                                     *)
(***************************************************************************)
EXTENDS Organizations

CONSTANT Callers    \* requests that can be in progress at once

ASSUME QuotasAssumption == IsFiniteSet(Callers)

VARIABLES
  usage,     \* calls of an account recorded today
  calls,     \* the metered request in progress
  checked    \* (history) the largest limit a call recorded today was checked against

quotaVars == <<orgs, usage, calls, checked>>

Waiting == [step |-> "idle"]

QuotasInit ==
  /\ usage = [u \in Users |-> 0]
  /\ checked = [u \in Users |-> 0]
  /\ calls = [c \in Callers |-> Waiting]

ReadPlan(c, u) ==
  /\ calls[c].step = "idle"
  /\ calls' = [calls EXCEPT ![c] = [step |-> "count", user |-> u, limit |-> Limit[EffectivePlan(u)]]]
  /\ UNCHANGED <<orgs, usage, checked>>

\* Mutant: the limit itself is let through.
OverQuotaLate(c) == usage[calls[c].user] > calls[c].limit

OverQuota(c) == usage[calls[c].user] >= calls[c].limit

CountCalls(c) ==
  /\ calls[c].step = "count"
  /\ calls' = [calls EXCEPT ![c] = IF OverQuota(c) THEN Waiting ELSE [@ EXCEPT !.step = "record"]]
  /\ UNCHANGED <<orgs, usage, checked>>

RecordUsage(c) ==
  /\ calls[c].step = "record"
  /\ LET u == calls[c].user IN
       /\ usage' = [usage EXCEPT ![u] = @ + 1]
       /\ checked' = [checked EXCEPT ![u] = IF @ < calls[c].limit THEN calls[c].limit ELSE @]
  /\ calls' = [calls EXCEPT ![c] = Waiting]
  /\ UNCHANGED orgs

\* _today_since: yesterday's rows no longer count.
Midnight ==
  /\ usage' = [u \in Users |-> 0]
  /\ checked' = [u \in Users |-> 0]
  /\ UNCHANGED <<orgs, calls>>

QuotaRemaining(u) == IF usage[u] < Limit[EffectivePlan(u)] THEN Limit[EffectivePlan(u)] - usage[u] ELSE 0

\* What /organizations/{id}/billing answers its owner.
WithinLimits(org) == usage[org.owner] <= Limit[org.plan]

QuotasNext ==
  \/ \E c \in Callers : CountCalls(c) \/ RecordUsage(c) \/ \E u \in Users : ReadPlan(c, u)
  \/ Midnight
  \/ OrgsStep /\ UNCHANGED <<usage, calls, checked>>

-----------------------------------------------------------------------------

QuotasTypeOK ==
  /\ usage \in [Users -> Nat] /\ checked \in [Users -> Nat]
  /\ \A c \in Callers : calls[c].step \in {"idle", "count", "record"}
  /\ \A o \in orgs : o.members = {o.owner} /\ o.plan \in Plans

\* An account's calls of a day exceed the largest limit they were checked
\* against by the other requests in progress, and no more: the quota is
\* counted and recorded in two steps.
OvershootBounded == \A u \in Users : usage[u] = 0 \/ usage[u] <= checked[u] + Cardinality(Callers) - 1

\* A billing summary that says the organisation is over its limits is of an
\* owner whose next call is refused, unless another organisation gives more.
OverBilledIsRefused ==
  \A o \in orgs : ~WithinLimits(o) => QuotaRemaining(o.owner) = 0 \/ Limit[EffectivePlan(o.owner)] > Limit[o.plan]

\* The quota, for overlapping requests and plans that change under them.
QuotaSound == QuotasTypeOK /\ OvershootBounded /\ OverBilledIsRefused
=============================================================================
