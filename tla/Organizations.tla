--------------------------- MODULE Organizations ---------------------------
(***************************************************************************)
(* The organisations and plans of the commercial store: an organisation    *)
(* has one owner, who alone is a member, and a plan only the owner sets.   *)
(* What an account may do follows from the most generous plan of the       *)
(* organisations it belongs to.                                            *)
(***************************************************************************)
EXTENDS Integers, FiniteSets

CONSTANTS
  Users,       \* the emails
  Limit,       \* calls per day of every plan of PLANS
  MaxOrgs      \* bound: organisations created

ASSUME PlansAssumption ==
  /\ DOMAIN Limit = {"free", "pro", "enterprise"}
  /\ \A p \in DOMAIN Limit : Limit[p] \in Nat \ {0}
  /\ Limit["free"] < Limit["pro"] /\ Limit["pro"] < Limit["enterprise"]
ASSUME MaxOrgsAssumption == MaxOrgs \in Nat

VARIABLE orgs    \* the rows of organizations, each with its rows of members

Plans == DOMAIN Limit
Named == Plans \union {"unknown"}    \* the plan of a request's body

OrgsInit == orgs = {}

ListOrgs(email) == {o \in orgs : email \in o.members}

\* The larger limit wins, the free plan is the floor.
EffectivePlan(email) ==
  CHOOSE p \in Plans :
    LET held == {"free"} \union {o.plan : o \in ListOrgs(email)} IN
      p \in held /\ \A q \in held : Limit[q] <= Limit[p]

CreateOrganization(email, plan) ==
  /\ Cardinality(orgs) < MaxOrgs
  /\ orgs' = orgs \union {[id |-> Cardinality(orgs) + 1, owner |-> email, members |-> {email},
                           plan |-> IF plan \in Plans THEN plan ELSE "free"]}

SetOrgPlan(email, org, plan) ==
  /\ plan \in Plans
  /\ org \in orgs /\ org.owner = email
  /\ orgs' = (orgs \ {org}) \union {[org EXCEPT !.plan = plan]}

OrgsStep == \E u \in Users, plan \in Named :
              CreateOrganization(u, plan) \/ \E o \in orgs : SetOrgPlan(u, o, plan)
=============================================================================
