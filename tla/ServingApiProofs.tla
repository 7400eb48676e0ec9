-------------------------- MODULE ServingApiProofs --------------------------
(***************************************************************************)
(* Proofs about the services behind the routes, for any users, threads,    *)
(* lifetimes, plans and bodies. A behaviour of ServingApi is about one     *)
(* service; each part gives the inductive invariant of one, and the last   *)
(* part puts them together.                                                *)
(***************************************************************************)
EXTENDS ServingApi, TLAPS, FiniteSetTheorems

-----------------------------------------------------------------------------
(* Keys: what a handler lets a credential do that may lapse, be revoked or *)
(* be lost to a restart between any two of its readings of it.             *)

OrgsInv ==
  \A o \in orgs : /\ DOMAIN o = {"id", "owner", "members", "plan"}
                  /\ o.owner \in Users /\ o.members = {o.owner} /\ o.plan \in Plans

\* Identifiers are given out once, so that a key that is gone stays gone.
KeyTable ==
  /\ minted \in Nat
  /\ \A key \in apiKeys : key.id \in Nat /\ key.id < minted /\ key.until \in Nat
  /\ \A a, b \in apiKeys : a.id = b.id => a = b

\* A credential that was handed out: once it lapsed it does not resolve again.
Presented(cred) ==
  \/ cred.kind = "session" /\ cred.until \in Nat
  \/ cred.kind = "key" /\ cred.id \in Nat /\ cred.id < minted

\* A credential identifies one user for good: the session's, or the owner of
\* the key while there is one.
Identifies(cred, u) ==
  \/ cred.kind = "session" /\ cred.user = u
  \/ cred.kind = "key" /\ \A key \in apiKeys : key.id = cred.id => key.owner = u

\* The scopes that were read of a key are its scopes for good.
Carries(cred, by) ==
  by.restricted =>
    cred.kind = "key" /\ \A key \in apiKeys : key.id = cred.id => key.scopes = by.scopes

\* What may be stored for a user on behalf of a credential.
Grantable(scopes, user, by, lapsed) ==
  /\ scopes \subseteq KnownScopes /\ user \in DOMAIN users \union {Anonymous}
  /\ by.restricted => scopes \ by.scopes \subseteq (IF lapsed THEN {"enterprise"} ELSE {})
  /\ "admin" \in scopes => user \in DOMAIN users /\ users[user].role = "admin"
  /\ user = Anonymous => scopes = {}

\* What a handler knows between two of its readings.
RequestInv(request) ==
  /\ request.op \in {"identify", "judge", "plan", "scopes"} =>
       Presented(request.cred) /\ Carries(request.cred, request.by)
  /\ request.op \in {"identify", "judge", "store"} => request.ttl \in Nat
  /\ request.op \in {"identify", "judge"} => request.scopes \subseteq KnownScopes
  /\ request.op = "judge" =>
       \/ request.user = Anonymous /\ ~Resolves(request.cred)
       \/ request.user \in DOMAIN users /\ Identifies(request.cred, request.user)
  /\ request.op = "store" => Grantable(request.scopes, request.user, request.by, request.lapsed)
  /\ request.op = "admitted" /\ request.by.restricted =>
       "enterprise" \in request.by.scopes \/ request.lapsed

KeysInv ==
  /\ KeyTable /\ OrgsInv
  /\ \A key \in apiKeys : Grantable(key.scopes, key.owner, key.by, key.lapsed)
  /\ DOMAIN requests = Workers
  /\ \A w \in Workers : RequestInv(requests[w])
  /\ \A session \in sessions : session.kind = "session" /\ session.until \in Nat
  /\ Anonymous \notin DOMAIN users
  /\ now \in Nat /\ restarts \in Nat
  /\ KeysAreAudited

LEMMA InitKeysInv == KeysInit => KeysInv
<1> SUFFICES ASSUME KeysInit
             PROVE  KeysInv
  OBVIOUS
<1>1. /\ apiKeys = {} /\ minted = 0 /\ now = 0 /\ restarts = 0
      /\ requests = [w \in Workers |-> Free] /\ DOMAIN users = Users
  BY DEF KeysInit, RestInit
<1>2. OrgsInv
  BY PlansAssumption DEF KeysInit, OrgsInv, Plans
<1>3. \A session \in sessions : session.kind = "session" /\ session.until \in Nat
  BY <1>1, AccountsAssumption DEF KeysInit, SessionToken
<1>4. \A w \in Workers : RequestInv(requests[w])
  BY <1>1 DEF RequestInv, Free
<1>5. QED
  BY <1>1, <1>2, <1>3, <1>4, AccountsAssumption DEF KeysInv, KeyTable, KeysAreAudited

-----------------------------------------------------------------------------
(* Readings of a credential *)

\* What a credential that resolves stands for: a session for its user, a key
\* in time for its owner and its scopes.
LEMMA PrincipalOf ==
  ASSUME KeyTable, NEW cred, Resolves(cred)
  PROVE  /\ Principal(cred).user \in DOMAIN users
         /\ Principal(cred).role = users[Principal(cred).user].role
         /\ cred.kind = "session" =>
              Principal(cred).user = cred.user /\ Principal(cred).restricted = FALSE
         /\ cred.kind # "session" =>
              \E key \in apiKeys : /\ key.id = cred.id /\ Principal(cred).user = key.owner
                                   /\ Principal(cred).restricted = TRUE
                                   /\ Principal(cred).scopes = key.scopes
<1>1. CASE cred.kind = "session"
  <2>1. cred.user \in DOMAIN users
    BY <1>1 DEF Resolves, Principal
  <2>2. Principal(cred) = [user |-> cred.user, role |-> users[cred.user].role,
                           restricted |-> FALSE, scopes |-> {}]
    BY <1>1 DEF Resolves, Principal
  <2>3. QED
    BY <1>1, <2>1, <2>2
<1>2. CASE cred.kind # "session"
  <2>1. PICK key \in apiKeys : key.id = cred.id /\ now < key.until /\ key.owner \in DOMAIN users
    BY <1>2 DEF Resolves, Principal
  <2>2. key = CHOOSE k \in apiKeys : k.id = cred.id
    <3> DEFINE chosen == CHOOSE k \in apiKeys : k.id = cred.id
    <3>1. chosen \in apiKeys /\ chosen.id = cred.id
      BY <2>1
    <3>2. QED
      BY <2>1, <3>1 DEF KeyTable
  <2>3. Principal(cred) = [user |-> key.owner, role |-> users[key.owner].role,
                           restricted |-> TRUE, scopes |-> key.scopes]
    BY <1>2, <2>1, <2>2 DEF Principal
  <2>4. QED
    BY <1>2, <2>1, <2>3
<1>3. QED
  BY <1>1, <1>2

\* What is known of a credential when it is first presented and resolves.
LEMMA PresentedCredential ==
  ASSUME KeysInv, NEW cred \in Credentials, Resolves(cred)
  PROVE  Presented(cred) /\ Carries(cred, Principal(cred))
<1>1. CASE cred \in sessions
  <2>1. cred.kind = "session" /\ cred.until \in Nat
    BY <1>1 DEF KeysInv
  <2>2. Principal(cred).restricted = FALSE
    BY <2>1, PrincipalOf DEF KeysInv
  <2>3. QED
    BY <2>1, <2>2 DEF Presented, Carries
<1>2. CASE \E key \in apiKeys : cred = KeyToken(key)
  <2>1. PICK key \in apiKeys : cred = KeyToken(key)
    BY <1>2
  <2>2. cred.kind = "key" /\ cred.id \in Nat /\ cred.id < minted
    BY <2>1 DEF KeyToken, KeysInv, KeyTable
  <2>3. PICK k \in apiKeys : k.id = cred.id /\ Principal(cred).scopes = k.scopes
    BY <2>2, PrincipalOf DEF KeysInv
  <2>4. \A other \in apiKeys : other.id = cred.id => other = k
    BY <2>3 DEF KeysInv, KeyTable
  <2>5. QED
    BY <2>2, <2>3, <2>4 DEF Presented, Carries
<1>3. QED
  BY <1>1, <1>2 DEF Credentials

\* Whom a credential stands for at a reading, it identifies from then on.
LEMMA ReadingIdentifies ==
  ASSUME KeyTable, NEW cred, Presented(cred), Resolves(cred)
  PROVE  Identifies(cred, Principal(cred).user)
<1>1. CASE cred.kind = "session"
  BY <1>1, PrincipalOf DEF Identifies
<1>2. CASE cred.kind = "key"
  <2>1. PICK key \in apiKeys : key.id = cred.id /\ Principal(cred).user = key.owner
    BY <1>2, PrincipalOf
  <2>2. \A other \in apiKeys : other.id = cred.id => other = key
    BY <2>1 DEF KeyTable
  <2>3. QED
    BY <1>2, <2>1, <2>2 DEF Identifies
<1>3. QED
  BY <1>1, <1>2 DEF Presented

\* A later reading has the authority of the same user, or none.
LEMMA LaterReading ==
  ASSUME KeyTable, NEW cred, NEW u, Identifies(cred, u), Principal(cred).role = "admin"
  PROVE  users[u].role = "admin"
<1>1. Resolves(cred)
  BY DEF Resolves, Nobody
<1>2. CASE cred.kind = "session" /\ cred.user = u
  BY <1>1, <1>2, PrincipalOf
<1>3. CASE cred.kind = "key" /\ \A key \in apiKeys : key.id = cred.id => key.owner = u
  <2>1. PICK key \in apiKeys : key.id = cred.id /\ Principal(cred).user = key.owner
    BY <1>1, <1>3, PrincipalOf
  <2>2. QED
    BY <1>1, <1>3, <2>1, PrincipalOf
<1>4. QED
  BY <1>2, <1>3 DEF Identifies

\* Nobody's account belongs to no organisation: its plan is the floor.
LEMMA AnonymousIsFree ==
  ASSUME OrgsInv
  PROVE  EffectivePlan(Anonymous) = "free"
<1>1. ListOrgs(Anonymous) = {}
  BY AccountsAssumption DEF OrgsInv, ListOrgs
<1>2. {"free"} \union {o.plan : o \in ListOrgs(Anonymous)} = {"free"}
  BY <1>1
<1>3. "free" \in Plans /\ Limit["free"] <= Limit["free"]
  BY PlansAssumption DEF Plans
<1>4. EffectivePlan(Anonymous) = CHOOSE p \in Plans : p \in {"free"} /\ \A q \in {"free"} : Limit[q] <= Limit[p]
  BY <1>2 DEF EffectivePlan
<1>5. QED
  BY <1>3, <1>4

-----------------------------------------------------------------------------
(* Steps *)

\* A credential that lapsed stays lapsed: the clock goes on, keys only go,
\* and only a restart changes the secret.
LEMMA LapsedForGood ==
  ASSUME KeysInv, NEW cred, Presented(cred), UNCHANGED <<users, secret>>,
         now' \in {now, now + 1}, \A key \in apiKeys' : key \in apiKeys \/ key.id = minted,
         KeyTable', Resolves(cred)'
  PROVE  Resolves(cred)
<1>1. now \in Nat /\ minted \in Nat
  BY DEF KeysInv, KeyTable
<1>2. CASE cred.kind = "session"
  <2>1. cred.secret = secret /\ now' < cred.until /\ cred.user \in DOMAIN users
    BY <1>2 DEF Resolves, Principal
  <2>2. now < cred.until
    BY <1>1, <1>2, <2>1 DEF Presented
  <2>3. Principal(cred)' = Principal(cred)
    BY <1>2, <2>1, <2>2 DEF Principal
  <2>4. QED
    BY <2>3 DEF Resolves, Nobody
<1>3. CASE cred.kind = "key"
  <2>1. PICK key \in apiKeys' : key.id = cred.id /\ now' < key.until /\ key.owner \in DOMAIN users
    BY <1>3 DEF Resolves, Principal
  <2>2. key \in apiKeys
    BY <1>1, <1>3, <2>1 DEF Presented
  <2>3. now < key.until
    BY <1>1, <2>1, <2>2 DEF KeysInv, KeyTable
  <2>4. Principal(cred).restricted = TRUE
    BY <1>3, <2>1, <2>2, <2>3 DEF Principal
  <2>5. QED
    BY <2>4 DEF Resolves, Nobody
<1>4. QED
  BY <1>2, <1>3 DEF Presented

\* A request is not disturbed by keys that go, by new ones and by the clock.
LEMMA RequestKept ==
  ASSUME KeysInv, NEW w \in Workers, requests'[w] = requests[w], UNCHANGED <<users, secret>>,
         minted' \in {minted, minted + 1}, now' \in {now, now + 1}, KeyTable',
         \A key \in apiKeys' : key \in apiKeys \/ key.id = minted
  PROVE  RequestInv(requests[w])'
<1> DEFINE request == requests[w]
<1>1. RequestInv(request) /\ minted \in Nat
  BY DEF KeysInv, KeyTable
<1>2. \A n \in Nat : n < minted => n < minted' /\ n # minted
  BY <1>1
<1>3. \A cred : Presented(cred) => Presented(cred)'
  BY <1>2 DEF Presented
<1>4. \A cred, u : Presented(cred) /\ Identifies(cred, u) => Identifies(cred, u)'
  BY <1>2 DEF Presented, Identifies
<1>5. \A cred, by : Presented(cred) /\ Carries(cred, by) => Carries(cred, by)'
  BY <1>2 DEF Presented, Carries
<1>6. request.op \in {"identify", "judge", "plan", "scopes"} =>
        Presented(requests[w].cred)' /\ Carries(requests[w].cred, requests[w].by)'
  BY <1>1, <1>3, <1>5 DEF RequestInv, Presented, Carries
<1>7. request.op = "judge" =>
        \/ request.user = Anonymous /\ ~Resolves(requests[w].cred)'
        \/ request.user \in DOMAIN users /\ Identifies(requests[w].cred, requests[w].user)'
  <2> SUFFICES ASSUME request.op = "judge"
               PROVE  \/ request.user = Anonymous /\ ~Resolves(requests[w].cred)'
                      \/ request.user \in DOMAIN users /\ Identifies(requests[w].cred, requests[w].user)'
    OBVIOUS
  <2>1. Presented(request.cred)
    BY <1>1 DEF RequestInv
  <2>2. CASE request.user = Anonymous /\ ~Resolves(request.cred)
    <3> DEFINE cred == request.cred
    <3>1. ~Resolves(cred)'
      BY <2>1, <2>2, LapsedForGood
    <3>2. QED
      BY <2>2, <3>1 DEF Resolves, Principal
  <2>3. CASE request.user \in DOMAIN users /\ Identifies(request.cred, request.user)
    BY <1>4, <2>1, <2>3 DEF Identifies
  <2>4. QED
    BY <1>1, <2>2, <2>3 DEF RequestInv
<1>8. QED
  BY <1>1, <1>6, <1>7 DEF RequestInv, Grantable

\* A step that changes one request only.
LEMMA ReadingStep ==
  ASSUME KeysInv, NEW w \in Workers, NEW request,
         requests' = [requests EXCEPT ![w] = request],
         requests[w].op # "audit", UNCHANGED <<rows, world>>,
         RequestInv(requests[w])'
  PROVE  KeysInv'
<1>1. DOMAIN requests' = Workers /\ \A x \in Workers : x # w => requests'[x] = requests[x]
  BY DEF KeysInv
<1>2. UNCHANGED <<orgs, users, sessions, apiKeys, audit, minted>> /\ UNCHANGED <<secret, restarts, now>>
  BY DEF rows, world
<1>3. KeyTable' /\ OrgsInv'
  BY <1>2 DEF KeysInv, KeyTable, OrgsInv
<1>4. \A x \in Workers : RequestInv(requests[x])'
  BY <1>1, <1>2, <1>3, RequestKept
<1>5. KeysAreAudited'
  BY <1>1, <1>2 DEF KeysInv, KeysAreAudited
<1>6. QED
  BY <1>1, <1>2, <1>3, <1>4, <1>5 DEF KeysInv, Grantable

LEMMA MintStartKeeps ==
  ASSUME KeysInv, NEW w \in Workers, NEW cred \in Credentials, NEW scopes \in Asked,
         NEW ttl \in KeyTTLs, MintStart(w, cred, scopes, ttl)
  PROVE  KeysInv'
<1> DEFINE request == [op |-> "identify", cred |-> cred, scopes |-> scopes, ttl |-> ttl,
                       by |-> Principal(cred)]
<1>1. /\ requests' = [requests EXCEPT ![w] = request] /\ requests[w].op # "audit"
      /\ scopes \subseteq KnownScopes /\ UNCHANGED <<rows, world>>
  BY DEF MintStart, Becomes
<1>2. requests'[w] = request
  BY <1>1 DEF KeysInv
<1>3. Presented(cred) /\ Carries(cred, Principal(cred)) /\ ttl \in Nat
  BY PresentedCredential, AccountsAssumption DEF MintStart
<1>4. UNCHANGED <<minted, apiKeys>>
  BY <1>1 DEF rows
<1>5. Presented(requests[w].cred)' /\ Carries(requests[w].cred, requests[w].by)'
  BY <1>2, <1>3, <1>4 DEF Presented, Carries
<1>6. RequestInv(requests[w])'
  BY <1>1, <1>2, <1>3, <1>5 DEF RequestInv
<1>7. QED
  BY <1>1, <1>6, ReadingStep

\* The email is that of whom the credential stands for then, or nobody's.
LEMMA MintEmailKeeps ==
  ASSUME KeysInv, NEW w \in Workers, MintEmail(w)
  PROVE  KeysInv'
<1> DEFINE asked == requests[w]
           cred == asked.cred
           onward == [op |-> "judge", cred |-> cred, scopes |-> asked.scopes, ttl |-> asked.ttl,
                      by |-> asked.by, user |-> CurrentEmail(cred)]
<1>1. /\ asked.op = "identify" /\ requests' = [requests EXCEPT ![w] = onward]
      /\ UNCHANGED <<rows, world>>
  BY DEF MintEmail, Becomes
<1>2. requests'[w] = onward
  BY <1>1 DEF KeysInv
<1>3. /\ Presented(cred) /\ Carries(cred, asked.by) /\ asked.ttl \in Nat
      /\ asked.scopes \subseteq KnownScopes
  BY <1>1 DEF KeysInv, RequestInv
<1>4. UNCHANGED <<users, apiKeys, minted>> /\ UNCHANGED <<secret, now>>
  BY <1>1 DEF rows, world
<1>5. Presented(requests[w].cred)' /\ Carries(requests[w].cred, requests[w].by)'
  BY <1>2, <1>3, <1>4 DEF Presented, Carries
<1>6. \/ CurrentEmail(cred) = Anonymous /\ ~Resolves(cred)
      \/ CurrentEmail(cred) \in DOMAIN users /\ Identifies(cred, CurrentEmail(cred))
  BY <1>3, PrincipalOf, ReadingIdentifies DEF KeysInv, CurrentEmail
<1>7. \/ requests'[w].user = Anonymous /\ ~Resolves(requests[w].cred)'
      \/ requests'[w].user \in DOMAIN users' /\ Identifies(requests[w].cred, requests[w].user)'
  <2>1. requests'[w].cred = cred /\ requests'[w].user = CurrentEmail(cred)
    BY <1>2
  <2>2. Principal(requests[w].cred)' = Principal(cred)
    BY <1>4, <2>1, Zenon DEF Principal
  <2>3. CASE CurrentEmail(cred) = Anonymous /\ ~Resolves(cred)
    BY <2>1, <2>2, <2>3 DEF Resolves, Nobody
  <2>4. CASE CurrentEmail(cred) \in DOMAIN users /\ Identifies(cred, CurrentEmail(cred))
    BY <1>4, <2>1, <2>4 DEF Identifies
  <2>5. QED
    BY <1>6, <2>3, <2>4
<1>8. RequestInv(requests[w])'
  BY <1>2, <1>3, <1>5, <1>7 DEF RequestInv
<1>9. QED
  BY <1>1, <1>8, ReadingStep

LEMMA MintJudgeKeeps ==
  ASSUME KeysInv, NEW w \in Workers, MintJudge(w)
  PROVE  KeysInv'
<1> DEFINE asked == requests[w]
           cred == asked.cred
           caller == Principal(cred)
           lapsed == ~Resolves(cred)
           granted == [op |-> "store", user |-> asked.user, scopes |-> asked.scopes,
                       ttl |-> asked.ttl, by |-> asked.by, lapsed |-> lapsed]
<1> HIDE DEF lapsed
<1>1. asked.op = "judge" /\ UNCHANGED <<rows, world>> /\ UNCHANGED users
  BY DEF MintJudge, rows
<1>2. /\ asked.scopes \subseteq KnownScopes /\ asked.ttl \in Nat
      /\ Presented(cred) /\ Carries(cred, asked.by)
      /\ \/ asked.user = Anonymous /\ ~Resolves(cred)
         \/ asked.user \in DOMAIN users /\ Identifies(cred, asked.user)
  BY <1>1 DEF KeysInv, RequestInv
<1>3. CASE /\ CanGrant("admin", asked.scopes, caller.role = "admin", caller)
           /\ CanGrant("enterprise", asked.scopes,
                       HasEntitlement(caller.role, EffectivePlan(asked.user)), caller)
  <2>1. requests' = [requests EXCEPT ![w] = granted]
    BY <1>3 DEF MintJudge, Becomes, lapsed
  <2>2. requests'[w] = granted
    BY <2>1 DEF KeysInv
  <2>3. ~Resolves(cred) => caller.role = "analyst"
    BY DEF Resolves, Nobody
  <2>4. "admin" \in asked.scopes => asked.user \in DOMAIN users /\ users[asked.user].role = "admin"
    BY <1>2, <1>3, <2>3, LaterReading DEF CanGrant, KeysInv
  <2>5. asked.user = Anonymous => asked.scopes = {}
    <3> SUFFICES ASSUME asked.user = Anonymous
                 PROVE  asked.scopes = {}
      OBVIOUS
    <3>1. caller.role = "analyst" /\ EffectivePlan(asked.user) = "free"
      BY <1>2, <2>3, AnonymousIsFree DEF KeysInv
    <3>2. "admin" \notin asked.scopes /\ "enterprise" \notin asked.scopes
      BY <1>3, <3>1 DEF CanGrant, HasEntitlement
    <3>3. QED
      BY <1>2, <3>2 DEF KnownScopes
  <2>6. asked.by.restricted /\ Resolves(cred) => asked.scopes \subseteq asked.by.scopes
    <3> SUFFICES ASSUME asked.by.restricted, Resolves(cred)
                 PROVE  asked.scopes \subseteq asked.by.scopes
      OBVIOUS
    <3>1. PICK key \in apiKeys : /\ key.id = cred.id /\ caller.restricted = TRUE
                                 /\ caller.scopes = key.scopes
      BY <1>2, PrincipalOf DEF KeysInv, Carries
    <3>2. caller.scopes = asked.by.scopes
      BY <1>2, <3>1 DEF Carries
    <3>3. QED
      BY <1>2, <1>3, <3>1, <3>2 DEF CanGrant, KnownScopes
  <2>7. ~Resolves(cred) => asked.scopes \subseteq {"enterprise"}
    BY <1>2, <1>3, <2>3 DEF CanGrant, KnownScopes
  <2>8. Grantable(asked.scopes, asked.user, asked.by, lapsed)
    BY <1>2, <2>4, <2>5, <2>6, <2>7 DEF Grantable, lapsed
  <2>9. Grantable(requests[w].scopes, requests[w].user, requests[w].by, requests[w].lapsed)'
    <3>1. /\ requests'[w].scopes = asked.scopes /\ requests'[w].user = asked.user
          /\ requests'[w].by = asked.by /\ requests'[w].lapsed = lapsed
      BY <2>2
    <3>2. QED
      BY <1>1, <2>8, <3>1, Zenon DEF Grantable
  <2>10. RequestInv(requests[w])'
    BY <1>2, <2>2, <2>9 DEF RequestInv
  <2>11. QED
    BY <1>1, <2>1, <2>10, ReadingStep
<1>4. CASE requests' = [requests EXCEPT ![w] = Free]
  <2>1. requests'[w] = Free
    BY <1>4 DEF KeysInv
  <2>2. RequestInv(requests[w])'
    BY <2>1 DEF RequestInv, Free
  <2>3. QED
    BY <1>1, <1>4, <2>2, ReadingStep
<1>5. QED
  BY <1>3, <1>4 DEF MintJudge, Becomes, lapsed

LEMMA MintStoreKeeps ==
  ASSUME KeysInv, NEW w \in Workers, MintStore(w)
  PROVE  KeysInv'
<1> DEFINE asked == requests[w]
           new == [id |-> minted, owner |-> asked.user, scopes |-> asked.scopes,
                   until |-> now + asked.ttl, by |-> asked.by, lapsed |-> asked.lapsed]
           entry == <<"api_key.create", minted>>
<1>1. /\ asked.op = "store" /\ minted' = minted + 1 /\ apiKeys' = apiKeys \union {new}
      /\ requests' = [requests EXCEPT ![w] = [op |-> "audit", entry |-> entry]]
      /\ UNCHANGED <<orgs, users, sessions, audit>> /\ UNCHANGED <<secret, restarts, now>>
  BY DEF MintStore, Audited, Becomes, world
<1>2. /\ DOMAIN requests' = Workers
      /\ requests'[w] = [op |-> "audit", entry |-> entry]
      /\ \A x \in Workers : x # w => requests'[x] = requests[x]
  BY <1>1 DEF KeysInv
<1>3. asked.ttl \in Nat /\ Grantable(asked.scopes, asked.user, asked.by, asked.lapsed)
  BY <1>1 DEF KeysInv, RequestInv
<1>4. minted \in Nat /\ now \in Nat
  BY DEF KeysInv, KeyTable
<1>5. /\ new.id = minted /\ new.owner = asked.user /\ new.scopes = asked.scopes
      /\ new.until \in Nat /\ new.by = asked.by /\ new.lapsed = asked.lapsed
  BY <1>3, <1>4
<1>6. KeyTable' /\ OrgsInv'
  <2>1. \A key \in apiKeys' : key.id \in Nat /\ key.id < minted' /\ key.until \in Nat
    BY <1>1, <1>4, <1>5 DEF KeysInv, KeyTable
  <2>2. \A a, b \in apiKeys' : a.id = b.id => a = b
    BY <1>1, <1>4, <1>5 DEF KeysInv, KeyTable
  <2>3. QED
    BY <1>1, <1>4, <2>1, <2>2 DEF KeysInv, KeyTable, OrgsInv
<1>7. RequestInv(requests[w])'
  BY <1>2 DEF RequestInv
<1>8. \A x \in Workers : RequestInv(requests[x])'
  <2> SUFFICES ASSUME NEW x \in Workers, x # w
               PROVE  RequestInv(requests[x])'
    BY <1>7
  <2>1. \A key \in apiKeys' : key \in apiKeys \/ key.id = minted
    BY <1>1, <1>5
  <2>2. QED
    BY <1>1, <1>2, <1>6, <2>1, RequestKept
<1>9. \A key \in apiKeys' : Grantable(key.scopes, key.owner, key.by, key.lapsed)'
  <2>1. Grantable(new.scopes, new.owner, new.by, new.lapsed)
    BY <1>3, <1>5
  <2>2. \A key \in apiKeys' : Grantable(key.scopes, key.owner, key.by, key.lapsed)
    BY <1>1, <2>1 DEF KeysInv
  <2>3. QED
    BY <1>1, <2>2 DEF Grantable
<1>10. KeysAreAudited'
  <2> SUFFICES ASSUME restarts = 0, NEW key \in apiKeys'
               PROVE  \/ <<"api_key.create", key.id>> \in audit
                      \/ \E x \in Workers : /\ requests'[x].op = "audit"
                                            /\ requests'[x].entry = <<"api_key.create", key.id>>
    BY <1>1 DEF KeysAreAudited
  <2>1. CASE key = new
    BY <1>2, <1>5, <2>1
  <2>2. CASE key \in apiKeys
    <3>1. \/ <<"api_key.create", key.id>> \in audit
          \/ \E x \in Workers : /\ requests[x].op = "audit"
                                /\ requests[x].entry = <<"api_key.create", key.id>>
      BY <2>2 DEF KeysInv, KeysAreAudited
    <3>2. QED
      BY <1>1, <1>2, <3>1
  <2>3. QED
    BY <1>1, <2>1, <2>2
<1>11. QED
  BY <1>1, <1>2, <1>6, <1>8, <1>9, <1>10 DEF KeysInv

LEMMA RevokeKeeps ==
  ASSUME KeysInv, NEW w \in Workers, NEW cred \in Credentials, NEW key \in apiKeys,
         Revoke(w, cred, key)
  PROVE  KeysInv'
<1> DEFINE entry == <<"api_key.revoke", key.id>>
<1>1. /\ requests[w].op = "free" /\ apiKeys' = apiKeys \ {key}
      /\ requests' = [requests EXCEPT ![w] = [op |-> "audit", entry |-> entry]]
      /\ UNCHANGED <<orgs, users, sessions, audit, minted>> /\ UNCHANGED <<secret, restarts, now>>
  BY DEF Revoke, Audited, Becomes, world
<1>2. /\ DOMAIN requests' = Workers
      /\ requests'[w] = [op |-> "audit", entry |-> entry]
      /\ \A x \in Workers : x # w => requests'[x] = requests[x]
  BY <1>1 DEF KeysInv
<1>3. KeyTable' /\ OrgsInv'
  BY <1>1 DEF KeysInv, KeyTable, OrgsInv
<1>4. \A x \in Workers : RequestInv(requests[x])'
  <2>1. RequestInv(requests[w])'
    BY <1>2 DEF RequestInv
  <2>2. QED
    BY <1>1, <1>2, <1>3, <2>1, RequestKept
<1>5. KeysAreAudited'
  BY <1>1, <1>2 DEF KeysInv, KeysAreAudited
<1>6. QED
  BY <1>1, <1>2, <1>3, <1>4, <1>5 DEF KeysInv, Grantable

LEMMA EnterStartKeeps ==
  ASSUME KeysInv, NEW w \in Workers, NEW cred \in Credentials, EnterStart(w, cred)
  PROVE  KeysInv'
<1> DEFINE request == [op |-> "plan", cred |-> cred, by |-> Principal(cred)]
<1>1. /\ requests' = [requests EXCEPT ![w] = request] /\ requests[w].op # "audit"
      /\ UNCHANGED <<rows, world>> /\ UNCHANGED <<minted, apiKeys>>
  BY DEF EnterStart, Becomes, rows
<1>2. requests'[w] = request
  BY <1>1 DEF KeysInv
<1>3. Presented(cred) /\ Carries(cred, Principal(cred))
  BY PresentedCredential DEF EnterStart
<1>4. Presented(requests[w].cred)' /\ Carries(requests[w].cred, requests[w].by)'
  BY <1>1, <1>2, <1>3 DEF Presented, Carries
<1>5. RequestInv(requests[w])'
  BY <1>2, <1>4 DEF RequestInv
<1>6. QED
  BY <1>1, <1>5, ReadingStep

LEMMA EnterPlanKeeps ==
  ASSUME KeysInv, NEW w \in Workers, EnterPlan(w)
  PROVE  KeysInv'
<1> DEFINE asked == requests[w]
           onward == [op |-> "scopes", cred |-> asked.cred, by |-> asked.by]
<1>1. asked.op = "plan" /\ UNCHANGED <<rows, world>> /\ UNCHANGED <<minted, apiKeys>>
  BY DEF EnterPlan, rows
<1>2. PICK request \in {onward, Free} : requests' = [requests EXCEPT ![w] = request]
  BY DEF EnterPlan, Becomes
<1>3. requests'[w] = request
  BY <1>2 DEF KeysInv
<1>4. Presented(asked.cred) /\ Carries(asked.cred, asked.by)
  BY <1>1 DEF KeysInv, RequestInv
<1>5. CASE request = onward
  <2>1. Presented(requests[w].cred)' /\ Carries(requests[w].cred, requests[w].by)'
    BY <1>1, <1>3, <1>4, <1>5 DEF Presented, Carries
  <2>2. RequestInv(requests[w])'
    BY <1>3, <1>5, <2>1 DEF RequestInv
  <2>3. QED
    BY <1>1, <1>2, <2>2, ReadingStep
<1>6. CASE request = Free
  <2>1. RequestInv(requests[w])'
    BY <1>3, <1>6 DEF RequestInv, Free
  <2>2. QED
    BY <1>1, <1>2, <2>1, ReadingStep
<1>7. QED
  BY <1>2, <1>5, <1>6

\* A key that still resolves is admitted with its scope.
LEMMA EnterScopesKeeps ==
  ASSUME KeysInv, NEW w \in Workers, EnterScopes(w)
  PROVE  KeysInv'
<1> DEFINE asked == requests[w]
           cred == asked.cred
           lapsed == ~Resolves(cred)
           onward == [op |-> "admitted", by |-> asked.by, lapsed |-> lapsed]
<1> HIDE DEF lapsed
<1>1. asked.op = "scopes" /\ UNCHANGED <<rows, world>>
  BY DEF EnterScopes
<1>2. Presented(cred) /\ Carries(cred, asked.by)
  BY <1>1 DEF KeysInv, RequestInv
<1>3. CASE ScopesAllow(Principal(cred)) /\ requests' = [requests EXCEPT ![w] = onward]
  <2>1. requests'[w] = onward
    BY <1>3 DEF KeysInv
  <2>2. asked.by.restricted /\ Resolves(cred) => "enterprise" \in asked.by.scopes
    <3> SUFFICES ASSUME asked.by.restricted, Resolves(cred)
                 PROVE  "enterprise" \in asked.by.scopes
      OBVIOUS
    <3>1. PICK key \in apiKeys : /\ key.id = cred.id /\ Principal(cred).restricted = TRUE
                                 /\ Principal(cred).scopes = key.scopes
      BY <1>2, PrincipalOf DEF KeysInv, Carries
    <3>2. QED
      BY <1>2, <1>3, <3>1 DEF Carries, ScopesAllow
  <2>3. requests'[w].by.restricted => "enterprise" \in requests'[w].by.scopes \/ requests'[w].lapsed
    <3>1. requests'[w].by = asked.by /\ requests'[w].lapsed = lapsed
      BY <2>1
    <3>2. QED
      BY <2>2, <3>1, Zenon DEF lapsed
  <2>4. requests'[w].op = "admitted"
    BY <2>1
  <2>5. RequestInv(requests[w])'
    BY <2>3, <2>4 DEF RequestInv
  <2>6. QED
    BY <1>1, <1>3, <2>5, ReadingStep
<1>4. CASE requests' = [requests EXCEPT ![w] = Free]
  <2>1. requests'[w] = Free
    BY <1>4 DEF KeysInv
  <2>2. RequestInv(requests[w])'
    BY <2>1 DEF RequestInv, Free
  <2>3. QED
    BY <1>1, <1>4, <2>2, ReadingStep
<1>5. QED
  BY <1>3, <1>4 DEF EnterScopes, Becomes, lapsed

LEMMA EnterAnswerKeeps ==
  ASSUME KeysInv, NEW w \in Workers, EnterAnswer(w)
  PROVE  KeysInv'
<1>1. /\ requests[w].op # "audit" /\ requests' = [requests EXCEPT ![w] = Free]
      /\ UNCHANGED <<rows, world>>
  BY DEF EnterAnswer, Becomes
<1>2. requests'[w] = Free
  BY <1>1 DEF KeysInv
<1>3. RequestInv(requests[w])'
  BY <1>2 DEF RequestInv, Free
<1>4. QED
  BY <1>1, <1>3, ReadingStep

LEMMA WriteAuditKeeps ==
  ASSUME KeysInv, NEW w \in Workers, WriteAudit(w)
  PROVE  KeysInv'
<1>1. /\ requests[w].op = "audit" /\ audit' = audit \union {requests[w].entry}
      /\ requests' = [requests EXCEPT ![w] = Free]
      /\ UNCHANGED <<orgs, users, sessions, apiKeys, minted>> /\ UNCHANGED <<secret, restarts, now>>
  BY DEF WriteAudit, Becomes, world
<1>2. /\ DOMAIN requests' = Workers /\ requests'[w] = Free
      /\ \A x \in Workers : x # w => requests'[x] = requests[x]
  BY <1>1 DEF KeysInv
<1>3. KeyTable' /\ OrgsInv'
  BY <1>1 DEF KeysInv, KeyTable, OrgsInv
<1>4. \A x \in Workers : RequestInv(requests[x])'
  <2>1. RequestInv(requests[w])'
    BY <1>2 DEF RequestInv, Free
  <2>2. QED
    BY <1>1, <1>2, <1>3, <2>1, RequestKept
<1>5. KeysAreAudited'
  BY <1>1, <1>2 DEF KeysInv, KeysAreAudited
<1>6. QED
  BY <1>1, <1>2, <1>3, <1>4, <1>5 DEF KeysInv, Grantable

\* The clock, a restart and a change of plan.
LEMMA TickKeeps ==
  ASSUME KeysInv, Tick
  PROVE  KeysInv'
<1>1. /\ now' = now + 1 /\ now \in Nat
      /\ UNCHANGED <<orgs, users, sessions, apiKeys, requests, audit, minted, secret, restarts>>
  BY DEF Tick, KeysInv
<1>2. KeyTable' /\ OrgsInv'
  BY <1>1 DEF KeysInv, KeyTable, OrgsInv
<1>3. \A x \in Workers : RequestInv(requests[x])'
  BY <1>1, <1>2, RequestKept
<1>4. QED
  BY <1>1, <1>2, <1>3 DEF KeysInv, Grantable, KeysAreAudited

LEMMA RestartKeeps ==
  ASSUME KeysInv, Restart
  PROVE  KeysInv'
<1>1. /\ restarts' = restarts + 1 /\ restarts \in Nat /\ requests' = [w \in Workers |-> Free]
      /\ UNCHANGED <<orgs, users, sessions, apiKeys, audit, minted, now>>
  BY DEF Restart, KeysInv
<1>2. KeyTable' /\ OrgsInv'
  BY <1>1 DEF KeysInv, KeyTable, OrgsInv
<1>3. \A x \in Workers : RequestInv(requests[x])'
  BY <1>1 DEF RequestInv, Free
<1>4. KeysAreAudited'
  BY <1>1 DEF KeysAreAudited
<1>5. QED
  BY <1>1, <1>2, <1>3, <1>4 DEF KeysInv, Grantable

LEMMA UnchangedKeeps ==
  ASSUME KeysInv, OrgsInv',
         UNCHANGED <<users, sessions, apiKeys, audit, minted, requests, secret, restarts, now>>
  PROVE  KeysInv'
<1>1. KeyTable'
  BY DEF KeysInv, KeyTable
<1>2. \A x \in Workers : RequestInv(requests[x])'
  BY <1>1, RequestKept DEF KeysInv
<1>3. QED
  BY <1>1, <1>2 DEF KeysInv, Grantable, KeysAreAudited

LEMMA OrgsPlanned ==
  ASSUME OrgsInv, NEW u, NEW org, NEW plan, SetOrgPlan(u, org, plan)
  PROVE  OrgsInv'
<1> DEFINE new == [org EXCEPT !.plan = plan]
<1>1. /\ plan \in Plans /\ org \in orgs /\ orgs' = (orgs \ {org}) \union {new}
      /\ DOMAIN org = {"id", "owner", "members", "plan"}
  BY DEF SetOrgPlan, OrgsInv
<1>2. /\ DOMAIN new = {"id", "owner", "members", "plan"} /\ new.plan = plan
      /\ new.owner = org.owner /\ new.members = org.members
  BY <1>1
<1>3. QED
  BY <1>1, <1>2 DEF OrgsInv

LEMMA NextKeysInv == KeysInv /\ [KeysNext]_accountVars => KeysInv'
<1> SUFFICES ASSUME KeysInv, [KeysNext]_accountVars
             PROVE  KeysInv'
  OBVIOUS
<1>1. CASE UNCHANGED accountVars
  <2>1. OrgsInv'
    BY <1>1 DEF accountVars, rows, KeysInv, OrgsInv
  <2>2. QED
    BY <1>1, <2>1, UnchangedKeeps DEF accountVars, rows, world
<1>2. CASE \E w \in Workers :
             \/ WriteAudit(w) \/ MintEmail(w) \/ MintJudge(w) \/ MintStore(w)
             \/ EnterPlan(w) \/ EnterScopes(w) \/ EnterAnswer(w)
  BY <1>2, WriteAuditKeeps, MintEmailKeeps, MintJudgeKeeps, MintStoreKeeps, EnterPlanKeeps,
     EnterScopesKeeps, EnterAnswerKeeps
<1>3. CASE \E w \in Workers, cred \in Credentials :
             \/ EnterStart(w, cred)
             \/ \E scopes \in Asked, ttl \in KeyTTLs : MintStart(w, cred, scopes, ttl)
             \/ \E key \in apiKeys : Revoke(w, cred, key)
  BY <1>3, EnterStartKeeps, MintStartKeeps, RevokeKeeps
<1>4. CASE Restart \/ Tick
  BY <1>4, RestartKeeps, TickKeeps
<1>5. CASE /\ \E u \in Users, org \in orgs, plan \in Telling : SetOrgPlan(u, org, plan)
           /\ UNCHANGED <<users, sessions, apiKeys, issued, honoured, audit, minted, requests, world>>
  BY <1>5, OrgsPlanned, UnchangedKeeps DEF world, KeysInv
<1>6. QED
  BY <1>1, <1>2, <1>3, <1>4, <1>5 DEF KeysNext

\* The invariant of the key service keeps what keys may do.
LEMMA KeysInvImplies ==
  ASSUME KeysInv
  PROVE  KeysBounded
<1>1. ScopesDescend /\ AdminKeysBelongToAdmins
  BY DEF KeysInv, Grantable, ScopesDescend, AdminKeysBelongToAdmins
<1>2. AdmittedWithScope
  BY DEF KeysInv, RequestInv, AdmittedWithScope
<1>3. QED
  BY <1>1, <1>2 DEF KeysInv, KeysBounded

-----------------------------------------------------------------------------
(* Counting *)

\* Where a sequence has elements of a set.
At(s, T) == {i \in DOMAIN s : s[i] \in T}

\* One element more counts if it is one of those counted.
LEMMA CountAppend ==
  ASSUME NEW S, NEW s \in Seq(S), NEW x \in S, NEW T,
         IsFiniteSet(At(s, T))
  PROVE  /\ IsFiniteSet(At(Append(s, x), T))
         /\ Cardinality(At(Append(s, x), T)) = Cardinality(At(s, T)) + (IF x \in T THEN 1 ELSE 0)
<1> DEFINE longer == Append(s, x)
           old == At(s, T)
           counted == At(longer, T)
<1>1. /\ Len(s) \in Nat /\ DOMAIN s = 1 .. Len(s) /\ DOMAIN longer = 1 .. Len(s) + 1
      /\ \A i \in 1 .. Len(s) : longer[i] = s[i]
      /\ longer[Len(s) + 1] = x
  OBVIOUS
<1>2. CASE x \in T
  <2>1. counted = old \union {Len(s) + 1} /\ Len(s) + 1 \notin old
    BY <1>1, <1>2 DEF At
  <2>2. IsFiniteSet(counted) /\ Cardinality(counted) = Cardinality(old) + 1
    <3> HIDE DEF old, counted
    <3> QED
      BY <2>1, FS_AddElement DEF old
  <2>3. QED
    BY <1>2, <2>2
<1>3. CASE x \notin T
  <2>1. counted = old
    BY <1>1, <1>3 DEF At
  <2>2. Cardinality(counted) = Cardinality(old) + 0
    <3>1. Cardinality(old) \in Nat
      BY FS_CardinalityType
    <3> HIDE DEF old, counted
    <3>2. QED
      BY <2>1, <3>1
  <2>3. QED
    BY <1>3, <2>1, <2>2
<1>4. QED
  BY <1>2, <1>3

\* A set of threads from which one goes, or to which one comes.
LEMMA CountThreads ==
  ASSUME NEW S, IsFiniteSet(S), NEW x, NEW A \in SUBSET S, NEW B \in SUBSET S
  PROVE  /\ Cardinality(A) \in Nat /\ Cardinality(S) \in Nat /\ Cardinality(A) <= Cardinality(S)
         /\ A \subseteq B => Cardinality(A) <= Cardinality(B)
         /\ x \in A /\ B = A \ {x} => Cardinality(B) = Cardinality(A) - 1
         /\ x \notin A /\ B = A \union {x} => Cardinality(B) = Cardinality(A) + 1
<1>1. IsFiniteSet(A) /\ IsFiniteSet(B)
  BY FS_Subset
<1>2. Cardinality(A) \in Nat /\ Cardinality(S) \in Nat /\ Cardinality(A) <= Cardinality(S)
  BY <1>1, FS_CardinalityType, FS_Subset
<1>3. A \subseteq B => Cardinality(A) <= Cardinality(B)
  BY <1>1, FS_Subset
<1>4. x \in A /\ B = A \ {x} => Cardinality(B) = Cardinality(A) - 1
  BY <1>1, FS_RemoveElement
<1>5. x \notin A /\ B = A \union {x} => Cardinality(B) = Cardinality(A) + 1
  BY <1>1, FS_AddElement
<1>6. QED
  BY <1>2, <1>3, <1>4, <1>5

-----------------------------------------------------------------------------
(* Signing in: resets that overlap are all counted, and bounded. *)

UserRow(n) == [password : Nat, role : {"analyst", "admin"}, token : 0 .. n, expires : Nat]

\* The threads that have read a token and not set the password yet.
Confirming(t) == {w \in Workers : requests[w].op = "reset" /\ requests[w].token = t}

\* The updates of a row keep its type.
LEMMA RowUpdates ==
  ASSUME NEW n \in Nat, NEW row \in UserRow(n), NEW password \in Nat, NEW token \in 0 .. n,
         NEW expires \in Nat
  PROVE  /\ [row EXCEPT !.token = token, !.expires = expires] \in UserRow(n)
         /\ [row EXCEPT !.password = password, !.token = token, !.expires = expires] \in UserRow(n)
<1> DEFINE T == 0 .. n
           Row == [password : Nat, role : {"analyst", "admin"}, token : T, expires : Nat]
<1>1. row \in Row /\ token \in T
  BY DEF UserRow
<1> HIDE DEF T
<1>2. [row EXCEPT !.token = token, !.expires = expires] \in Row
  BY <1>1
<1>3. [row EXCEPT !.password = password, !.token = token, !.expires = expires] \in Row
  BY <1>1
<1>4. QED
  BY <1>2, <1>3 DEF T, UserRow

LEMMA PasswordSetRow ==
  ASSUME NEW n \in Nat, NEW row \in UserRow(n)
  PROVE  /\ PasswordSet(row) \in UserRow(n)
         /\ PasswordSet(row).password = row.password + 1 /\ PasswordSet(row).token = 0
<1>1. row.password + 1 \in Nat /\ 0 \in 0 .. n
  BY DEF UserRow
<1>2. [row EXCEPT !.password = row.password + 1, !.token = 0, !.expires = 0] \in UserRow(n)
  BY <1>1, RowUpdates
<1>3. PasswordSet(row).password = row.password + 1 /\ PasswordSet(row).token = 0
  BY DEF UserRow, PasswordSet
<1>4. QED
  BY <1>2, <1>3 DEF PasswordSet

\* What a registration and a confirmation know after their reading.
Pending(request) ==
  /\ request.op = "insert" => request.user \in Users /\ request.role \in {"analyst", "admin"}
  /\ request.op = "reset" => /\ request.token \in DOMAIN issued
                             /\ request.user = issued[request.token]

SigningTypes ==
  /\ DOMAIN users \subseteq Users /\ users \in [DOMAIN users -> UserRow(Len(issued))]
  /\ issued \in Seq(DOMAIN users) /\ honoured \in Seq(DOMAIN issued)
  /\ \A s \in sessions : s.user \in DOMAIN users /\ s.secret \in Nat /\ s.secret <= secret
  /\ secret \in Nat /\ now \in Nat
  /\ DOMAIN requests = Workers
  /\ \A w \in Workers : Pending(requests[w])

\* A token is in its owner's row until it is honoured for the first time.
RowsHoldFreshTokens ==
  \A u \in DOMAIN users :
    users[u].token # 0 => issued[users[u].token] = u /\ At(honoured, {users[u].token}) = {}

\* Whoever is confirming a token adds at most one to its count.
ResetBudget ==
  \A t \in DOMAIN issued :
    /\ IsFiniteSet(At(honoured, {t}))
    /\ Cardinality(At(honoured, {t})) + Cardinality(Confirming(t)) <= Cardinality(Workers)

PasswordsCounted ==
  \A u \in DOMAIN users :
    /\ IsFiniteSet(At(honoured, At(issued, {u})))
    /\ users[u].password = Cardinality(At(honoured, At(issued, {u})))

SigningInv == SigningTypes /\ RowsHoldFreshTokens /\ ResetBudget /\ PasswordsCounted

\* The invariant bounds and counts the resets.
LEMMA SigningInvImplies ==
  ASSUME SigningInv
  PROVE  ResetsBounded /\ PasswordsFollowResets
<1>1. ResetsBounded
  <2> SUFFICES ASSUME NEW t \in DOMAIN issued
               PROVE  Cardinality({i \in DOMAIN honoured : honoured[i] = t}) <= Cardinality(Workers)
    BY DEF ResetsBounded
  <2>1. {i \in DOMAIN honoured : honoured[i] = t} = At(honoured, {t})
    BY DEF At
  <2>2. Cardinality(Confirming(t)) \in Nat /\ Cardinality(Workers) \in Nat
    <3>1. Confirming(t) \in SUBSET Workers
      BY DEF Confirming
    <3>2. QED
      BY <3>1, CountThreads, AccountsAssumption
  <2>3. Cardinality(At(honoured, {t})) \in Nat
    BY FS_CardinalityType DEF SigningInv, ResetBudget
  <2>4. Cardinality(At(honoured, {t})) + Cardinality(Confirming(t)) <= Cardinality(Workers)
    BY DEF SigningInv, ResetBudget
  <2>5. Cardinality(At(honoured, {t})) <= Cardinality(Workers)
    BY <2>2, <2>3, <2>4
  <2>6. QED
    BY <2>1, <2>5
<1>2. PasswordsFollowResets
  <2> SUFFICES ASSUME NEW u \in DOMAIN users
               PROVE  users[u].password = Cardinality({i \in DOMAIN honoured : issued[honoured[i]] = u})
    BY DEF PasswordsFollowResets
  <2>1. \A i \in DOMAIN honoured : honoured[i] \in DOMAIN issued
    BY DEF SigningInv, SigningTypes
  <2>2. {i \in DOMAIN honoured : issued[honoured[i]] = u} = At(honoured, At(issued, {u}))
    BY <2>1 DEF At
  <2>3. QED
    BY <2>2 DEF SigningInv, PasswordsCounted
<1>3. QED
  BY <1>1, <1>2

\* What only the requests' other fields, the audit log, the keys and the
\* organisations change is not disturbed.
LEMMA SigningKept ==
  ASSUME SigningInv, UNCHANGED <<users, sessions, issued, honoured>>,
         DOMAIN requests' = Workers, secret' \in Nat, secret <= secret', now' \in Nat,
         \A w \in Workers : requests'[w] = requests[w] \/ requests'[w].op \notin {"insert", "reset"}
  PROVE  SigningInv'
<1>1. SigningTypes'
  <2>1. \A w \in Workers : Pending(requests[w])'
    BY DEF SigningInv, SigningTypes, Pending
  <2>2. \A s \in sessions : s.secret \in Nat /\ s.secret <= secret'
    BY DEF SigningInv, SigningTypes
  <2>3. QED
    BY <2>1, <2>2 DEF SigningInv, SigningTypes, UserRow
<1>2. RowsHoldFreshTokens' /\ PasswordsCounted'
  BY DEF SigningInv, RowsHoldFreshTokens, PasswordsCounted, At
<1>3. ResetBudget'
  <2> SUFFICES ASSUME NEW t \in DOMAIN issued
               PROVE  Cardinality(At(honoured, {t})) + Cardinality(Confirming(t)') <= Cardinality(Workers)
    BY DEF SigningInv, ResetBudget, At
  <2>1. Confirming(t)' \subseteq Confirming(t) /\ Confirming(t) \in SUBSET Workers
    BY DEF Confirming
  <2>2. /\ Cardinality(Confirming(t)') <= Cardinality(Confirming(t))
        /\ Cardinality(Confirming(t)') \in Nat /\ Cardinality(Confirming(t)) \in Nat
        /\ Cardinality(Workers) \in Nat
    BY <2>1, CountThreads, AccountsAssumption
  <2>3. Cardinality(At(honoured, {t})) \in Nat
    BY FS_CardinalityType DEF SigningInv, ResetBudget
  <2>4. QED
    BY <2>2, <2>3 DEF SigningInv, ResetBudget
<1>4. QED
  BY <1>1, <1>2, <1>3 DEF SigningInv

LEMMA InitSigningInv == ApiInit => SigningInv
<1> SUFFICES ASSUME ApiInit
             PROVE  SigningInv
  OBVIOUS
<1>1. /\ issued = <<>> /\ honoured = <<>> /\ secret = 0 /\ now = 0
      /\ requests = [w \in Workers |-> Free]
  BY DEF ApiInit, KeysInit, SigningInit, RestInit
<1>2. /\ DOMAIN users \subseteq Users
      /\ \A u \in DOMAIN users : /\ users[u].password = 0 /\ users[u].token = 0
      /\ users \in [DOMAIN users -> UserRow(Len(issued))]
      /\ \A s \in sessions : s.user \in DOMAIN users /\ s.secret = 0
  <2>1. CASE service = "keys"
    BY <1>1, <2>1 DEF ApiInit, KeysInit, SessionToken, UserRow
  <2>2. CASE service # "keys"
    BY <2>2 DEF ApiInit, SigningInit
  <2>3. QED
    BY <2>1, <2>2
<1>3. SigningTypes
  BY <1>1, <1>2 DEF SigningTypes, Pending, Free
<1>4. \A T : At(honoured, T) = {}
  BY <1>1 DEF At
<1>5. RowsHoldFreshTokens /\ ResetBudget
  BY <1>1, <1>2 DEF RowsHoldFreshTokens, ResetBudget
<1>6. PasswordsCounted
  BY <1>2, <1>4, FS_EmptySet DEF PasswordsCounted
<1>7. QED
  BY <1>3, <1>5, <1>6 DEF SigningInv

LEMMA RegisterLookSigns ==
  ASSUME SigningInv, NEW w \in Workers, NEW u \in Users, NEW role \in {"analyst", "admin"},
         RegisterLook(w, u, role)
  PROVE  SigningInv'
<1>1. /\ requests' = [requests EXCEPT ![w] = [op |-> "insert", user |-> u, role |-> role]]
      /\ requests[w].op = "free"
      /\ UNCHANGED <<users, sessions, issued, honoured, secret, now>>
  BY DEF RegisterLook, Becomes, rows, world
<1>2. DOMAIN requests' = Workers /\ \A x \in Workers : x # w => requests'[x] = requests[x]
  BY <1>1 DEF SigningInv, SigningTypes
<1>3. requests'[w] = [op |-> "insert", user |-> u, role |-> role]
  BY <1>1 DEF SigningInv, SigningTypes
<1>4. \A x \in Workers : Pending(requests[x])'
  BY <1>1, <1>2, <1>3 DEF SigningInv, SigningTypes, Pending
<1>5. SigningTypes'
  BY <1>1, <1>2, <1>4 DEF SigningInv, SigningTypes, UserRow
<1>6. \A t : Confirming(t)' = Confirming(t)
  BY <1>1, <1>2, <1>3 DEF Confirming
<1>7. RowsHoldFreshTokens' /\ PasswordsCounted'
  BY <1>1 DEF SigningInv, RowsHoldFreshTokens, PasswordsCounted, At
<1>8. ResetBudget'
  BY <1>1, <1>6 DEF SigningInv, ResetBudget, At
<1>9. QED
  BY <1>5, <1>7, <1>8 DEF SigningInv

\* The row an insertion adds is new, so no token was issued to it before.
LEMMA RegisterInsertSigns ==
  ASSUME SigningInv, NEW w \in Workers, RegisterInsert(w)
  PROVE  SigningInv'
<1> DEFINE u == requests[w].user
           row == [password |-> 0, role |-> requests[w].role, token |-> 0, expires |-> 0]
<1>1. /\ requests[w].op = "insert" /\ requests' = [requests EXCEPT ![w] = Free]
      /\ UNCHANGED <<issued, honoured>> /\ UNCHANGED <<secret, now>>
  BY DEF RegisterInsert, Becomes, world
<1>2. /\ DOMAIN requests' = Workers /\ requests'[w] = Free
      /\ \A x \in Workers : x # w => requests'[x] = requests[x]
  BY <1>1 DEF SigningInv, SigningTypes
<1>3. u \in Users /\ requests[w].role \in {"analyst", "admin"}
  BY <1>1 DEF SigningInv, SigningTypes, Pending
<1>4. CASE ~Insertable(u)
  <2>1. UNCHANGED <<users, sessions>>
    BY <1>4 DEF RegisterInsert
  <2>2. \A x \in Workers : requests'[x] = requests[x] \/ requests'[x].op \notin {"insert", "reset"}
    BY <1>2 DEF Free
  <2>3. secret' \in Nat /\ secret <= secret' /\ now' \in Nat
    BY <1>1 DEF SigningInv, SigningTypes
  <2>4. QED
    BY <1>1, <1>2, <2>1, <2>2, <2>3, SigningKept
<1>5. CASE Insertable(u)
  <2>1. /\ u \notin DOMAIN users
        /\ users' = [x \in DOMAIN users \union {u} |-> IF x = u THEN row ELSE users[x]]
        /\ sessions' \subseteq sessions \union {SessionToken(u)}
    BY <1>5 DEF RegisterInsert, Insertable
  <2>2. /\ DOMAIN users' = DOMAIN users \union {u} /\ users'[u] = row
        /\ \A x \in DOMAIN users : users'[x] = users[x]
    BY <2>1
  <2>3. row \in UserRow(Len(issued'))
    BY <1>1, <1>3 DEF SigningInv, SigningTypes, UserRow
  <2>4. users' \in [DOMAIN users' -> UserRow(Len(issued'))]
    <3>1. UserRow(Len(issued')) = UserRow(Len(issued))
      BY <1>1 DEF UserRow
    <3>2. \A x \in DOMAIN users : users[x] \in UserRow(Len(issued))
      BY DEF SigningInv, SigningTypes
    <3>3. users' = [x \in DOMAIN users' |-> users'[x]]
      BY <2>1, <2>2
    <3>4. QED
      BY <2>2, <2>3, <3>1, <3>2, <3>3
  <2>5. \A x \in Workers : Pending(requests[x])'
    BY <1>1, <1>2 DEF SigningInv, SigningTypes, Pending, Free
  <2>6. \A s \in sessions' : s.user \in DOMAIN users' /\ s.secret \in Nat /\ s.secret <= secret'
    BY <1>1, <2>1, <2>2 DEF SigningInv, SigningTypes, SessionToken
  <2>7. issued' \in Seq(DOMAIN users')
    <3>1. issued \in Seq(DOMAIN users) /\ DOMAIN users \subseteq DOMAIN users'
      BY <2>2 DEF SigningInv, SigningTypes
    <3>2. QED
      BY <1>1, <3>1
  <2>8. SigningTypes'
    BY <1>1, <1>2, <1>3, <2>2, <2>4, <2>5, <2>6, <2>7 DEF SigningInv, SigningTypes
  <2>9. RowsHoldFreshTokens'
    BY <1>1, <2>2 DEF SigningInv, RowsHoldFreshTokens, At
  <2>10. PasswordsCounted'
    <3>1. At(issued, {u}) = {}
      <4>1. \A t \in DOMAIN issued : issued[t] \in DOMAIN users
        BY DEF SigningInv, SigningTypes
      <4>2. QED
        BY <2>1, <4>1 DEF At
    <3>2. IsFiniteSet(At(honoured, At(issued, {u}))) /\ Cardinality(At(honoured, At(issued, {u}))) = 0
      BY <3>1, FS_EmptySet DEF At
    <3>3. \A x : At(honoured', At(issued, {x})) = At(honoured, At(issued, {x}))
      BY <1>1 DEF At
    <3>4. \A x \in DOMAIN users : /\ IsFiniteSet(At(honoured, At(issued, {x})))
                                  /\ users[x].password = Cardinality(At(honoured, At(issued, {x})))
      BY DEF SigningInv, PasswordsCounted
    <3>5. \A x \in DOMAIN users' : /\ IsFiniteSet(At(honoured, At(issued, {x})))
                                   /\ users'[x].password = Cardinality(At(honoured, At(issued, {x})))
      <4> SUFFICES ASSUME NEW x \in DOMAIN users'
                   PROVE  /\ IsFiniteSet(At(honoured, At(issued, {x})))
                          /\ users'[x].password = Cardinality(At(honoured, At(issued, {x})))
        OBVIOUS
      <4>1. CASE x = u
        BY <2>2, <3>2, <4>1
      <4>2. CASE x \in DOMAIN users
        BY <2>2, <3>4, <4>2
      <4>3. QED
        BY <2>2, <4>1, <4>2
    <3>6. QED
      BY <1>1, <3>5 DEF PasswordsCounted
  <2>11. ResetBudget'
    <3>1. \A t : Confirming(t)' = Confirming(t)
      BY <1>1, <1>2 DEF Confirming, Free
    <3>2. QED
      BY <1>1, <3>1 DEF SigningInv, ResetBudget, At
  <2>12. QED
    BY <2>8, <2>9, <2>10, <2>11 DEF SigningInv
<1>6. QED
  BY <1>4, <1>5

LEMMA LoginSigns ==
  ASSUME SigningInv, NEW w \in Workers, NEW u \in Users, Login(w, u)
  PROVE  SigningInv'
<1>1. /\ u \in DOMAIN users /\ sessions' = sessions \union {SessionToken(u)}
      /\ requests[w].op = "free"
      /\ requests' = [requests EXCEPT ![w] = [op |-> "audit", entry |-> <<"login", u>>]]
      /\ UNCHANGED <<users, issued, honoured>> /\ UNCHANGED <<secret, now>>
  BY DEF Login, Audited, Becomes, world
<1>2. /\ DOMAIN requests' = Workers /\ requests'[w].op = "audit"
      /\ \A x \in Workers : x # w => requests'[x] = requests[x]
  BY <1>1 DEF SigningInv, SigningTypes
<1>3. \A s \in sessions' : s.user \in DOMAIN users' /\ s.secret \in Nat /\ s.secret <= secret'
  BY <1>1 DEF SigningInv, SigningTypes, SessionToken
<1>4. \A x \in Workers : Pending(requests[x])'
  BY <1>1, <1>2 DEF SigningInv, SigningTypes, Pending
<1>5. SigningTypes'
  BY <1>1, <1>2, <1>3, <1>4 DEF SigningInv, SigningTypes, UserRow
<1>6. \A t : Confirming(t)' = Confirming(t)
  BY <1>1, <1>2 DEF Confirming
<1>7. RowsHoldFreshTokens' /\ PasswordsCounted'
  BY <1>1 DEF SigningInv, RowsHoldFreshTokens, PasswordsCounted, At
<1>8. ResetBudget'
  BY <1>1, <1>6 DEF SigningInv, ResetBudget, At
<1>9. QED
  BY <1>5, <1>7, <1>8 DEF SigningInv

\* A new token has been honoured by nobody, and nobody is confirming it.
LEMMA RequestResetSigns ==
  ASSUME SigningInv, NEW u \in Users, RequestReset(u)
  PROVE  SigningInv'
<1> DEFINE new == Len(issued) + 1
<1>1. /\ u \in DOMAIN users /\ issued' = Append(issued, u)
      /\ users' = [users EXCEPT ![u].token = new, ![u].expires = now + ResetTTL]
      /\ UNCHANGED <<sessions, honoured, requests>> /\ UNCHANGED <<secret, now>>
  BY DEF RequestReset, world
<1>2. /\ Len(issued) \in Nat /\ DOMAIN issued = 1 .. Len(issued)
      /\ DOMAIN issued' = 1 .. new /\ issued'[new] = u
      /\ \A t \in DOMAIN issued : issued'[t] = issued[t]
      /\ Len(issued') = new
  BY <1>1 DEF SigningInv, SigningTypes
<1>3. \A i \in DOMAIN honoured : honoured[i] \in DOMAIN issued
  BY DEF SigningInv, SigningTypes
<1>4. new \notin DOMAIN issued /\ DOMAIN issued \subseteq DOMAIN issued'
  BY <1>2
<1>5. /\ DOMAIN users' = DOMAIN users
      /\ \A x \in DOMAIN users : users'[x].password = users[x].password
      /\ \A x \in DOMAIN users : x # u => users'[x] = users[x]
      /\ users'[u].token = new
  BY <1>1 DEF SigningInv, SigningTypes, UserRow
<1>6. SigningTypes'
  <2>1. users' \in [DOMAIN users' -> UserRow(Len(issued'))]
    <3>1. \A x \in DOMAIN users : users[x] \in UserRow(Len(issued'))
      BY <1>2 DEF SigningInv, SigningTypes, UserRow
    <3>2. [users[u] EXCEPT !.token = new, !.expires = now + ResetTTL] \in UserRow(Len(issued'))
      <4>1. /\ users[u] \in UserRow(Len(issued))
            /\ now + ResetTTL \in Nat /\ Len(issued') \in Nat /\ new \in 0 .. Len(issued')
        BY <1>1, <1>2, AccountsAssumption DEF SigningInv, SigningTypes
      <4>2. users[u] \in UserRow(Len(issued'))
        BY <1>1, <3>1
      <4>3. QED
        BY <4>1, <4>2, RowUpdates
    <3>3. QED
      BY <1>1, <1>5, <3>1, <3>2
  <2>2. issued' \in Seq(DOMAIN users')
    BY <1>1, <1>5 DEF SigningInv, SigningTypes
  <2>3. honoured' \in Seq(DOMAIN issued')
    BY <1>1, <1>4 DEF SigningInv, SigningTypes
  <2>4. \A x \in Workers : Pending(requests[x])'
    BY <1>1, <1>2, <1>4 DEF SigningInv, SigningTypes, Pending
  <2>5. QED
    BY <1>1, <1>5, <2>1, <2>2, <2>3, <2>4 DEF SigningInv, SigningTypes
<1>7. \A T : At(honoured', T) = At(honoured, T)
  BY <1>1 DEF At
<1>8. At(honoured, {new}) = {}
  BY <1>3, <1>4 DEF At
<1>9. RowsHoldFreshTokens'
  <2> SUFFICES ASSUME NEW x \in DOMAIN users, users'[x].token # 0
               PROVE  issued'[users'[x].token] = x /\ At(honoured, {users'[x].token}) = {}
    BY <1>5, <1>7 DEF RowsHoldFreshTokens
  <2>1. CASE x = u
    BY <1>2, <1>5, <1>8, <2>1
  <2>2. CASE x # u
    <3>1. users'[x].token = users[x].token
      BY <1>5, <2>2
    <3>2. users[x].token \in DOMAIN issued
      BY <1>2, <3>1 DEF SigningInv, SigningTypes, UserRow
    <3>3. issued[users[x].token] = x /\ At(honoured, {users[x].token}) = {}
      BY <3>1 DEF SigningInv, RowsHoldFreshTokens
    <3>4. QED
      BY <1>2, <3>1, <3>2, <3>3
  <2>3. QED
    BY <2>1, <2>2
<1>10. PasswordsCounted'
  <2> SUFFICES ASSUME NEW x \in DOMAIN users
               PROVE  At(honoured, At(issued', {x})) = At(honoured, At(issued, {x}))
    <3>1. honoured' = honoured
      BY <1>1
    <3>2. \A x \in DOMAIN users : /\ IsFiniteSet(At(honoured, At(issued, {x})))
                                  /\ users[x].password = Cardinality(At(honoured, At(issued, {x})))
      BY DEF SigningInv, PasswordsCounted
    <3>3. QED
      BY <1>5, <3>1, <3>2 DEF PasswordsCounted
  <2>1. \A t \in DOMAIN issued : t \in At(issued', {x}) <=> t \in At(issued, {x})
    BY <1>2, <1>4 DEF At
  <2>2. QED
    BY <1>3, <2>1 DEF At
<1>11. ResetBudget'
  <2>1. \A t : Confirming(t)' = Confirming(t)
    BY <1>1 DEF Confirming
  <2>2. Cardinality(At(honoured, {new})) = 0 /\ IsFiniteSet(At(honoured, {new}))
    BY <1>8, FS_EmptySet
  <2>3. Cardinality(Confirming(new)) \in Nat /\ Cardinality(Confirming(new)) <= Cardinality(Workers)
    <3>1. Confirming(new) \in SUBSET Workers
      BY DEF Confirming
    <3>2. QED
      BY <3>1, CountThreads, AccountsAssumption
  <2>4. \A t \in DOMAIN issued' : t \in DOMAIN issued \/ t = new
    BY <1>2
  <2>5. honoured' = honoured
    BY <1>1
  <2>6. \A t \in DOMAIN issued' :
          /\ IsFiniteSet(At(honoured, {t}))
          /\ Cardinality(At(honoured, {t})) + Cardinality(Confirming(t)) <= Cardinality(Workers)
    <3> SUFFICES ASSUME NEW t \in DOMAIN issued'
                 PROVE  /\ IsFiniteSet(At(honoured, {t}))
                        /\ Cardinality(At(honoured, {t})) + Cardinality(Confirming(t)) <= Cardinality(Workers)
      OBVIOUS
    <3>1. CASE t = new
      BY <2>2, <2>3, <3>1
    <3>2. CASE t \in DOMAIN issued
      BY <3>2 DEF SigningInv, ResetBudget
    <3>3. QED
      BY <2>4, <3>1, <3>2
  <2>7. QED
    BY <2>1, <2>5, <2>6 DEF ResetBudget
<1>12. QED
  BY <1>6, <1>9, <1>10, <1>11 DEF SigningInv

\* A token that is read is in a row, so none of it is spent yet.
LEMMA ConfirmLookSigns ==
  ASSUME SigningInv, NEW w \in Workers, NEW token \in DOMAIN issued, ConfirmLook(w, token)
  PROVE  SigningInv'
<1>1. PICK u \in DOMAIN users :
        /\ users[u].token = token
        /\ requests' = [requests EXCEPT ![w] = [op |-> "reset", user |-> u, token |-> token]]
  BY DEF ConfirmLook, Becomes
<1>2. UNCHANGED <<users, sessions, issued, honoured>> /\ UNCHANGED <<secret, now>>
  BY DEF ConfirmLook, rows, world
<1>3. /\ DOMAIN requests' = Workers
      /\ requests'[w] = [op |-> "reset", user |-> u, token |-> token]
      /\ \A x \in Workers : x # w => requests'[x] = requests[x]
  BY <1>1 DEF SigningInv, SigningTypes
<1>4. token # 0
  BY DEF SigningInv, SigningTypes
<1>5. issued[token] = u /\ At(honoured, {token}) = {}
  BY <1>1, <1>4 DEF SigningInv, RowsHoldFreshTokens
<1>6. \A x \in Workers : Pending(requests[x])'
  BY <1>2, <1>3, <1>5 DEF SigningInv, SigningTypes, Pending
<1>7. SigningTypes'
  BY <1>2, <1>3, <1>6 DEF SigningInv, SigningTypes, UserRow
<1>8. RowsHoldFreshTokens' /\ PasswordsCounted'
  BY <1>2 DEF SigningInv, RowsHoldFreshTokens, PasswordsCounted, At
<1>9. ResetBudget'
  <2> SUFFICES ASSUME NEW t \in DOMAIN issued
               PROVE  /\ IsFiniteSet(At(honoured, {t}))
                      /\ Cardinality(At(honoured, {t})) + Cardinality(Confirming(t)') <= Cardinality(Workers)
    BY <1>2 DEF ResetBudget, At
  <2>1. Confirming(t)' \in SUBSET Workers /\ Confirming(t) \in SUBSET Workers
    BY <1>2, <1>3 DEF Confirming
  <2>2. CASE t = token
    <3>1. Cardinality(At(honoured, {t})) = 0 /\ IsFiniteSet(At(honoured, {t}))
      BY <1>5, <2>2, FS_EmptySet
    <3>2. Cardinality(Confirming(t)') \in Nat /\ Cardinality(Confirming(t)') <= Cardinality(Workers)
      BY <2>1, CountThreads, AccountsAssumption
    <3>3. QED
      BY <3>1, <3>2
  <2>3. CASE t # token
    <3>1. Confirming(t)' \subseteq Confirming(t)
      BY <1>3, <2>3 DEF Confirming
    <3>2. /\ Cardinality(Confirming(t)') <= Cardinality(Confirming(t))
          /\ Cardinality(Confirming(t)') \in Nat /\ Cardinality(Confirming(t)) \in Nat
          /\ Cardinality(Workers) \in Nat
      BY <2>1, <3>1, CountThreads, AccountsAssumption
    <3>3. /\ IsFiniteSet(At(honoured, {t}))
          /\ Cardinality(At(honoured, {t})) + Cardinality(Confirming(t)) <= Cardinality(Workers)
      BY DEF SigningInv, ResetBudget
    <3>4. Cardinality(At(honoured, {t})) \in Nat
      BY <3>3, FS_CardinalityType
    <3>5. QED
      BY <3>2, <3>3, <3>4
  <2>4. QED
    BY <2>2, <2>3
<1>10. QED
  BY <1>7, <1>8, <1>9 DEF SigningInv

\* A password set counts one place of its token more and one thread that is
\* confirming it less, and clears the row.
LEMMA ConfirmSetSigns ==
  ASSUME SigningInv, NEW w \in Workers, ConfirmSet(w)
  PROVE  SigningInv'
<1> DEFINE token == requests[w].token
           u == issued[token]
<1>1. /\ requests[w].op = "reset" /\ requests' = [requests EXCEPT ![w] = Free]
      /\ users' = [users EXCEPT ![requests[w].user] = PasswordSet(@)]
      /\ honoured' = Append(honoured, token)
      /\ UNCHANGED <<sessions, issued>> /\ UNCHANGED <<secret, now>>
  BY DEF ConfirmSet, Becomes, world
<1>2. token \in DOMAIN issued /\ requests[w].user = u
  BY <1>1 DEF SigningInv, SigningTypes, Pending
<1>3. u \in DOMAIN users
  BY <1>2 DEF SigningInv, SigningTypes
<1>4. /\ DOMAIN requests' = Workers /\ requests'[w] = Free
      /\ \A x \in Workers : x # w => requests'[x] = requests[x]
  BY <1>1 DEF SigningInv, SigningTypes
<1>5. users[u] \in UserRow(Len(issued))
  BY <1>3 DEF SigningInv, SigningTypes
<1>6. /\ DOMAIN users' = DOMAIN users
      /\ users'[u] = PasswordSet(users[u])
      /\ \A x \in DOMAIN users : x # u => users'[x] = users[x]
  BY <1>1, <1>2, <1>3
<1>7. PasswordSet(users[u]) \in UserRow(Len(issued)) /\ users'[u].password = users[u].password + 1 /\ users'[u].token = 0
  <2>1. Len(issued) \in Nat
    BY DEF SigningInv, SigningTypes
  <2>2. QED
    BY <1>5, <1>6, <2>1, PasswordSetRow
<1>8. SigningTypes'
  <2>1. users' \in [DOMAIN users' -> UserRow(Len(issued'))]
    <3>1. UserRow(Len(issued')) = UserRow(Len(issued))
      BY <1>1 DEF UserRow
    <3>2. users' \in [DOMAIN users -> UserRow(Len(issued))]
      BY <1>1, <1>2, <1>6, <1>7 DEF SigningInv, SigningTypes
    <3>3. QED
      BY <1>6, <3>1, <3>2
  <2>2. honoured' \in Seq(DOMAIN issued')
    BY <1>1, <1>2 DEF SigningInv, SigningTypes
  <2>3. \A x \in Workers : Pending(requests[x])'
    BY <1>1, <1>4 DEF SigningInv, SigningTypes, Pending, Free
  <2>4. QED
    BY <1>1, <1>4, <1>6, <2>1, <2>2, <2>3 DEF SigningInv, SigningTypes
<1>9. \A T : IsFiniteSet(At(honoured, T)) =>
        /\ IsFiniteSet(At(honoured', T))
        /\ Cardinality(At(honoured', T)) = Cardinality(At(honoured, T)) + (IF token \in T THEN 1 ELSE 0)
  <2>1. honoured \in Seq(DOMAIN issued)
    BY DEF SigningInv, SigningTypes
  <2>2. QED
    BY <1>1, <1>2, <2>1, CountAppend
<1>10. \A T : At(honoured, T) = {} /\ token \notin T => At(honoured', T) = {}
  <2>1. /\ DOMAIN honoured = 1 .. Len(honoured) /\ Len(honoured) \in Nat
        /\ DOMAIN honoured' = 1 .. Len(honoured) + 1 /\ honoured'[Len(honoured) + 1] = token
        /\ \A i \in DOMAIN honoured : honoured'[i] = honoured[i]
    BY <1>1, <1>2 DEF SigningInv, SigningTypes
  <2>2. QED
    BY <2>1 DEF At
<1>11. RowsHoldFreshTokens'
  <2> SUFFICES ASSUME NEW x \in DOMAIN users, users'[x].token # 0
               PROVE  issued[users'[x].token] = x /\ At(honoured', {users'[x].token}) = {}
    BY <1>1, <1>6 DEF RowsHoldFreshTokens, At
  <2>1. x # u
    BY <1>7
  <2>2. users'[x].token = users[x].token
    BY <1>6, <2>1
  <2>3. issued[users[x].token] = x /\ At(honoured, {users[x].token}) = {}
    BY <2>2 DEF SigningInv, RowsHoldFreshTokens
  <2>4. users[x].token # token
    BY <2>1, <2>3
  <2>5. QED
    BY <1>10, <2>2, <2>3, <2>4
<1>12. PasswordsCounted'
  <2> SUFFICES ASSUME NEW x \in DOMAIN users
               PROVE  /\ IsFiniteSet(At(honoured', At(issued, {x})))
                      /\ users'[x].password = Cardinality(At(honoured', At(issued, {x})))
    BY <1>1, <1>6 DEF PasswordsCounted
  <2>1. issued' = issued
    BY <1>1
  <2>2. IsFiniteSet(At(honoured, At(issued, {x}))) /\ users[x].password = Cardinality(At(honoured, At(issued, {x})))
    BY DEF SigningInv, PasswordsCounted
  <2>3. token \in At(issued, {x}) <=> x = u
    BY <1>2 DEF At
  <2>4. Cardinality(At(honoured, At(issued, {x}))) \in Nat
    BY <2>2, FS_CardinalityType
  <2>5. /\ IsFiniteSet(At(honoured', At(issued, {x})))
        /\ Cardinality(At(honoured', At(issued, {x}))) =
             Cardinality(At(honoured, At(issued, {x}))) + (IF x = u THEN 1 ELSE 0)
    BY <1>9, <2>2, <2>3
  <2>6. QED
    BY <1>6, <1>7, <2>1, <2>2, <2>4, <2>5
<1>13. ResetBudget'
  <2> SUFFICES ASSUME NEW t \in DOMAIN issued
               PROVE  /\ IsFiniteSet(At(honoured', {t}))
                      /\ Cardinality(At(honoured', {t})) + Cardinality(Confirming(t)') <= Cardinality(Workers)
    BY <1>1 DEF ResetBudget
  <2>1. Confirming(t)' \in SUBSET Workers /\ Confirming(t) \in SUBSET Workers
    BY <1>1, <1>4 DEF Confirming
  <2>2. /\ IsFiniteSet(At(honoured, {t}))
        /\ Cardinality(At(honoured, {t})) + Cardinality(Confirming(t)) <= Cardinality(Workers)
    BY DEF SigningInv, ResetBudget
  <2>3. Cardinality(At(honoured, {t})) \in Nat /\ Cardinality(Workers) \in Nat
    BY <2>2, FS_CardinalityType, AccountsAssumption
  <2>4. CASE t = token
    <3>1. w \in Confirming(t) /\ Confirming(t)' = Confirming(t) \ {w}
      BY <1>1, <1>4, <2>4 DEF Confirming, Free
    <3>2. Cardinality(Confirming(t)') = Cardinality(Confirming(t)) - 1 /\ Cardinality(Confirming(t)) \in Nat
      BY <2>1, <3>1, CountThreads, AccountsAssumption
    <3>3. IsFiniteSet(At(honoured', {t})) /\ Cardinality(At(honoured', {t})) = Cardinality(At(honoured, {t})) + 1
      BY <1>9, <2>2, <2>4
    <3>4. QED
      BY <2>2, <2>3, <3>2, <3>3
  <2>5. CASE t # token
    <3>1. Confirming(t)' = Confirming(t)
      BY <1>1, <1>4, <2>5 DEF Confirming, Free
    <3>2. IsFiniteSet(At(honoured', {t})) /\ Cardinality(At(honoured', {t})) = Cardinality(At(honoured, {t}))
      BY <1>9, <2>2, <2>3, <2>5
    <3>3. QED
      BY <2>2, <3>1, <3>2
  <2>6. QED
    BY <2>4, <2>5
<1>14. QED
  BY <1>8, <1>11, <1>12, <1>13 DEF SigningInv

LEMMA SharedStepsSign ==
  ASSUME SigningInv, (\E w \in Workers : WriteAudit(w)) \/ Restart \/ Tick
  PROVE  SigningInv'
<1>1. CASE \E w \in Workers : WriteAudit(w)
  <2>1. PICK w \in Workers : WriteAudit(w)
    BY <1>1
  <2>2. /\ requests' = [requests EXCEPT ![w] = Free]
        /\ UNCHANGED <<users, sessions, issued, honoured>> /\ UNCHANGED <<secret, now>>
    BY <2>1 DEF WriteAudit, Becomes, world
  <2>3. /\ DOMAIN requests' = Workers /\ secret \in Nat /\ now \in Nat /\ secret <= secret
        /\ \A x \in Workers : requests'[x] = requests[x] \/ requests'[x] = Free
    BY <2>2 DEF SigningInv, SigningTypes
  <2>4. QED
    BY <2>2, <2>3, SigningKept DEF Free
<1>2. CASE Restart
  <2>1. /\ UNCHANGED <<users, sessions, issued, honoured>> /\ UNCHANGED now
        /\ secret' \in {secret, secret + 1} /\ requests' = [w \in Workers |-> Free]
    BY <1>2 DEF Restart
  <2>2. secret' \in Nat /\ secret <= secret' /\ now \in Nat
    BY <2>1 DEF SigningInv, SigningTypes
  <2>3. QED
    BY <2>1, <2>2, SigningKept DEF Free
<1>3. CASE Tick
  <2>1. /\ UNCHANGED <<users, sessions, issued, honoured>> /\ UNCHANGED <<requests, secret>>
        /\ now' = now + 1
    BY <1>3 DEF Tick
  <2>2. secret \in Nat /\ secret <= secret /\ now' \in Nat /\ DOMAIN requests = Workers
    BY <2>1 DEF SigningInv, SigningTypes
  <2>3. QED
    BY <2>1, <2>2, SigningKept
<1>4. QED
  BY <1>1, <1>2, <1>3

LEMMA SigningNextSigns ==
  ASSUME SigningInv, SigningNext
  PROVE  SigningInv'
BY SharedStepsSign, RegisterLookSigns, RegisterInsertSigns, LoginSigns, RequestResetSigns,
   ConfirmLookSigns, ConfirmSetSigns DEF SigningNext

\* The steps of the key service touch neither rows nor tokens.
LEMMA KeysNextSigns ==
  ASSUME SigningInv, KeysNext
  PROVE  SigningInv'
<1>1. CASE (\E w \in Workers : WriteAudit(w)) \/ Restart \/ Tick
  BY <1>1, SharedStepsSign
<1>2. ASSUME NEW w \in Workers,
             \/ MintEmail(w) \/ MintJudge(w) \/ MintStore(w)
             \/ EnterPlan(w) \/ EnterScopes(w) \/ EnterAnswer(w)
             \/ \E cred \in Credentials :
                  \/ EnterStart(w, cred)
                  \/ \E scopes \in Asked, ttl \in KeyTTLs : MintStart(w, cred, scopes, ttl)
                  \/ \E key \in apiKeys : Revoke(w, cred, key)
      PROVE  SigningInv'
  <2>1. UNCHANGED <<users, sessions, issued, honoured>> /\ UNCHANGED <<secret, now>>
    BY <1>2 DEF MintEmail, MintJudge, MintStore, EnterPlan, EnterScopes, EnterAnswer, EnterStart, MintStart,
                Revoke, rows, world
  <2>2. PICK request : requests' = [requests EXCEPT ![w] = request] /\ request.op \notin {"insert", "reset"}
    <3>1. CASE MintEmail(w) \/ MintJudge(w) \/ EnterPlan(w) \/ EnterScopes(w) \/ EnterAnswer(w)
      BY <3>1 DEF MintEmail, MintJudge, EnterPlan, EnterScopes, EnterAnswer, Becomes, Free
    <3>2. CASE MintStore(w)
      <4> DEFINE request == [op |-> "audit", entry |-> <<"api_key.create", minted>>]
      <4>1. requests' = [requests EXCEPT ![w] = request]
        BY <3>2 DEF MintStore, Audited, Becomes
      <4>2. request.op = "audit"
        OBVIOUS
      <4> HIDE DEF request
      <4>3. QED
        BY <4>1, <4>2
    <3>3. CASE \E cred \in Credentials :
                 \/ EnterStart(w, cred)
                 \/ \E scopes \in Asked, ttl \in KeyTTLs : MintStart(w, cred, scopes, ttl)
                 \/ \E key \in apiKeys : Revoke(w, cred, key)
      BY <3>3 DEF EnterStart, MintStart, Revoke, Audited, Becomes
    <3>4. QED
      BY <1>2, <3>1, <3>2, <3>3
  <2>3. /\ DOMAIN requests' = Workers /\ secret \in Nat /\ now \in Nat /\ secret <= secret
        /\ \A x \in Workers : requests'[x] = requests[x] \/ requests'[x] = request
    BY <2>2 DEF SigningInv, SigningTypes
  <2>4. QED
    BY <2>1, <2>2, <2>3, SigningKept
<1>3. CASE UNCHANGED <<users, sessions, apiKeys, issued, honoured, audit, minted, requests, world>>
  <2>1. /\ UNCHANGED <<users, sessions, issued, honoured>> /\ UNCHANGED <<requests, secret, now>>
        /\ secret \in Nat /\ now \in Nat /\ secret <= secret /\ DOMAIN requests = Workers
    BY <1>3 DEF world, SigningInv, SigningTypes
  <2>2. QED
    BY <2>1, SigningKept
<1>4. QED
  BY <1>1, <1>2, <1>3 DEF KeysNext

-----------------------------------------------------------------------------
(* Accounts, whichever service is asked *)

\* Only the key service makes keys and admits by them.
AccountsInv ==
  /\ SigningInv
  /\ service = "keys" => KeysInv
  /\ service # "keys" => apiKeys = {} /\ \A w \in Workers : requests[w].op # "admitted"

LEMMA InitAccountsInv == ApiInit => AccountsInv
<1> SUFFICES ASSUME ApiInit
             PROVE  AccountsInv
  OBVIOUS
<1>1. apiKeys = {} /\ requests = [w \in Workers |-> Free]
  BY DEF ApiInit, KeysInit, SigningInit, RestInit
<1>2. service = "keys" => KeysInv
  BY InitKeysInv DEF ApiInit
<1>3. QED
  BY <1>1, <1>2, InitSigningInv DEF AccountsInv, Free

\* What the other services leave of the accounts.
LEMMA AccountsKept ==
  ASSUME AccountsInv, UNCHANGED service, service = "keys" => UNCHANGED orgs,
         UNCHANGED <<users, sessions, apiKeys, issued, honoured, audit, minted, requests, world>>
  PROVE  AccountsInv'
<1>1. SigningInv'
  <2>1. /\ UNCHANGED <<users, sessions, issued, honoured>> /\ UNCHANGED <<requests, secret, now>>
        /\ secret \in Nat /\ now \in Nat /\ secret <= secret /\ DOMAIN requests = Workers
    BY DEF world, AccountsInv, SigningInv, SigningTypes
  <2>2. QED
    BY <2>1, SigningKept DEF AccountsInv
<1>2. service = "keys" => KeysInv'
  <2> SUFFICES ASSUME service = "keys"
               PROVE  KeysInv'
    OBVIOUS
  <2>1. KeysInv /\ OrgsInv'
    BY DEF AccountsInv, KeysInv, OrgsInv
  <2>2. QED
    BY <2>1, UnchangedKeeps DEF world
<1>3. QED
  BY <1>1, <1>2 DEF AccountsInv

LEMMA NextAccountsInv == AccountsInv /\ [ApiNext]_apiVars => AccountsInv'
<1> SUFFICES ASSUME AccountsInv, [ApiNext]_apiVars
             PROVE  AccountsInv'
  OBVIOUS
<1>1. CASE service = "signing" /\ SigningNext /\ UNCHANGED service
  <2>1. SigningInv'
    BY <1>1, SigningNextSigns DEF AccountsInv
  <2>2. apiKeys' = {}
    BY <1>1 DEF AccountsInv, SigningNext, WriteAudit, RegisterInsert, ConfirmSet, Login, RegisterLook,
                ConfirmLook, RequestReset, Restart, Tick, rows
  <2>3. \A w \in Workers : requests'[w].op # "admitted"
    <3>1. CASE \E w \in Workers :
                 \/ WriteAudit(w) \/ RegisterInsert(w) \/ ConfirmSet(w)
                 \/ \E u \in Users : Login(w, u) \/ \E role \in {"analyst", "admin"} : RegisterLook(w, u, role)
                 \/ \E token \in DOMAIN issued : ConfirmLook(w, token)
      <4>1. PICK w \in Workers :
                 \/ WriteAudit(w) \/ RegisterInsert(w) \/ ConfirmSet(w)
                 \/ \E u \in Users : Login(w, u) \/ \E role \in {"analyst", "admin"} : RegisterLook(w, u, role)
                 \/ \E token \in DOMAIN issued : ConfirmLook(w, token)
        BY <3>1
      <4>2. PICK request : requests' = [requests EXCEPT ![w] = request] /\ request.op # "admitted"
        <5>1. CASE WriteAudit(w) \/ RegisterInsert(w) \/ ConfirmSet(w)
          BY <5>1 DEF WriteAudit, RegisterInsert, ConfirmSet, Becomes, Free
        <5>2. CASE \E u \in Users : Login(w, u)
          BY <5>2 DEF Login, Audited, Becomes
        <5>3. CASE \E u \in Users, role \in {"analyst", "admin"} : RegisterLook(w, u, role)
          BY <5>3 DEF RegisterLook, Becomes
        <5>4. CASE \E token \in DOMAIN issued : ConfirmLook(w, token)
          BY <5>4 DEF ConfirmLook, Becomes
        <5>5. QED
          BY <4>1, <5>1, <5>2, <5>3, <5>4
      <4>3. QED
        BY <1>1, <4>2 DEF AccountsInv, SigningInv, SigningTypes
    <3>2. CASE (\E u \in Users : RequestReset(u)) \/ Restart \/ Tick
      <4>1. requests' = requests \/ requests' = [w \in Workers |-> Free]
        BY <3>2 DEF RequestReset, Restart, Tick
      <4>2. \A w \in Workers : requests[w].op # "admitted"
        BY <1>1 DEF AccountsInv
      <4>3. QED
        BY <4>1, <4>2 DEF Free
    <3>3. QED
      BY <1>1, <3>1, <3>2 DEF SigningNext
  <2>4. QED
    BY <1>1, <2>1, <2>2, <2>3 DEF AccountsInv
<1>2. CASE service = "keys" /\ KeysNext /\ UNCHANGED service
  BY <1>2, NextKeysInv, KeysNextSigns DEF AccountsInv
<1>3. CASE /\ UNCHANGED <<users, sessions, apiKeys, issued, honoured, audit, minted, requests, world>>
           /\ UNCHANGED service /\ (service = "keys" => UNCHANGED orgs)
  BY <1>3, AccountsKept
<1>4. QED
  BY <1>1, <1>2, <1>3 DEF ApiNext, apiVars, accountVars, rows, world

\* What requests, tokens and keys have in common in every reachable state.
THEOREM AccountsInvariant == ApiSpec => []AccountsInv
BY InitAccountsInv, NextAccountsInv, PTL DEF ApiSpec

\* A key passes on and uses its own scopes only, as long as it is in time at
\* each look of the handler. One that lapses or is revoked on the way gains at
\* most the enterprise scope, never the admin scope, and nothing for an
\* anonymous caller. Each creation is in the audit log before any restart.
THEOREM KeyAuthority == ApiSpec => []KeysBounded
<1>1. AccountsInv => KeysBounded
  <2> SUFFICES ASSUME AccountsInv
               PROVE  KeysBounded
    OBVIOUS
  <2>1. CASE service = "keys"
    BY <2>1, KeysInvImplies DEF AccountsInv
  <2>2. CASE service # "keys"
    BY <2>2 DEF AccountsInv, KeysBounded, ScopesDescend, AdminKeysBelongToAdmins,
                AdmittedWithScope, KeysAreAudited
  <2>3. QED
    BY <2>1, <2>2
<1>2. QED
  BY <1>1, AccountsInvariant, PTL

\* Confirmations that overlap all count, none of a token's more often than
\* there are threads, and a registration that lost a race starts no row anew:
\* a password is as many versions old as tokens of its account were honoured.
THEOREM Resets == ApiSpec => []ResetsAccounted
<1>1. AccountsInv => ResetsAccounted
  <2> SUFFICES ASSUME AccountsInv
               PROVE  AccountsTypeOK
    BY SigningInvImplies DEF AccountsInv, ResetsAccounted
  <2>1. \A u \in DOMAIN users : /\ users[u].password \in Nat /\ users[u].role \in {"analyst", "admin"}
                                /\ users[u].token \in 0 .. Len(issued)
    <3>1. \A u \in DOMAIN users : users[u] \in UserRow(Len(issued))
      BY DEF AccountsInv, SigningInv, SigningTypes
    <3>2. QED
      BY <3>1 DEF UserRow
  <2>2. \A key \in apiKeys : /\ key.owner \in DOMAIN users \union {Anonymous}
                             /\ key.scopes \subseteq KnownScopes /\ key.id < minted
    <3>1. CASE service = "keys"
      BY <3>1 DEF AccountsInv, KeysInv, KeyTable, Grantable
    <3>2. CASE service # "keys"
      BY <3>2 DEF AccountsInv
    <3>3. QED
      BY <3>1, <3>2
  <2>3. QED
    BY <2>1, <2>2 DEF AccountsInv, SigningInv, SigningTypes, AccountsTypeOK
<1>2. QED
  BY <1>1, AccountsInvariant, PTL

-----------------------------------------------------------------------------
(* Quotas: an account exceeds the largest limit its calls were checked       *)
(* against by the other requests in progress, and no more.                   *)

QuotaTypes ==
  /\ usage \in [Users -> Nat] /\ checked \in [Users -> Nat] /\ DOMAIN calls = Callers
  /\ \A c \in Callers : /\ calls[c].step \in {"idle", "count", "record"}
                        /\ calls[c].step # "idle" => calls[c].user \in Users /\ calls[c].limit \in Nat \ {0}

\* The calls of an account that have been checked against at most this limit
\* and wait to be recorded.
Recording(u, limit) ==
  {c \in Callers : calls[c].step = "record" /\ calls[c].user = u /\ calls[c].limit <= limit}

\* What is recorded and what waits stay within any limit not below the
\* largest checked, but for the callers: a call passes with one place free.
CallBudget ==
  \A u \in Users, limit \in Nat :
    checked[u] <= limit =>
      LET waiting == Cardinality(Recording(u, limit)) IN
        usage[u] + waiting = 0 \/ usage[u] + waiting <= limit + Cardinality(Callers) - 1

QuotaInv == OrgsInv /\ QuotaTypes /\ CallBudget

\* The plan in effect is the largest of those held.
LEMMA LargestPlan ==
  ASSUME OrgsInv, NEW u
  PROVE  /\ EffectivePlan(u) \in Plans
         /\ \A o \in ListOrgs(u) : Limit[o.plan] <= Limit[EffectivePlan(u)]
<1> DEFINE held == {"free"} \union {o.plan : o \in ListOrgs(u)}
           Largest(p) == p \in held /\ \A q \in held : Limit[q] <= Limit[p]
<1>1. held \subseteq {"free", "pro", "enterprise"} /\ "free" \in held
  BY PlansAssumption DEF OrgsInv, ListOrgs, Plans
<1>2. /\ Limit["free"] \in Nat /\ Limit["pro"] \in Nat /\ Limit["enterprise"] \in Nat
      /\ Limit["free"] < Limit["pro"] /\ Limit["pro"] < Limit["enterprise"]
  BY PlansAssumption
<1>3. \E p \in Plans : Largest(p)
  <2>1. CASE "enterprise" \in held
    BY <1>1, <1>2, <2>1, PlansAssumption DEF Plans
  <2>2. CASE "enterprise" \notin held /\ "pro" \in held
    BY <1>1, <1>2, <2>2, PlansAssumption DEF Plans
  <2>3. CASE "enterprise" \notin held /\ "pro" \notin held
    BY <1>1, <1>2, <2>3, PlansAssumption DEF Plans
  <2>4. QED
    BY <2>1, <2>2, <2>3
<1>4. EffectivePlan(u) = CHOOSE p \in Plans : Largest(p)
  BY DEF EffectivePlan
<1>5. EffectivePlan(u) \in Plans /\ Largest(EffectivePlan(u))
  BY <1>3, <1>4
<1>6. QED
  BY <1>5

LEMMA OrgsChange ==
  ASSUME OrgsInv, UNCHANGED orgs \/ OrgsStep
  PROVE  OrgsInv'
<1>1. CASE UNCHANGED orgs
  BY <1>1 DEF OrgsInv
<1>2. ASSUME NEW u \in Users, NEW plan, CreateOrganization(u, plan)
      PROVE  OrgsInv'
  <2> DEFINE new == [id |-> Cardinality(orgs) + 1, owner |-> u, members |-> {u},
                     plan |-> IF plan \in Plans THEN plan ELSE "free"]
  <2>1. orgs' = orgs \union {new}
    BY <1>2 DEF CreateOrganization
  <2>2. new.plan \in Plans
    BY PlansAssumption DEF Plans
  <2>3. QED
    BY <2>1, <2>2 DEF OrgsInv
<1>3. ASSUME NEW u \in Users, NEW plan, NEW org \in orgs, SetOrgPlan(u, org, plan)
      PROVE  OrgsInv'
  <2> DEFINE new == [org EXCEPT !.plan = plan]
  <2>1. orgs' = (orgs \ {org}) \union {new} /\ plan \in Plans
    BY <1>3 DEF SetOrgPlan
  <2>2. /\ DOMAIN new = DOMAIN org /\ DOMAIN org = {"id", "owner", "members", "plan"}
        /\ new.owner = org.owner /\ new.members = org.members /\ new.plan = plan
    BY DEF OrgsInv
  <2>3. QED
    BY <2>1, <2>2 DEF OrgsInv
<1>4. QED
  BY <1>1, <1>2, <1>3 DEF OrgsStep

LEMMA InitQuotaInv == ApiInit => QuotaInv
<1> SUFFICES ASSUME ApiInit
             PROVE  QuotaInv
  OBVIOUS
<1>1. OrgsInv
  BY PlansAssumption DEF ApiInit, KeysInit, SigningInit, OrgsInit, OrgsInv, Plans
<1>2. QuotaTypes
  BY DEF ApiInit, QuotasInit, QuotaTypes, Waiting
<1>3. \A u \in Users, limit \in Nat : Recording(u, limit) = {}
  BY DEF ApiInit, QuotasInit, Recording, Waiting
<1>4. CallBudget
  <2>1. ASSUME NEW u \in Users, NEW limit \in Nat
        PROVE  usage[u] + Cardinality(Recording(u, limit)) = 0
    <3>1. Cardinality(Recording(u, limit)) = 0
      BY <1>3, FS_EmptySet
    <3>2. usage[u] = 0
      BY DEF ApiInit, QuotasInit
    <3>3. QED
      BY <3>1, <3>2
  <2>2. QED
    BY <2>1 DEF CallBudget
<1>5. QED
  BY <1>1, <1>2, <1>4 DEF QuotaInv

\* Calls waiting are callers.
LEMMA WaitingCount ==
  ASSUME NEW u, NEW limit
  PROVE  /\ Cardinality(Recording(u, limit)) \in Nat /\ Cardinality(Callers) \in Nat
         /\ Cardinality(Recording(u, limit)) <= Cardinality(Callers)
         /\ Recording(u, limit) # {} => Cardinality(Callers) # 0
<1>1. Recording(u, limit) \in SUBSET Callers
  BY DEF Recording
<1>2. Callers # {} => Cardinality(Callers) # 0
  BY QuotasAssumption, FS_EmptySet
<1>3. QED
  BY <1>1, <1>2, CountThreads, QuotasAssumption

LEMMA ReadPlanKeeps ==
  ASSUME QuotaInv, NEW c \in Callers, NEW u \in Users, ReadPlan(c, u)
  PROVE  QuotaInv'
<1> DEFINE call == [step |-> "count", user |-> u, limit |-> Limit[EffectivePlan(u)]]
<1>1. /\ calls[c].step = "idle" /\ calls' = [calls EXCEPT ![c] = call]
      /\ UNCHANGED <<orgs, usage, checked>>
  BY DEF ReadPlan
<1>2. /\ DOMAIN calls' = Callers /\ calls'[c] = call
      /\ \A x \in Callers : x # c => calls'[x] = calls[x]
  BY <1>1 DEF QuotaInv, QuotaTypes
<1>3. Limit[EffectivePlan(u)] \in Nat \ {0}
  BY LargestPlan, PlansAssumption DEF QuotaInv, Plans
<1>4. QuotaTypes'
  BY <1>1, <1>2, <1>3 DEF QuotaInv, QuotaTypes
<1>5. \A x, limit : Recording(x, limit)' = Recording(x, limit)
  BY <1>1, <1>2 DEF Recording
<1>6. QED
  BY <1>1, <1>4, <1>5 DEF QuotaInv, OrgsInv, CallBudget

\* A call that passes found a place below its limit.
LEMMA CountCallsKeeps ==
  ASSUME QuotaInv, NEW c \in Callers, CountCalls(c)
  PROVE  QuotaInv'
<1> DEFINE call == calls[c]
           passed == [call EXCEPT !.step = "record"]
<1>1. /\ call.step = "count" /\ UNCHANGED <<orgs, usage, checked>>
      /\ call.user \in Users /\ call.limit \in Nat \ {0}
  BY DEF CountCalls, QuotaInv, QuotaTypes
<1>2. CASE OverQuota(c)
  <2>1. calls' = [calls EXCEPT ![c] = Waiting]
    BY <1>2 DEF CountCalls
  <2>2. /\ DOMAIN calls' = Callers /\ calls'[c] = Waiting
        /\ \A x \in Callers : x # c => calls'[x] = calls[x]
    BY <2>1 DEF QuotaInv, QuotaTypes
  <2>3. QuotaTypes'
    BY <1>1, <2>2 DEF QuotaInv, QuotaTypes, Waiting
  <2>4. \A x, limit : Recording(x, limit)' = Recording(x, limit)
    BY <1>1, <2>2 DEF Recording, Waiting
  <2>5. QED
    BY <1>1, <2>3, <2>4 DEF QuotaInv, OrgsInv, CallBudget
<1>3. CASE ~OverQuota(c)
  <2>1. calls' = [calls EXCEPT ![c] = passed]
    BY <1>3 DEF CountCalls
  <2>2. passed.step = "record" /\ passed.user = call.user /\ passed.limit = call.limit
    BY DEF CountCalls
  <2>3. /\ DOMAIN calls' = Callers /\ calls'[c] = passed
        /\ \A x \in Callers : x # c => calls'[x] = calls[x]
    BY <2>1 DEF QuotaInv, QuotaTypes
  <2>4. QuotaTypes'
    BY <1>1, <2>2, <2>3 DEF QuotaInv, QuotaTypes
  <2>5. usage[call.user] < call.limit
    BY <1>1, <1>3 DEF OverQuota, QuotaInv, QuotaTypes
  <2>6. CallBudget'
    <3> SUFFICES ASSUME NEW u \in Users, NEW limit \in Nat, checked[u] <= limit
                 PROVE  \/ usage[u] + Cardinality(Recording(u, limit)') = 0
                        \/ usage[u] + Cardinality(Recording(u, limit)') <= limit + Cardinality(Callers) - 1
      BY <1>1 DEF CallBudget
    <3>1. CASE u = call.user /\ call.limit <= limit
      <4>1. usage[u] \in Nat /\ usage[u] <= limit - 1
        BY <1>1, <2>5, <3>1 DEF QuotaInv, QuotaTypes
      <4>2. /\ Cardinality(Recording(u, limit)') \in Nat /\ Cardinality(Callers) \in Nat
            /\ Cardinality(Recording(u, limit)') <= Cardinality(Callers)
        <5>1. Recording(u, limit)' \in SUBSET Callers
          BY DEF Recording
        <5>2. QED
          BY <5>1, CountThreads, QuotasAssumption
      <4>3. QED
        BY <4>1, <4>2
    <3>2. CASE ~(u = call.user /\ call.limit <= limit)
      <4>1. Recording(u, limit)' = Recording(u, limit)
        <5>1. c \notin Recording(u, limit)
          BY <1>1 DEF Recording
        <5>2. c \notin Recording(u, limit)'
          BY <2>2, <2>3, <3>2 DEF Recording
        <5>3. ASSUME NEW x \in Callers, x # c
              PROVE  x \in Recording(u, limit)' <=> x \in Recording(u, limit)
          BY <2>3, <5>3 DEF Recording
        <5>4. Recording(u, limit) \subseteq Callers /\ Recording(u, limit)' \subseteq Callers
          BY DEF Recording
        <5>5. QED
          BY <5>1, <5>2, <5>3, <5>4
      <4>2. \/ usage[u] + Cardinality(Recording(u, limit)) = 0
            \/ usage[u] + Cardinality(Recording(u, limit)) <= limit + Cardinality(Callers) - 1
        BY DEF QuotaInv, CallBudget
      <4>3. QED
        BY <4>1, <4>2
    <3>3. QED
      BY <3>1, <3>2
  <2>7. QED
    BY <1>1, <2>4, <2>6 DEF QuotaInv, OrgsInv
<1>4. QED
  BY <1>2, <1>3

LEMMA RecordUsageKeeps ==
  ASSUME QuotaInv, NEW c \in Callers, RecordUsage(c)
  PROVE  QuotaInv'
<1> DEFINE u == calls[c].user
           limit == calls[c].limit
<1>1. /\ calls[c].step = "record" /\ calls' = [calls EXCEPT ![c] = Waiting]
      /\ usage' = [usage EXCEPT ![u] = @ + 1]
      /\ checked' = [checked EXCEPT ![u] = IF @ < limit THEN limit ELSE @]
      /\ UNCHANGED orgs
  BY DEF RecordUsage
<1>2. u \in Users /\ limit \in Nat \ {0} /\ usage \in [Users -> Nat] /\ checked \in [Users -> Nat]
  BY <1>1 DEF QuotaInv, QuotaTypes
<1>3. /\ DOMAIN calls' = Callers /\ calls'[c] = Waiting
      /\ \A x \in Callers : x # c => calls'[x] = calls[x]
  BY <1>1 DEF QuotaInv, QuotaTypes
<1>4. /\ usage'[u] = usage[u] + 1 /\ checked[u] <= checked'[u] /\ limit <= checked'[u]
      /\ \A x \in Users : x # u => usage'[x] = usage[x] /\ checked'[x] = checked[x]
      /\ usage' \in [Users -> Nat] /\ checked' \in [Users -> Nat]
  BY <1>1, <1>2
<1>5. QuotaTypes'
  BY <1>1, <1>3, <1>4 DEF QuotaInv, QuotaTypes, Waiting
<1>6. CallBudget'
  <2> SUFFICES ASSUME NEW x \in Users, NEW most \in Nat, checked'[x] <= most
               PROVE  \/ usage'[x] + Cardinality(Recording(x, most)') = 0
                      \/ usage'[x] + Cardinality(Recording(x, most)') <= most + Cardinality(Callers) - 1
    BY DEF CallBudget
  <2>1. CASE x = u
    <3>1. checked[x] <= most /\ limit <= most
      BY <1>2, <1>4, <2>1
    <3>2. c \in Recording(x, most)
      BY <1>1, <2>1, <3>1 DEF Recording
    <3>3. Recording(x, most)' = Recording(x, most) \ {c}
      <4>1. \A d \in Callers : d # c => calls'[d] = calls[d]
        BY <1>3
      <4>2. calls'[c].step = "idle"
        BY <1>3 DEF Waiting
      <4>3. QED
        BY <4>1, <4>2 DEF Recording
    <3>4. /\ Cardinality(Recording(x, most)') = Cardinality(Recording(x, most)) - 1
          /\ Cardinality(Recording(x, most)) \in Nat
      <4>1. Recording(x, most) \in SUBSET Callers /\ Recording(x, most)' \in SUBSET Callers
        BY DEF Recording
      <4>2. QED
        BY <3>2, <3>3, <4>1, CountThreads, QuotasAssumption
    <3>5. \/ usage[x] + Cardinality(Recording(x, most)) = 0
          \/ usage[x] + Cardinality(Recording(x, most)) <= most + Cardinality(Callers) - 1
      BY <1>2, <3>1 DEF QuotaInv, CallBudget
    <3>6. usage'[x] = usage[x] + 1 /\ usage[x] \in Nat
      BY <1>2, <1>4, <2>1
    <3>7. usage'[x] + Cardinality(Recording(x, most)') = usage[x] + Cardinality(Recording(x, most))
      BY <3>4, <3>6
    <3>8. QED
      BY <3>5, <3>7
  <2>2. CASE x # u
    <3>1. Recording(x, most)' = Recording(x, most)
      BY <1>1, <1>3, <2>2 DEF Recording, Waiting
    <3>2. QED
      BY <1>4, <2>2, <3>1 DEF QuotaInv, CallBudget
  <2>3. QED
    BY <2>1, <2>2
<1>7. QED
  BY <1>1, <1>5, <1>6 DEF QuotaInv, OrgsInv

\* After midnight only waiting calls count, and none waits below a limit of one.
LEMMA MidnightKeeps ==
  ASSUME QuotaInv, Midnight
  PROVE  QuotaInv'
<1>1. /\ usage' = [u \in Users |-> 0] /\ checked' = [u \in Users |-> 0]
      /\ UNCHANGED <<orgs, calls>>
  BY DEF Midnight
<1>2. QuotaTypes'
  BY <1>1 DEF QuotaInv, QuotaTypes
<1>3. \A u, limit : Recording(u, limit)' = Recording(u, limit)
  BY <1>1 DEF Recording
<1>4. CallBudget'
  <2> SUFFICES ASSUME NEW u \in Users, NEW limit \in Nat
               PROVE  \/ 0 + Cardinality(Recording(u, limit)) = 0
                      \/ 0 + Cardinality(Recording(u, limit)) <= limit + Cardinality(Callers) - 1
    BY <1>1, <1>3 DEF CallBudget
  <2>1. CASE limit = 0
    <3>1. Recording(u, limit) = {}
      BY <2>1 DEF Recording, QuotaInv, QuotaTypes
    <3>2. QED
      BY <3>1, FS_EmptySet
  <2>2. CASE limit # 0
    BY <2>2, WaitingCount
  <2>3. QED
    BY <2>1, <2>2
<1>5. QED
  BY <1>1, <1>2, <1>4 DEF QuotaInv, OrgsInv

\* What the other services leave of the quotas.
LEMMA QuotaKept ==
  ASSUME QuotaInv, UNCHANGED <<usage, calls, checked>>, UNCHANGED orgs \/ OrgsStep
  PROVE  QuotaInv'
<1>1. OrgsInv'
  BY OrgsChange DEF QuotaInv
<1>2. QED
  BY <1>1 DEF QuotaInv, QuotaTypes, CallBudget, Recording

LEMMA NextQuotaInv == QuotaInv /\ [ApiNext]_apiVars => QuotaInv'
<1> SUFFICES ASSUME QuotaInv, [ApiNext]_apiVars
             PROVE  QuotaInv'
  OBVIOUS
<1>1. CASE QuotasNext
  BY <1>1, ReadPlanKeeps, CountCallsKeeps, RecordUsageKeeps, MidnightKeeps, QuotaKept DEF QuotasNext
<1>2. CASE SigningNext /\ UNCHANGED <<usage, calls, checked>>
  <2>1. UNCHANGED orgs
    BY <1>2 DEF SigningNext, WriteAudit, RegisterInsert, ConfirmSet, Login, RegisterLook,
                ConfirmLook, RequestReset, Restart, Tick, rows
  <2>2. QED
    BY <1>2, <2>1, QuotaKept
<1>3. CASE KeysNext /\ UNCHANGED <<usage, calls, checked>>
  <2>1. UNCHANGED orgs \/ \E u \in Users, org \in orgs, plan \in Telling : SetOrgPlan(u, org, plan)
    BY <1>3 DEF KeysNext, WriteAudit, MintEmail, MintJudge, MintStore, EnterPlan, EnterScopes, EnterAnswer,
                EnterStart, MintStart, Revoke, Restart, Tick, rows
  <2>2. UNCHANGED orgs \/ OrgsStep
    BY <2>1, PlansAssumption DEF OrgsStep, Telling, Named, Plans
  <2>3. QED
    BY <1>3, <2>2, QuotaKept
<1>4. CASE UNCHANGED quotaVars
  BY <1>4, QuotaKept DEF quotaVars
<1>5. QED
  BY <1>1, <1>2, <1>3, <1>4 DEF ApiNext, apiVars

\* What is metered and what waits to be, in every reachable state.
THEOREM QuotaInvariant == ApiSpec => []QuotaInv
BY InitQuotaInv, NextQuotaInv, PTL DEF ApiSpec

\* An account's calls of a day exceed the largest limit they were checked
\* against by less than the number of callers, whatever plans change and
\* calls overlap; and who is billed as over the limit has no call left.
THEOREM Quota == ApiSpec => []QuotaSound
<1>1. QuotaInv => QuotaSound
  <2> SUFFICES ASSUME QuotaInv
               PROVE  QuotaSound
    OBVIOUS
  <2>1. QuotasTypeOK
    BY DEF QuotaInv, QuotaTypes, OrgsInv, QuotasTypeOK
  <2>2. OvershootBounded
    <3> SUFFICES ASSUME NEW u \in Users
                 PROVE  usage[u] = 0 \/ usage[u] <= checked[u] + Cardinality(Callers) - 1
      BY DEF OvershootBounded
    <3> DEFINE waiting == Cardinality(Recording(u, checked[u]))
    <3>1. usage[u] \in Nat /\ checked[u] \in Nat
      BY DEF QuotaInv, QuotaTypes
    <3>2. usage[u] + waiting = 0 \/ usage[u] + waiting <= checked[u] + Cardinality(Callers) - 1
      BY <3>1 DEF QuotaInv, CallBudget
    <3>3. waiting \in Nat /\ Cardinality(Callers) \in Nat
      BY WaitingCount
    <3>4. QED
      BY <3>1, <3>2, <3>3
  <2>3. OverBilledIsRefused
    <3> SUFFICES ASSUME NEW o \in orgs, ~WithinLimits(o)
                 PROVE  QuotaRemaining(o.owner) = 0 \/ Limit[EffectivePlan(o.owner)] > Limit[o.plan]
      BY DEF OverBilledIsRefused
    <3>1. o \in ListOrgs(o.owner) /\ o.plan \in Plans /\ o.owner \in Users
      BY DEF QuotaInv, OrgsInv, ListOrgs
    <3>2. Limit[o.plan] <= Limit[EffectivePlan(o.owner)] /\ EffectivePlan(o.owner) \in Plans
      BY <3>1, LargestPlan DEF QuotaInv
    <3>3. Limit[o.plan] \in Nat /\ Limit[EffectivePlan(o.owner)] \in Nat
      BY <3>1, <3>2, PlansAssumption DEF Plans
    <3>4. usage[o.owner] \in Nat
      BY <3>1 DEF QuotaInv, QuotaTypes
    <3>5. usage[o.owner] > Limit[o.plan]
      BY <3>3, <3>4 DEF WithinLimits
    <3>6. QED
      BY <3>2, <3>3, <3>4, <3>5 DEF QuotaRemaining
  <2>4. QED
    BY <2>1, <2>2, <2>3 DEF QuotaSound
<1>2. QED
  BY <1>1, QuotaInvariant, PTL

-----------------------------------------------------------------------------
(* Workspaces: overlapping requests leave no member out, and orphans only  *)
(* where a deletion overtook them.                                         *)

\* Identifiers are given out once; an account that may write, may read.
WorkspaceTable ==
  /\ nextId \in Nat
  /\ \A row \in workspaces : row.id \in Nat /\ row.id < nextId /\ row.owner \in People
  /\ \A a, b \in workspaces : a.id = b.id => a = b
  /\ \A row \in members \union items : row.workspace \in Nat /\ row.workspace < nextId
  /\ \A row \in items : row.author \in People

OwnersAreMembers ==
  \A row \in workspaces : \E m \in members : m.workspace = row.id /\ m.email = row.owner

\* What a thread knows of a row it read.
TeamTask(task) ==
  /\ task.op \in {"member", "item"} => task.row.workspace \in Nat /\ task.row.workspace < nextId
  /\ task.op = "item" =>
       /\ task.row.author \in People
       /\ \A row \in workspaces : row.id = task.row.workspace => CanAccess(row, task.row.author)
  /\ task.op = "close" =>
       /\ task.row.id \in Nat /\ task.row.id < nextId
       /\ \A row \in workspaces : row.id = task.row.id => row = task.row

TeamTasks == \A t \in Threads : TeamTask(tasks[t])

\* Rows without a workspace, and threads about to add one.
OrphanItems == {row \in items : Gone(row)}
OrphanMembers == {row \in members : Gone(row)}
Adding(task) == task.op \in {"member", "item"}
Orphaning == {t \in Threads : Adding(tasks[t]) /\ Gone(tasks[t].row)}

OrphanBudget ==
  /\ deletions \in Nat
  /\ IsFiniteSet(OrphanItems) /\ IsFiniteSet(OrphanMembers)
  /\ Cardinality(OrphanItems) + Cardinality(OrphanMembers) + Cardinality(Orphaning)
       <= deletions * (Cardinality(Threads) - 1)

TeamInv ==
  /\ DOMAIN tasks = Threads /\ WorkspaceTable /\ OwnersAreMembers /\ AuthorsHaveAccess
  /\ TeamTasks
  /\ OrphanBudget

LEMMA InitTeamInv == RecordsInit => TeamInv
<1> SUFFICES ASSUME RecordsInit
             PROVE  TeamInv
  OBVIOUS
<1>1. /\ DOMAIN tasks = Threads /\ \A t \in Threads : tasks[t] = Resting
      /\ workspaces = {} /\ members = {} /\ items = {} /\ deletions = 0 /\ nextId = 1
  BY DEF RecordsInit
<1>2. OrphanItems = {} /\ OrphanMembers = {} /\ Orphaning = {}
  BY <1>1 DEF OrphanItems, OrphanMembers, Orphaning, Adding, Resting
<1>3. Cardinality(Threads) \in Nat
  BY RecordsAssumption, FS_CardinalityType
<1>4. OrphanBudget
  BY <1>1, <1>2, <1>3, FS_EmptySet DEF OrphanBudget
<1>5. TeamTasks
  BY <1>1 DEF TeamTasks, TeamTask, Resting
<1>6. QED
  BY <1>1, <1>4, <1>5 DEF TeamInv, WorkspaceTable, OwnersAreMembers, AuthorsHaveAccess

\* Orphans are counted in natural numbers.
LEMMA OrphanCounts ==
  ASSUME TeamInv
  PROVE  /\ Cardinality(OrphanItems) \in Nat /\ Cardinality(OrphanMembers) \in Nat
         /\ Cardinality(Orphaning) \in Nat /\ IsFiniteSet(Orphaning)
         /\ Cardinality(Threads) \in Nat /\ Cardinality(Threads) >= 1
<1>1. Orphaning \in SUBSET Threads
  BY DEF Orphaning
<1>2. IsFiniteSet(Orphaning)
  BY <1>1, RecordsAssumption, FS_Subset
<1>3. Cardinality(Threads) \in Nat /\ Cardinality(Threads) # 0
  BY RecordsAssumption, FS_CardinalityType, FS_EmptySet
<1>4. QED
  BY <1>2, <1>3, FS_CardinalityType DEF TeamInv, OrphanBudget

\* Steps that leave the workspaces' rows alone and add no one who adds to a
\* workspace that is gone.
LEMMA TeamKept ==
  ASSUME TeamInv, UNCHANGED team, nextId' \in Nat, nextId <= nextId', DOMAIN tasks' = Threads,
         TeamTasks',
         \A t \in Threads : \/ tasks'[t] = tasks[t]
                            \/ Adding(tasks'[t]) => ~Gone(tasks'[t].row)
  PROVE  TeamInv'
<1>1. WorkspaceTable'
  BY DEF TeamInv, WorkspaceTable, team
<1>2. OwnersAreMembers' /\ AuthorsHaveAccess'
  BY DEF TeamInv, OwnersAreMembers, AuthorsHaveAccess, CanAccess, MembersOf, team
<1>4. OrphanBudget'
  <2>1. \A row : Gone(row)' = Gone(row)
    BY DEF Gone, team
  <2>2. OrphanItems' = OrphanItems /\ OrphanMembers' = OrphanMembers /\ deletions' = deletions
    BY <2>1 DEF OrphanItems, OrphanMembers, team
  <2>3. Orphaning' \in SUBSET Orphaning
    BY <2>1 DEF Orphaning, Adding
  <2>4. Cardinality(Orphaning') \in Nat /\ Cardinality(Orphaning') <= Cardinality(Orphaning)
    BY <2>3, OrphanCounts, FS_Subset, FS_CardinalityType
  <2> HIDE DEF OrphanItems, OrphanMembers, Orphaning
  <2>5. Cardinality(OrphanItems') + Cardinality(OrphanMembers') + Cardinality(Orphaning')
          <= Cardinality(OrphanItems) + Cardinality(OrphanMembers) + Cardinality(Orphaning)
    BY <2>2, <2>4, OrphanCounts
  <2> DEFINE most == deletions * (Cardinality(Threads) - 1)
  <2>6. most \in Int /\ most' = most
    BY <2>2, OrphanCounts DEF TeamInv, OrphanBudget
  <2>7. QED
    BY <2>2, <2>4, <2>5, <2>6, OrphanCounts DEF TeamInv, OrphanBudget
<1>5. QED
  BY <1>1, <1>2, <1>4 DEF TeamInv

LEMMA TeamUndisturbed ==
  ASSUME TeamInv, UNCHANGED <<team, tasks>>, nextId' \in {nextId, nextId + 1}
  PROVE  TeamInv'
<1>1. nextId \in Nat /\ nextId' \in Nat /\ nextId <= nextId'
  BY DEF TeamInv, WorkspaceTable
<1>2. TeamTasks'
  BY <1>1 DEF TeamInv, TeamTasks, TeamTask, CanAccess, MembersOf, team
<1>3. QED
  BY <1>1, <1>2, TeamKept DEF TeamInv

\* The steps that only read.
LEMMA LookKeeps ==
  ASSUME TeamInv, NEW t \in Threads, NEW task, Does(t, task), UNCHANGED team,
         nextId' = nextId \/ nextId' = nextId + 1,
         Adding(task) => \E row \in workspaces : /\ task.row.workspace = row.id
                                                 /\ task.op = "item" =>
                                                      /\ task.row.author \in People
                                                      /\ CanAccess(row, task.row.author),
         task.op = "close" => task.row \in workspaces
  PROVE  TeamInv'
<1>1. /\ DOMAIN tasks' = Threads /\ tasks'[t] = task
      /\ \A s \in Threads : s # t => tasks'[s] = tasks[s]
  BY DEF Does, TeamInv
<1>2. nextId' \in Nat /\ nextId <= nextId' /\ nextId \in Nat
  BY DEF TeamInv, WorkspaceTable
<1>3. Adding(task) => ~Gone(task.row)
  BY DEF Gone
<1>4. TeamTask(task)
  BY DEF TeamTask, Adding, TeamInv, WorkspaceTable
<1>5. TeamTasks'
  BY <1>1, <1>2, <1>4 DEF TeamInv, TeamTasks, TeamTask, CanAccess, MembersOf, team
<1>6. QED
  BY <1>1, <1>2, <1>3, <1>5, TeamKept

LEMMA LooksKeep ==
  ASSUME TeamInv, NEW t \in Threads, NEW e \in People, NEW row \in workspaces,
         \/ AddItemLook(t, e, row) \/ DeleteWorkspaceLook(t, e, row)
         \/ \E m \in People : AddMemberLook(t, e, row, m)
         \/ \E item \in items : DeleteItemLook(t, e, row, item)
  PROVE  TeamInv'
<1>1. CASE AddItemLook(t, e, row)
  <2> DEFINE task == [op |-> "item", row |-> [id |-> nextId, workspace |-> row.id, author |-> e]]
  <2>1. Does(t, task) /\ UNCHANGED team /\ nextId' = nextId + 1 /\ CanAccess(row, e)
    BY <1>1 DEF AddItemLook
  <2>2. task.op = "item" /\ task.row.workspace = row.id /\ task.row.author = e
    OBVIOUS
  <2> HIDE DEF task
  <2>3. QED
    BY <2>1, <2>2, LookKeeps
<1>2. CASE DeleteWorkspaceLook(t, e, row)
  <2> DEFINE task == [op |-> "close", row |-> row]
  <2>1. Does(t, task) /\ UNCHANGED team /\ nextId' = nextId
    BY <1>2 DEF DeleteWorkspaceLook
  <2>2. task.op = "close" /\ task.row = row
    OBVIOUS
  <2> HIDE DEF task
  <2>3. QED
    BY <2>1, <2>2, LookKeeps DEF Adding
<1>3. ASSUME NEW m \in People, AddMemberLook(t, e, row, m)
      PROVE  TeamInv'
  <2> DEFINE task == [op |-> "member", row |-> [workspace |-> row.id, email |-> m]]
  <2>1. Does(t, task) /\ UNCHANGED team /\ nextId' = nextId
    BY <1>3 DEF AddMemberLook
  <2>2. task.op = "member" /\ task.row.workspace = row.id
    OBVIOUS
  <2> HIDE DEF task
  <2>3. QED
    BY <2>1, <2>2, LookKeeps
<1>4. ASSUME NEW item \in items, DeleteItemLook(t, e, row, item)
      PROVE  TeamInv'
  <2> DEFINE task == [op |-> "remove", row |-> item]
  <2>1. Does(t, task) /\ UNCHANGED team /\ nextId' = nextId
    BY <1>4 DEF DeleteItemLook
  <2>2. task.op = "remove"
    OBVIOUS
  <2> HIDE DEF task
  <2>3. QED
    BY <2>1, <2>2, LookKeeps DEF Adding
<1>5. QED
  BY <1>1, <1>2, <1>3, <1>4

LEMMA CreateWorkspaceKeeps ==
  ASSUME TeamInv, NEW e \in People, NEW invited \in SUBSET People, CreateWorkspace(e, invited)
  PROVE  TeamInv'
<1> DEFINE new == [id |-> nextId, owner |-> e]
           joined == {[workspace |-> nextId, email |-> m] : m \in FirstMembers(e, invited)}
<1>1. /\ workspaces' = workspaces \union {new} /\ members' = members \union joined
      /\ nextId' = nextId + 1 /\ UNCHANGED <<items, deletions, tasks>> /\ nextId \in Nat
  BY DEF CreateWorkspace, TeamInv, WorkspaceTable
<1>2. /\ new.id = nextId /\ new.owner = e
      /\ [workspace |-> nextId, email |-> e] \in joined
      /\ \A m \in joined : m.workspace = nextId
  BY DEF FirstMembers
<1>3. WorkspaceTable'
  <2> HIDE DEF new, joined
  <2>1. \A row \in workspaces' : row.id \in Nat /\ row.id < nextId' /\ row.owner \in People
    BY <1>1, <1>2 DEF TeamInv, WorkspaceTable
  <2>2. \A a, b \in workspaces' : a.id = b.id => a = b
    BY <1>1, <1>2 DEF TeamInv, WorkspaceTable
  <2>3. \A row \in members' \union items' : row.workspace \in Nat /\ row.workspace < nextId'
    BY <1>1, <1>2 DEF TeamInv, WorkspaceTable
  <2>4. QED
    BY <1>1, <2>1, <2>2, <2>3 DEF TeamInv, WorkspaceTable
<1>4. OwnersAreMembers'
  <2>1. \E m \in members' : m.workspace = new.id /\ m.email = new.owner
    <3> DEFINE first == [workspace |-> nextId, email |-> e]
    <3>1. first \in members' /\ first.workspace = nextId /\ first.email = e
      BY <1>1, <1>2
    <3> HIDE DEF first, new
    <3>2. QED
      BY <1>2, <3>1
  <2> HIDE DEF new, joined
  <2>2. QED
    BY <1>1, <2>1 DEF TeamInv, OwnersAreMembers
<1> HIDE DEF new, joined
<1>5. \A row \in workspaces : \A email : CanAccess(row, email) => CanAccess(row, email)'
  BY <1>1 DEF CanAccess, MembersOf
<1>6. AuthorsHaveAccess'
  <2>1. \A item \in items : item.workspace # new.id
    BY <1>1, <1>2 DEF TeamInv, WorkspaceTable
  <2>2. QED
    BY <1>1, <1>5, <2>1 DEF TeamInv, AuthorsHaveAccess
<1>7. TeamTasks'
  <2> SUFFICES ASSUME NEW t \in Threads
               PROVE  TeamTask(tasks[t])'
    BY DEF TeamTasks
  <2>1. PICK task : task = tasks[t]
    OBVIOUS
  <2>2. TeamTask(task) /\ tasks'[t] = task
    BY <1>1, <2>1 DEF TeamInv, TeamTasks
  <2>3. task.op \in {"member", "item"} => task.row.workspace \in Nat /\ task.row.workspace < nextId'
                                          /\ task.row.workspace # new.id
    BY <1>1, <1>2, <2>2 DEF TeamTask
  <2>4. task.op = "close" => task.row.id \in Nat /\ task.row.id < nextId' /\ task.row.id # new.id
    BY <1>1, <1>2, <2>2 DEF TeamTask
  <2>5. task.op = "item" =>
          \A row \in workspaces' : row.id = task.row.workspace => CanAccess(row, task.row.author)'
    BY <1>1, <1>5, <2>2, <2>3 DEF TeamTask
  <2>6. task.op = "close" => \A row \in workspaces' : row.id = task.row.id => row = task.row
    BY <1>1, <2>2, <2>4 DEF TeamTask
  <2>7. TeamTask(task)'
    BY <2>2, <2>3, <2>4, <2>5, <2>6 DEF TeamTask
  <2>8. QED
    BY <2>2, <2>7
<1>8. OrphanBudget'
  <2>1. \A row : row.workspace \in Nat /\ row.workspace < nextId => Gone(row)' = Gone(row)
    BY <1>1, <1>2 DEF Gone
  <2>2. OrphanItems' = OrphanItems
    BY <1>1, <2>1 DEF OrphanItems, TeamInv, WorkspaceTable
  <2>3. OrphanMembers' = OrphanMembers
    <3>1. \A m \in joined : ~Gone(m)'
      BY <1>1, <1>2 DEF Gone
    <3>2. \A m \in members : Gone(m)' = Gone(m)
      BY <2>1 DEF TeamInv, WorkspaceTable
    <3>3. QED
      BY <1>1, <3>1, <3>2 DEF OrphanMembers
  <2>4. Orphaning' = Orphaning
    BY <1>1, <2>1 DEF Orphaning, Adding, TeamInv, TeamTasks, TeamTask
  <2>5. QED
    BY <1>1, <2>2, <2>3, <2>4 DEF TeamInv, OrphanBudget
<1>9. QED
  BY <1>1, <1>3, <1>4, <1>6, <1>7, <1>8 DEF TeamInv

\* A row is added to a table; one that is an orphan was counted as coming.
LEMMA OneMore ==
  ASSUME NEW A, IsFiniteSet(A), NEW x, NEW B \in SUBSET (A \union {x})
  PROVE  IsFiniteSet(B) /\ Cardinality(B) \in Nat /\ Cardinality(B) <= Cardinality(A) + 1
<1> DEFINE C == A \union {x}
<1>1. IsFiniteSet(C) /\ Cardinality(C) <= Cardinality(A) + 1 /\ Cardinality(A) \in Nat
  <2>1. Cardinality(A) \in Nat
    BY FS_CardinalityType
  <2>2. CASE x \in A
    <3>1. C = A
      BY <2>2
    <3> HIDE DEF C
    <3>2. QED
      BY <2>1, <3>1
  <2>3. CASE x \notin A
    <3>1. IsFiniteSet(C) /\ Cardinality(C) = Cardinality(A) + 1
      BY <2>3, FS_AddElement
    <3> HIDE DEF C
    <3>2. QED
      BY <2>1, <3>1
  <2>4. QED
    BY <2>2, <2>3
<1>2. B \in SUBSET C
  OBVIOUS
<1> HIDE DEF C
<1>3. IsFiniteSet(B) /\ Cardinality(B) <= Cardinality(C) /\ Cardinality(B) \in Nat /\ Cardinality(C) \in Nat
  BY <1>1, <1>2, FS_Subset, FS_CardinalityType
<1>4. QED
  BY <1>1, <1>3

LEMMA AddItemCommitKeeps ==
  ASSUME TeamInv, NEW t \in Threads, AddItemCommit(t)
  PROVE  TeamInv'
<1> DEFINE new == tasks[t].row
<1>1. /\ tasks[t].op = "item" /\ items' = items \union {new}
      /\ UNCHANGED <<workspaces, members, deletions, nextId>>
      /\ DOMAIN tasks' = Threads /\ tasks'[t] = Resting
      /\ \A s \in Threads : s # t => tasks'[s] = tasks[s]
  BY DEF AddItemCommit, Does, TeamInv
<1>2. /\ new.workspace \in Nat /\ new.workspace < nextId /\ new.author \in People
      /\ \A row \in workspaces : row.id = new.workspace => CanAccess(row, new.author)
  BY <1>1 DEF TeamInv, TeamTasks, TeamTask
<1> HIDE DEF new
<1>3. \A row, email : CanAccess(row, email)' = CanAccess(row, email)
  BY <1>1 DEF CanAccess, MembersOf
<1>4. WorkspaceTable' /\ OwnersAreMembers' /\ AuthorsHaveAccess'
  BY <1>1, <1>2, <1>3 DEF TeamInv, WorkspaceTable, OwnersAreMembers, AuthorsHaveAccess
<1>5. TeamTasks'
  BY <1>1, <1>3 DEF TeamInv, TeamTasks, TeamTask, Resting
<1>6. OrphanBudget'
  <2>1. \A row : Gone(row)' = Gone(row)
    BY <1>1 DEF Gone
  <2>2. OrphanMembers' = OrphanMembers
    BY <1>1, <2>1 DEF OrphanMembers
  <2>3. CASE Gone(new)
    <3>1. OrphanItems' \in SUBSET (OrphanItems \union {new})
      BY <1>1, <2>1 DEF OrphanItems
    <3>2. t \in Orphaning /\ Orphaning' = Orphaning \ {t}
      BY <1>1, <2>1, <2>3 DEF Orphaning, Adding, Resting, new
    <3>3. Cardinality(Orphaning') = Cardinality(Orphaning) - 1 /\ Cardinality(Orphaning') \in Nat
      BY <3>2, OrphanCounts, FS_RemoveElement, FS_CardinalityType
    <3>4. /\ IsFiniteSet(OrphanItems') /\ Cardinality(OrphanItems') \in Nat
          /\ Cardinality(OrphanItems') <= Cardinality(OrphanItems) + 1
      BY <3>1, OneMore DEF TeamInv, OrphanBudget
    <3>5. QED
      BY <1>1, <2>2, <3>3, <3>4, OrphanCounts DEF TeamInv, OrphanBudget
  <2>4. CASE ~Gone(new)
    <3>1. OrphanItems' = OrphanItems
      BY <1>1, <2>1, <2>4 DEF OrphanItems
    <3>2. Orphaning' = Orphaning
      BY <1>1, <2>1, <2>4 DEF Orphaning, Adding, Resting, new
    <3>3. QED
      BY <1>1, <2>2, <3>1, <3>2 DEF TeamInv, OrphanBudget
  <2>5. QED
    BY <2>3, <2>4
<1>7. QED
  BY <1>1, <1>4, <1>5, <1>6 DEF TeamInv

LEMMA AddMemberCommitKeeps ==
  ASSUME TeamInv, NEW t \in Threads, AddMemberCommit(t)
  PROVE  TeamInv'
<1> DEFINE new == tasks[t].row
<1>1. /\ tasks[t].op = "member" /\ members' = members \union {new}
      /\ UNCHANGED <<workspaces, items, deletions, nextId>>
      /\ DOMAIN tasks' = Threads /\ tasks'[t] = Resting
      /\ \A s \in Threads : s # t => tasks'[s] = tasks[s]
  BY DEF AddMemberCommit, Does, TeamInv
<1>2. new.workspace \in Nat /\ new.workspace < nextId
  BY <1>1 DEF TeamInv, TeamTasks, TeamTask
<1> HIDE DEF new
<1>3. \A row, email : CanAccess(row, email) => CanAccess(row, email)'
  BY <1>1 DEF CanAccess, MembersOf
<1>4. WorkspaceTable' /\ OwnersAreMembers' /\ AuthorsHaveAccess'
  BY <1>1, <1>2, <1>3 DEF TeamInv, WorkspaceTable, OwnersAreMembers, AuthorsHaveAccess
<1>5. TeamTasks'
  BY <1>1, <1>3 DEF TeamInv, TeamTasks, TeamTask, Resting
<1>6. OrphanBudget'
  <2>1. \A row : Gone(row)' = Gone(row)
    BY <1>1 DEF Gone
  <2>2. OrphanItems' = OrphanItems
    BY <1>1, <2>1 DEF OrphanItems
  <2>3. CASE Gone(new)
    <3>1. OrphanMembers' \in SUBSET (OrphanMembers \union {new})
      BY <1>1, <2>1 DEF OrphanMembers
    <3>2. t \in Orphaning /\ Orphaning' = Orphaning \ {t}
      BY <1>1, <2>1, <2>3 DEF Orphaning, Adding, Resting, new
    <3>3. Cardinality(Orphaning') = Cardinality(Orphaning) - 1 /\ Cardinality(Orphaning') \in Nat
      BY <3>2, OrphanCounts, FS_RemoveElement, FS_CardinalityType
    <3>4. /\ IsFiniteSet(OrphanMembers') /\ Cardinality(OrphanMembers') \in Nat
          /\ Cardinality(OrphanMembers') <= Cardinality(OrphanMembers) + 1
      BY <3>1, OneMore DEF TeamInv, OrphanBudget
    <3>5. QED
      BY <1>1, <2>2, <3>3, <3>4, OrphanCounts DEF TeamInv, OrphanBudget
  <2>4. CASE ~Gone(new)
    <3>1. OrphanMembers' = OrphanMembers
      BY <1>1, <2>1, <2>4 DEF OrphanMembers
    <3>2. Orphaning' = Orphaning
      BY <1>1, <2>1, <2>4 DEF Orphaning, Adding, Resting, new
    <3>3. QED
      BY <1>1, <2>2, <3>1, <3>2 DEF TeamInv, OrphanBudget
  <2>5. QED
    BY <2>3, <2>4
<1>7. QED
  BY <1>1, <1>4, <1>5, <1>6 DEF TeamInv

LEMMA DeleteItemCommitKeeps ==
  ASSUME TeamInv, NEW t \in Threads, DeleteItemCommit(t)
  PROVE  TeamInv'
<1>1. /\ tasks[t].op = "remove" /\ items' \subseteq items
      /\ UNCHANGED <<workspaces, members, deletions, nextId>>
      /\ DOMAIN tasks' = Threads /\ tasks'[t] = Resting
      /\ \A s \in Threads : s # t => tasks'[s] = tasks[s]
  BY DEF DeleteItemCommit, Does, TeamInv
<1>2. \A row, email : CanAccess(row, email)' = CanAccess(row, email)
  BY <1>1 DEF CanAccess, MembersOf
<1>3. WorkspaceTable' /\ OwnersAreMembers' /\ AuthorsHaveAccess'
  BY <1>1, <1>2 DEF TeamInv, WorkspaceTable, OwnersAreMembers, AuthorsHaveAccess
<1>4. TeamTasks'
  BY <1>1, <1>2 DEF TeamInv, TeamTasks, TeamTask, Resting
<1>5. OrphanBudget'
  <2>1. \A row : Gone(row)' = Gone(row)
    BY <1>1 DEF Gone
  <2>2. OrphanMembers' = OrphanMembers /\ Orphaning' = Orphaning
    BY <1>1, <2>1 DEF OrphanMembers, Orphaning, Adding, Resting
  <2>3. OrphanItems' \subseteq OrphanItems
    BY <1>1, <2>1 DEF OrphanItems
  <2>4. /\ IsFiniteSet(OrphanItems') /\ Cardinality(OrphanItems') \in Nat
        /\ Cardinality(OrphanItems') <= Cardinality(OrphanItems)
    BY <2>3, FS_Subset, FS_CardinalityType DEF TeamInv, OrphanBudget
  <2>5. QED
    BY <1>1, <2>2, <2>4, OrphanCounts DEF TeamInv, OrphanBudget
<1>6. QED
  BY <1>1, <1>3, <1>4, <1>5 DEF TeamInv

\* A deletion takes the workspace with what is in it; what other threads are
\* adding to it can stay behind, one row for each.
LEMMA DeleteWorkspaceCommitKeeps ==
  ASSUME TeamInv, NEW t \in Threads, DeleteWorkspaceCommit(t)
  PROVE  TeamInv'
<1>1. PICK closed : closed = tasks[t].row
  OBVIOUS
<1>2. /\ tasks[t].op = "close" /\ workspaces' = workspaces \ {closed}
      /\ members' = members \ Inside(members, closed.id)
      /\ items' = items \ Inside(items, closed.id)
      /\ deletions' = deletions + 1 /\ nextId' = nextId
      /\ DOMAIN tasks' = Threads /\ tasks'[t] = Resting
      /\ \A s \in Threads : s # t => tasks'[s] = tasks[s]
  BY <1>1 DEF DeleteWorkspaceCommit, Does, TeamInv
<1>3. /\ closed.id \in Nat
      /\ \A row \in workspaces : row.id = closed.id => row = closed
  BY <1>1, <1>2 DEF TeamInv, TeamTasks, TeamTask
<1>4. \A row \in workspaces' : row \in workspaces /\ row.id # closed.id
  BY <1>2, <1>3
<1>5. \A m \in members : m.workspace # closed.id => m \in members'
  BY <1>2 DEF Inside
<1>6. \A row \in workspaces' : \A email : CanAccess(row, email) => CanAccess(row, email)'
  BY <1>4, <1>5 DEF CanAccess, MembersOf
<1>7. WorkspaceTable'
  BY <1>2 DEF TeamInv, WorkspaceTable, Inside
<1>8. OwnersAreMembers'
  BY <1>4, <1>5 DEF TeamInv, OwnersAreMembers
<1>9. AuthorsHaveAccess'
  BY <1>2, <1>4, <1>6 DEF TeamInv, AuthorsHaveAccess
<1>10. TeamTasks'
  <2> SUFFICES ASSUME NEW s \in Threads, s # t
               PROVE  TeamTask(tasks[s])'
    BY <1>2 DEF TeamTasks, TeamTask, Resting
  <2>1. PICK task : task = tasks[s]
    OBVIOUS
  <2>2. TeamTask(task) /\ tasks'[s] = task
    BY <1>2, <2>1 DEF TeamInv, TeamTasks
  <2>3. TeamTask(task)'
    BY <1>2, <1>4, <1>6, <2>2 DEF TeamTask
  <2>4. QED
    BY <2>2, <2>3 DEF TeamTask
<1>11. OrphanBudget'
  <2>1. \A row : row.workspace # closed.id => Gone(row)' = Gone(row)
    BY <1>2, <1>3 DEF Gone
  <2>2. OrphanItems' \in SUBSET OrphanItems /\ OrphanMembers' \in SUBSET OrphanMembers
    BY <1>2, <2>1 DEF OrphanItems, OrphanMembers, Inside
  <2>3. /\ IsFiniteSet(OrphanItems') /\ Cardinality(OrphanItems') \in Nat
        /\ Cardinality(OrphanItems') <= Cardinality(OrphanItems)
        /\ IsFiniteSet(OrphanMembers') /\ Cardinality(OrphanMembers') \in Nat
        /\ Cardinality(OrphanMembers') <= Cardinality(OrphanMembers)
    BY <2>2, FS_Subset, FS_CardinalityType DEF TeamInv, OrphanBudget
  <2>4. Orphaning' \in SUBSET (Threads \ {t})
    BY <1>2 DEF Orphaning, Adding, Resting
  <2>5. /\ Cardinality(Orphaning') \in Nat
        /\ Cardinality(Orphaning') <= Cardinality(Threads) - 1
    <3> DEFINE others == Threads \ {t}
    <3>1. IsFiniteSet(others) /\ Cardinality(others) = Cardinality(Threads) - 1
      BY RecordsAssumption, FS_RemoveElement
    <3>2. Cardinality(Orphaning') \in Nat /\ Cardinality(Orphaning') <= Cardinality(others)
      BY <2>4, <3>1, FS_Subset, FS_CardinalityType
    <3> HIDE DEF others
    <3>3. QED
      BY <3>1, <3>2
  <2>6. Cardinality(OrphanItems) + Cardinality(OrphanMembers) <= deletions * (Cardinality(Threads) - 1)
    <3>1. PICK most : most = deletions * (Cardinality(Threads) - 1)
      OBVIOUS
    <3>2. most \in Int
      BY <3>1, OrphanCounts DEF TeamInv, OrphanBudget
    <3>3. Cardinality(OrphanItems) + Cardinality(OrphanMembers) + Cardinality(Orphaning) <= most
      BY <3>1 DEF TeamInv, OrphanBudget
    <3>4. Cardinality(OrphanItems) + Cardinality(OrphanMembers) <= most
      BY <3>2, <3>3, OrphanCounts
    <3>5. QED
      BY <3>1, <3>4
  <2>7. deletions \in Nat /\ Cardinality(Threads) - 1 \in Nat
    BY OrphanCounts DEF TeamInv, OrphanBudget
  <2>8. \A d, k \in Nat : (d + 1) * k = d * k + k /\ d * k \in Nat
    OBVIOUS
  <2>9. deletions' * (Cardinality(Threads) - 1)
          = deletions * (Cardinality(Threads) - 1) + (Cardinality(Threads) - 1)
    BY <1>2, <2>7, <2>8
  <2>10. Cardinality(OrphanItems') + Cardinality(OrphanMembers') + Cardinality(Orphaning')
           <= deletions' * (Cardinality(Threads) - 1)
    <3>1. PICK most : most = deletions * (Cardinality(Threads) - 1)
      OBVIOUS
    <3>2. PICK more : more = deletions' * (Cardinality(Threads) - 1)
      OBVIOUS
    <3>3. most \in Nat /\ more = most + (Cardinality(Threads) - 1)
      BY <2>7, <2>8, <2>9, <3>1, <3>2
    <3>4. Cardinality(OrphanItems) + Cardinality(OrphanMembers) <= most
      BY <2>6, <3>1
    <3>5. Cardinality(OrphanItems') + Cardinality(OrphanMembers') <= most
      BY <2>3, <3>3, <3>4, OrphanCounts
    <3>6. Cardinality(OrphanItems') + Cardinality(OrphanMembers') + Cardinality(Orphaning') <= more
      BY <2>3, <2>5, <2>7, <3>3, <3>5
    <3>7. QED
      BY <3>2, <3>6
  <2>11. QED
    BY <1>2, <2>3, <2>7, <2>10 DEF OrphanBudget
<1>12. QED
  BY <1>2, <1>7, <1>8, <1>9, <1>10, <1>11 DEF TeamInv

\* The steps of portfolios and searches are no business of the workspaces.
LEMMA OwnStepsKeepTeam ==
  ASSUME TeamInv, OwnNext
  PROVE  TeamInv'
<1>1. ASSUME NEW t \in Threads, NEW task, Does(t, task), task.op \in {"none", "read", "shown", "sell"},
             UNCHANGED team, nextId' = nextId
      PROVE  TeamInv'
  BY <1>1, LookKeeps DEF Adding
<1>2. CASE \E e \in People : \/ CreatePortfolio(e) \/ CreateSearch(e)
                             \/ \E book \in Books : UploadPortfolio(e, book)
                             \/ \E row \in searches : DeleteSearch(e, row)
  <2>1. UNCHANGED <<team, tasks>> /\ nextId' \in {nextId, nextId + 1}
    BY <1>2 DEF CreatePortfolio, CreateSearch, UploadPortfolio, DeleteSearch, StorePortfolio
  <2>2. QED
    BY <2>1, TeamUndisturbed
<1>3. ASSUME NEW t \in Threads, ShowPortfolio(t)
      PROVE  TeamInv'
  <2> DEFINE task == [op |-> "shown", row |-> tasks[t].row, rows |-> HoldingRows(tasks[t].row.id)]
  <2>1. Does(t, task) /\ task.op = "shown" /\ UNCHANGED team /\ nextId' = nextId
    BY <1>3 DEF ShowPortfolio
  <2> HIDE DEF task
  <2>2. QED
    BY <1>1, <2>1
<1>4. ASSUME NEW t \in Threads, Answered(t) \/ DeletePortfolioCommit(t)
      PROVE  TeamInv'
  <2>1. Does(t, Resting) /\ Resting.op = "none" /\ UNCHANGED team /\ nextId' = nextId
    BY <1>4 DEF Answered, DeletePortfolioCommit, Resting
  <2>2. QED
    BY <1>1, <2>1
<1>5. ASSUME NEW t \in Threads, NEW e \in People, NEW row \in portfolios,
             ReadPortfolio(t, e, row) \/ DeletePortfolioLook(t, e, row)
      PROVE  TeamInv'
  <2>1. /\ \/ Does(t, [op |-> "read", row |-> row])
           \/ Does(t, [op |-> "sell", row |-> row])
        /\ UNCHANGED team /\ nextId' = nextId
    BY <1>5 DEF ReadPortfolio, DeletePortfolioLook
  <2>2. [op |-> "read", row |-> row].op = "read" /\ [op |-> "sell", row |-> row].op = "sell"
    OBVIOUS
  <2>3. QED
    BY <1>1, <2>1, <2>2
<1>6. QED
  BY <1>2, <1>3, <1>4, <1>5 DEF OwnNext

LEMMA NextTeamInv == TeamInv /\ [TeamNext \/ OwnNext]_recordVars => TeamInv'
<1> SUFFICES ASSUME TeamInv, [TeamNext \/ OwnNext]_recordVars
             PROVE  TeamInv'
  OBVIOUS
<1>1. CASE TeamNext
  BY <1>1, CreateWorkspaceKeeps, LooksKeep, AddMemberCommitKeeps, AddItemCommitKeeps,
     DeleteItemCommitKeeps, DeleteWorkspaceCommitKeeps DEF TeamNext
<1>2. CASE OwnNext
  BY <1>2, OwnStepsKeepTeam
<1>3. CASE UNCHANGED recordVars
  <2>1. UNCHANGED <<team, tasks>> /\ nextId' \in {nextId, nextId + 1}
    BY <1>3 DEF recordVars
  <2>2. QED
    BY <2>1, TeamUndisturbed
<1>4. QED
  BY <1>1, <1>2, <1>3

\* What WorkspacesSound says of workspaces.
LEMMA TeamInvImplies ==
  ASSUME TeamInv
  PROVE  /\ \A row \in workspaces : row.id < nextId /\ row.owner \in People
         /\ \A row \in items : row.author \in People
         /\ ListAgreesWithGet /\ AuthorsHaveAccess /\ OrphansBounded
<1>1. ListAgreesWithGet
  BY DEF TeamInv, OwnersAreMembers, ListAgreesWithGet, ListWorkspaces, GetWorkspace, CanAccess, MembersOf
<1>2. OrphansBounded
  <2>1. PICK most : most = deletions * (Cardinality(Threads) - 1)
    OBVIOUS
  <2>2. most \in Int
    BY <2>1, OrphanCounts DEF TeamInv, OrphanBudget
  <2>3. Cardinality(OrphanItems) + Cardinality(OrphanMembers) + Cardinality(Orphaning) <= most
    BY <2>1 DEF TeamInv, OrphanBudget
  <2>4. Cardinality(OrphanItems) + Cardinality(OrphanMembers) <= most
    BY <2>2, <2>3, OrphanCounts
  <2>5. QED
    BY <2>1, <2>4 DEF OrphansBounded, OrphanItems, OrphanMembers
<1>3. QED
  BY <1>1, <1>2 DEF TeamInv, WorkspaceTable

-----------------------------------------------------------------------------
(* Portfolios: what is stored of one is what it was created with, or gone. *)

OwnTable ==
  /\ universe \in Universes
  /\ \A row \in portfolios \union searches : row.id \in Nat /\ row.id < nextId /\ row.owner \in People
  /\ \A row \in holdings : row.portfolio \in Nat /\ row.portfolio < nextId

\* Every portfolio there ever was, with the holdings it was created with.
BornTable ==
  /\ born \in Seq(ToSet(born))
  /\ \A i \in DOMAIN born : born[i].id \in Nat /\ born[i].id < nextId
  /\ \A i, j \in DOMAIN born : born[i].id = born[j].id => i = j
  /\ \A row \in portfolios : \E i \in DOMAIN born : born[i].id = row.id

WholeOrGone(held, b) == held = {} \/ held = WholePortfolio(b.id, b.companies)

HoldingsWhole == \A i \in DOMAIN born : WholeOrGone(HoldingRows(born[i].id), born[i])

\* What a thread reads, and what it has read.
OwnTask(task) ==
  task.op \in {"read", "shown"} =>
    \E i \in DOMAIN born : /\ born[i].id = task.row.id
                           /\ task.op = "shown" => WholeOrGone(task.rows, born[i])
OwnTasks == \A t \in Threads : OwnTask(tasks[t])

OwnInv ==
  /\ DOMAIN tasks = Threads /\ nextId \in Nat
  /\ OwnTable /\ BornTable /\ HoldingsWhole /\ OwnTasks

LEMMA InitOwnInv == RecordsInit => OwnInv
<1> SUFFICES ASSUME RecordsInit
             PROVE  OwnInv
  OBVIOUS
<1>1. /\ born = <<>> /\ portfolios = {} /\ searches = {} /\ holdings = {} /\ universe \in Universes
      /\ nextId = 1 /\ DOMAIN tasks = Threads /\ \A t \in Threads : tasks[t].op = "none"
  BY DEF RecordsInit, Resting
<1>2. DOMAIN born = {} /\ born \in Seq(ToSet(born))
  BY <1>1
<1>3. OwnTable
  BY <1>1 DEF OwnTable
<1>4. BornTable
  BY <1>1, <1>2 DEF BornTable
<1>5. HoldingsWhole
  BY <1>2 DEF HoldingsWhole
<1>6. OwnTasks
  BY <1>1 DEF OwnTasks, OwnTask
<1>7. QED
  BY <1>1, <1>3, <1>4, <1>5, <1>6 DEF OwnInv

\* Steps that leave the portfolios alone.
LEMMA OwnKept ==
  ASSUME OwnInv, UNCHANGED <<portfolios, holdings, born, universe>>, DOMAIN tasks' = Threads,
         nextId' \in {nextId, nextId + 1}, OwnTasks',
         \A row \in searches' : row.id \in Nat /\ row.id < nextId' /\ row.owner \in People
  PROVE  OwnInv'
<1>1. nextId \in Nat /\ nextId' \in Nat /\ nextId <= nextId'
  BY DEF OwnInv
<1>2. OwnTable'
  BY <1>1 DEF OwnInv, OwnTable
<1>3. BornTable'
  <2>1. \A i \in DOMAIN born : born[i].id \in Nat
    BY DEF OwnInv, BornTable
  <2>2. \A i \in DOMAIN born : born[i].id < nextId'
    BY <1>1, <2>1 DEF OwnInv, BornTable
  <2>3. QED
    BY <2>2 DEF OwnInv, BornTable
<1>4. HoldingsWhole'
  BY DEF OwnInv, HoldingsWhole, HoldingRows
<1>5. QED
  BY <1>1, <1>2, <1>3, <1>4 DEF OwnInv

\* The steps of workspaces leave the reading of portfolios alone.
LEMMA OtherTask ==
  ASSUME OwnInv, NEW t \in Threads, NEW task, Does(t, task), OwnTask(task),
         UNCHANGED own, nextId' \in {nextId, nextId + 1}
  PROVE  OwnInv'
<1>1. /\ DOMAIN tasks' = Threads /\ tasks'[t] = task
      /\ \A s \in Threads : s # t => tasks'[s] = tasks[s]
  BY DEF Does, OwnInv
<1>2. OwnTasks'
  BY <1>1 DEF OwnInv, OwnTasks, OwnTask, own
<1>3. \A row \in searches' : row.id \in Nat /\ row.id < nextId' /\ row.owner \in People
  BY DEF OwnInv, OwnTable, own
<1>4. QED
  BY <1>1, <1>2, <1>3, OwnKept DEF own

LEMMA OwnUndisturbed ==
  ASSUME OwnInv, UNCHANGED <<own, tasks>>, nextId' \in {nextId, nextId + 1}
  PROVE  OwnInv'
<1>1. OwnTasks' /\ DOMAIN tasks' = Threads
  BY DEF OwnInv, OwnTasks, OwnTask, own
<1>2. \A row \in searches' : row.id \in Nat /\ row.id < nextId' /\ row.owner \in People
  BY DEF OwnInv, OwnTable, own
<1>3. QED
  BY <1>1, <1>2, OwnKept DEF own

LEMMA TeamStepsKeepOwn ==
  ASSUME OwnInv, TeamNext
  PROVE  OwnInv'
<1>1. CASE \E e \in People, invited \in SUBSET People : CreateWorkspace(e, invited)
  <2>1. UNCHANGED <<own, tasks>> /\ nextId' = nextId + 1
    BY <1>1 DEF CreateWorkspace
  <2>2. QED
    BY <2>1, OwnUndisturbed
<1>2. ASSUME NEW t \in Threads,
             AddMemberCommit(t) \/ AddItemCommit(t) \/ DeleteItemCommit(t) \/ DeleteWorkspaceCommit(t)
      PROVE  OwnInv'
  <2>1. Does(t, Resting) /\ UNCHANGED own /\ nextId' = nextId
    BY <1>2 DEF AddMemberCommit, AddItemCommit, DeleteItemCommit, DeleteWorkspaceCommit
  <2>2. OwnTask(Resting)
    BY DEF OwnTask, Resting
  <2>3. QED
    BY <2>1, <2>2, OtherTask
<1>3. ASSUME NEW t \in Threads, NEW e \in People, NEW row \in workspaces, AddItemLook(t, e, row)
      PROVE  OwnInv'
  <2> DEFINE task == [op |-> "item", row |-> [id |-> nextId, workspace |-> row.id, author |-> e]]
  <2>1. Does(t, task) /\ UNCHANGED own /\ nextId' = nextId + 1 /\ task.op = "item"
    BY <1>3 DEF AddItemLook
  <2> HIDE DEF task
  <2>2. QED
    BY <2>1, OtherTask DEF OwnTask
<1>4. ASSUME NEW t \in Threads, NEW e \in People, NEW row \in workspaces,
             \/ DeleteWorkspaceLook(t, e, row)
             \/ \E m \in People : AddMemberLook(t, e, row, m)
             \/ \E item \in items : DeleteItemLook(t, e, row, item)
      PROVE  OwnInv'
  <2>1. UNCHANGED own /\ nextId' = nextId
    BY <1>4 DEF DeleteWorkspaceLook, AddMemberLook, DeleteItemLook
  <2>2. ASSUME NEW op \in {"close", "member", "remove"}, NEW r, Does(t, [op |-> op, row |-> r])
        PROVE  OwnInv'
    <3>1. OwnTask([op |-> op, row |-> r])
      BY <2>2 DEF OwnTask
    <3>2. QED
      BY <2>1, <2>2, <3>1, OtherTask
  <2>3. QED
    BY <1>4, <2>2 DEF DeleteWorkspaceLook, AddMemberLook, DeleteItemLook
<1>5. QED
  BY <1>1, <1>2, <1>3, <1>4 DEF TeamNext

LEMMA AppendOne ==
  ASSUME NEW s, s \in Seq(ToSet(s)), NEW x
  PROVE  /\ Append(s, x) \in Seq(ToSet(Append(s, x)))
         /\ DOMAIN Append(s, x) = DOMAIN s \union {Len(s) + 1}
         /\ Append(s, x)[Len(s) + 1] = x
         /\ \A i \in DOMAIN s : Append(s, x)[i] = s[i] /\ i # Len(s) + 1
<1> DEFINE S == ToSet(s) \union {x}
           longer == Append(s, x)
<1>1. s \in Seq(S) /\ x \in S /\ Len(s) \in Nat /\ DOMAIN s = 1 .. Len(s)
  OBVIOUS
<1> HIDE DEF S
<1>2. /\ longer \in Seq(S) /\ Len(longer) = Len(s) + 1 /\ DOMAIN longer = 1 .. Len(s) + 1
      /\ longer[Len(s) + 1] = x /\ \A i \in DOMAIN s : longer[i] = s[i]
  BY <1>1
<1>3. longer \in Seq(ToSet(longer))
  <2> HIDE DEF longer
  <2>1. \A i \in 1 .. Len(longer) : longer[i] \in ToSet(longer)
    BY <1>2 DEF ToSet
  <2>2. QED
    BY <1>1, <1>2, <2>1
<1>4. QED
  BY <1>1, <1>2, <1>3

\* A portfolio and its holdings come in one commit, under a new identifier.
LEMMA StorePortfolioKeeps ==
  ASSUME OwnInv, NEW owner \in People, NEW companies, StorePortfolio(owner, companies)
  PROVE  OwnInv'
<1> DEFINE new == [id |-> nextId, companies |-> companies]
<1>1. /\ portfolios' = portfolios \union {[id |-> nextId, owner |-> owner]}
      /\ holdings' = holdings \union WholePortfolio(nextId, companies)
      /\ born' = Append(born, new) /\ nextId' = nextId + 1 /\ nextId \in Nat
      /\ UNCHANGED <<searches, universe, tasks>>
  BY DEF StorePortfolio, OwnInv
<1>2. new.id = nextId /\ new.companies = companies
  OBVIOUS
<1>3. /\ \A r \in WholePortfolio(nextId, companies) : r.portfolio = nextId
      /\ [id |-> nextId, owner |-> owner].id = nextId
      /\ [id |-> nextId, owner |-> owner].owner = owner
  BY DEF WholePortfolio
<1>4. OwnTable'
  BY <1>1, <1>3 DEF OwnInv, OwnTable
<1> HIDE DEF new
<1>5. /\ born' \in Seq(ToSet(born')) /\ DOMAIN born' = DOMAIN born \union {Len(born) + 1}
      /\ born'[Len(born) + 1] = new
      /\ \A i \in DOMAIN born : born'[i] = born[i] /\ i # Len(born) + 1
  BY <1>1, AppendOne DEF OwnInv, BornTable
<1>6. BornTable'
  <2>1. \A i \in DOMAIN born' : born'[i].id \in Nat /\ born'[i].id < nextId'
    BY <1>1, <1>2, <1>5 DEF OwnInv, BornTable
  <2>2. \A i, j \in DOMAIN born' : born'[i].id = born'[j].id => i = j
    BY <1>1, <1>2, <1>5 DEF OwnInv, BornTable
  <2>3. \A row \in portfolios' : \E i \in DOMAIN born' : born'[i].id = row.id
    <3>1. \A row \in portfolios : \E i \in DOMAIN born' : born'[i].id = row.id
      BY <1>5 DEF OwnInv, BornTable
    <3>2. \E i \in DOMAIN born' : born'[i].id = nextId
      BY <1>2, <1>5
    <3>3. QED
      BY <1>1, <1>3, <3>1, <3>2
  <2>4. QED
    BY <1>5, <2>1, <2>2, <2>3 DEF BornTable
<1>7. HoldingsWhole'
  <2> SUFFICES ASSUME NEW i \in DOMAIN born'
               PROVE  WholeOrGone({row \in holdings' : row.portfolio = born'[i].id}, born'[i])
    BY DEF HoldingsWhole, HoldingRows
  <2>1. CASE i = Len(born) + 1
    <3>1. \A row \in holdings : row.portfolio # nextId
      BY DEF OwnInv, OwnTable
    <3>2. {row \in holdings' : row.portfolio = nextId} = WholePortfolio(nextId, companies)
      BY <1>1, <1>3, <3>1
    <3>3. QED
      BY <1>2, <1>5, <2>1, <3>2 DEF WholeOrGone
  <2>2. CASE i \in DOMAIN born
    <3>1. born[i].id # nextId
      BY <2>2 DEF OwnInv, BornTable
    <3>2. {row \in holdings' : row.portfolio = born[i].id} = HoldingRows(born[i].id)
      BY <1>1, <1>3, <3>1 DEF HoldingRows
    <3>3. QED
      BY <1>5, <2>2, <3>2 DEF OwnInv, HoldingsWhole
  <2>3. QED
    BY <1>5, <2>1, <2>2
<1>8. OwnTasks'
  BY <1>1, <1>5 DEF OwnInv, OwnTasks, OwnTask
<1>9. QED
  BY <1>1, <1>4, <1>6, <1>7, <1>8 DEF OwnInv

\* The steps of a thread that has a portfolio in hand, and of a search.
LEMMA OwnStepsKeep ==
  ASSUME OwnInv, OwnNext
  PROVE  OwnInv'
<1>1. CASE \E e \in People : CreatePortfolio(e) \/ \E book \in Books : UploadPortfolio(e, book)
  BY <1>1, StorePortfolioKeeps DEF CreatePortfolio, UploadPortfolio
<1>2. ASSUME NEW e \in People, CreateSearch(e)
      PROVE  OwnInv'
  <2> DEFINE new == [id |-> nextId, owner |-> e]
  <2>1. /\ searches' = searches \union {new} /\ nextId' = nextId + 1 /\ nextId \in Nat
        /\ UNCHANGED <<portfolios, holdings, born, universe, tasks>>
    BY <1>2 DEF CreateSearch, OwnInv
  <2>2. new.id = nextId /\ new.owner = e
    OBVIOUS
  <2> HIDE DEF new
  <2>3. \A row \in searches' : row.id \in Nat /\ row.id < nextId' /\ row.owner \in People
    BY <2>1, <2>2 DEF OwnInv, OwnTable
  <2>4. OwnTasks' /\ DOMAIN tasks' = Threads
    BY <2>1 DEF OwnInv, OwnTasks, OwnTask
  <2>5. QED
    BY <2>1, <2>3, <2>4, OwnKept
<1>3. ASSUME NEW e \in People, NEW row \in searches, DeleteSearch(e, row)
      PROVE  OwnInv'
  <2>1. /\ searches' \subseteq searches /\ nextId' = nextId
        /\ UNCHANGED <<portfolios, holdings, born, universe, tasks>>
    BY <1>3 DEF DeleteSearch
  <2>2. \A r \in searches' : r.id \in Nat /\ r.id < nextId' /\ r.owner \in People
    BY <2>1 DEF OwnInv, OwnTable
  <2>3. OwnTasks' /\ DOMAIN tasks' = Threads
    BY <2>1 DEF OwnInv, OwnTasks, OwnTask
  <2>4. QED
    BY <2>1, <2>2, <2>3, OwnKept
<1>4. ASSUME NEW t \in Threads, ShowPortfolio(t)
      PROVE  OwnInv'
  <2>1. PICK row, held : row = tasks[t].row /\ held = HoldingRows(row.id)
    OBVIOUS
  <2> DEFINE task == [op |-> "shown", row |-> row, rows |-> held]
  <2>2. /\ tasks[t].op = "read" /\ Does(t, task) /\ UNCHANGED own /\ nextId' = nextId
        /\ task.row = row /\ task.rows = held
    BY <1>4, <2>1 DEF ShowPortfolio
  <2>3. PICK i \in DOMAIN born : born[i].id = row.id
    BY <2>1, <2>2 DEF OwnInv, OwnTasks, OwnTask
  <2>4. WholeOrGone(held, born[i])
    BY <2>1, <2>3 DEF OwnInv, HoldingsWhole
  <2> HIDE DEF task
  <2>5. OwnTask(task)
    BY <2>2, <2>3, <2>4 DEF OwnTask
  <2>6. QED
    BY <2>2, <2>5, OtherTask
<1>5. ASSUME NEW t \in Threads, Answered(t)
      PROVE  OwnInv'
  <2>1. Does(t, Resting) /\ UNCHANGED own /\ nextId' = nextId
    BY <1>5 DEF Answered
  <2>2. OwnTask(Resting)
    BY DEF OwnTask, Resting
  <2>3. QED
    BY <2>1, <2>2, OtherTask
<1>6. ASSUME NEW t \in Threads, NEW e \in People, NEW row \in portfolios,
             ReadPortfolio(t, e, row) \/ DeletePortfolioLook(t, e, row)
      PROVE  OwnInv'
  <2>1. /\ \E op \in {"read", "sell"} : Does(t, [op |-> op, row |-> row])
        /\ UNCHANGED own /\ nextId' = nextId
    BY <1>6 DEF ReadPortfolio, DeletePortfolioLook
  <2>2. PICK op \in {"read", "sell"} : Does(t, [op |-> op, row |-> row])
    BY <2>1
  <2>3. \E i \in DOMAIN born : born[i].id = row.id
    BY DEF OwnInv, BornTable
  <2>4. OwnTask([op |-> op, row |-> row])
    BY <2>2, <2>3 DEF OwnTask
  <2>5. QED
    BY <2>1, <2>2, <2>4, OtherTask
<1>7. ASSUME NEW t \in Threads, DeletePortfolioCommit(t)
      PROVE  OwnInv'
  <2>1. PICK sold : sold = tasks[t].row
    OBVIOUS
  <2>2. /\ portfolios' = portfolios \ {sold} /\ holdings' = holdings \ HoldingRows(sold.id)
        /\ UNCHANGED <<searches, born, universe, nextId>> /\ DOMAIN tasks' = Threads
        /\ tasks'[t] = Resting /\ \A s \in Threads : s # t => tasks'[s] = tasks[s]
    BY <1>7, <2>1 DEF DeletePortfolioCommit, Cascade, Does, OwnInv
  <2>3. OwnTable' /\ BornTable'
    BY <2>2 DEF OwnInv, OwnTable, BornTable
  <2>4. HoldingsWhole'
    <3> SUFFICES ASSUME NEW i \in DOMAIN born
                 PROVE  WholeOrGone({row \in holdings' : row.portfolio = born[i].id}, born[i])
      BY <2>2 DEF HoldingsWhole, HoldingRows
    <3>1. CASE born[i].id = sold.id
      <4>1. {row \in holdings' : row.portfolio = born[i].id} = {}
        BY <2>2, <3>1 DEF HoldingRows
      <4>2. QED
        BY <4>1 DEF WholeOrGone
    <3>2. CASE born[i].id # sold.id
      <4>1. {row \in holdings' : row.portfolio = born[i].id} = HoldingRows(born[i].id)
        BY <2>2, <3>2 DEF HoldingRows
      <4>2. QED
        BY <4>1 DEF OwnInv, HoldingsWhole
    <3>3. QED
      BY <3>1, <3>2
  <2>5. OwnTasks'
    BY <2>2 DEF OwnInv, OwnTasks, OwnTask, Resting
  <2>6. QED
    BY <2>2, <2>3, <2>4, <2>5 DEF OwnInv
<1>8. QED
  BY <1>1, <1>2, <1>3, <1>4, <1>5, <1>6, <1>7 DEF OwnNext

LEMMA NextOwnInv == OwnInv /\ [TeamNext \/ OwnNext]_recordVars => OwnInv'
<1> SUFFICES ASSUME OwnInv, [TeamNext \/ OwnNext]_recordVars
             PROVE  OwnInv'
  OBVIOUS
<1>1. CASE UNCHANGED recordVars
  <2>1. UNCHANGED <<own, tasks>> /\ nextId' \in {nextId, nextId + 1}
    BY <1>1 DEF recordVars
  <2>2. QED
    BY <2>1, OwnUndisturbed
<1>2. QED
  BY <1>1, TeamStepsKeepOwn, OwnStepsKeep

LEMMA OwnInvImplies ==
  ASSUME OwnInv
  PROVE  /\ \A row \in portfolios \union searches : row.id < nextId /\ row.owner \in People
         /\ \A row \in holdings : row.portfolio < nextId
         /\ NeverAPartOfAPortfolio
<1>1. NeverAPartOfAPortfolio
  <2> SUFFICES ASSUME NEW t \in Threads, tasks[t].op = "shown",
                      NEW created, created = CHOOSE b \in ToSet(born) : b.id = tasks[t].row.id
               PROVE  tasks[t].rows = {} \/ tasks[t].rows = WholePortfolio(created.id, created.companies)
    BY DEF NeverAPartOfAPortfolio
  <2>1. PICK i \in DOMAIN born : born[i].id = tasks[t].row.id /\ WholeOrGone(tasks[t].rows, born[i])
    BY DEF OwnInv, OwnTasks, OwnTask
  <2>2. created \in ToSet(born) /\ created.id = tasks[t].row.id
    BY <2>1 DEF ToSet
  <2>3. created = born[i]
    BY <2>1, <2>2 DEF OwnInv, BornTable, ToSet
  <2>4. QED
    BY <2>1, <2>3 DEF WholeOrGone
<1>2. QED
  BY <1>1 DEF OwnInv, OwnTable

-----------------------------------------------------------------------------
(* Uploads: rows go to companies that carry what they name. *)

\* A set of row numbers has a first one.
LEMMA FirstRow ==
  ASSUME NEW I \in SUBSET Nat, I # {}
  PROVE  \E i \in I : \A j \in I : i <= j
<1>1. \E i \in I : \A j \in I : <<j, i>> \notin OpToRel(<, Nat)
  BY NatLessThanWellFounded, WFMin, Zenon
<1>2. \A i, j \in I : <<j, i>> \notin OpToRel(<, Nat) => i <= j
  BY DEF OpToRel
<1>3. QED
  BY <1>1, <1>2

LEMMA Nodes ==
  ASSUME NEW nodes \in Universes
  PROVE  /\ DOMAIN nodes \in SUBSET Nat
         /\ \A i \in DOMAIN nodes : nodes[i] \in ToSet(nodes) /\ nodes[i].key # "none"
         /\ \A c \in ToSet(nodes) : \E i \in DOMAIN nodes : nodes[i] = c
         /\ nodes # <<>> => DOMAIN nodes # {}
<1>1. nodes \in Seq(ToSet(nodes)) /\ \A c \in ToSet(nodes) : c.key # "none"
  BY RecordsAssumption
<1>2. DOMAIN nodes \in SUBSET Nat
  BY <1>1
<1>3. nodes # <<>> => DOMAIN nodes # {}
  <2>1. PICK S : nodes \in Seq(S)
    BY <1>1
  <2>2. DOMAIN nodes = 1 .. Len(nodes) /\ Len(nodes) \in Nat /\ (Len(nodes) = 0 => nodes = <<>>)
    BY <2>1
  <2>3. Len(nodes) # 0 => 1 \in DOMAIN nodes
    BY <2>2
  <2>4. QED
    BY <2>2, <2>3
<1>4. QED
  BY <1>1, <1>2, <1>3 DEF ToSet

\* The first node of some, and no company if there is none.
FirstKey(nodes, hits) ==
  IF hits = {} THEN "none" ELSE nodes[CHOOSE i \in hits : \A j \in hits : i <= j].key

LEMMA FirstOfNodes ==
  ASSUME NEW nodes \in Universes, NEW hits \in SUBSET DOMAIN nodes
  PROVE  /\ FirstKey(nodes, hits) # "none" => \E i \in hits : nodes[i].key = FirstKey(nodes, hits)
         /\ hits # {} => FirstKey(nodes, hits) # "none"
<1>1. ASSUME hits # {}
      PROVE  FirstKey(nodes, hits) # "none" /\ \E i \in hits : nodes[i].key = FirstKey(nodes, hits)
  <2>1. DOMAIN nodes \in SUBSET Nat
    BY Nodes
  <2>2. \E i \in hits : \A j \in hits : i <= j
    BY <1>1, <2>1, FirstRow
  <2>3. PICK i \in hits : FirstKey(nodes, hits) = nodes[i].key
    BY <1>1, <2>2 DEF FirstKey
  <2>4. nodes[i].key # "none"
    BY Nodes
  <2>5. QED
    BY <2>3, <2>4
<1>2. ASSUME hits = {}
      PROVE  FirstKey(nodes, hits) = "none"
  BY <1>2 DEF FirstKey
<1>3. QED
  BY <1>1, <1>2

LEMMA ExactTicker ==
  ASSUME NEW nodes \in Universes, NEW ticker
  PROVE  /\ ByExactTicker(nodes, ticker) # "none" =>
              \E i \in DOMAIN nodes : nodes[i].key = ByExactTicker(nodes, ticker) /\ ticker \in nodes[i].tickers
         /\ (\E i \in DOMAIN nodes : ticker \in nodes[i].tickers) => ByExactTicker(nodes, ticker) # "none"
<1> DEFINE hits == {i \in DOMAIN nodes : ticker \in nodes[i].tickers}
<1>1. ByExactTicker(nodes, ticker) = FirstKey(nodes, hits)
  BY DEF ByExactTicker, FirstWith, FirstKey
<1>2. hits \in SUBSET DOMAIN nodes
  OBVIOUS
<1> HIDE DEF hits
<1>3. /\ ByExactTicker(nodes, ticker) # "none" => \E i \in hits : nodes[i].key = ByExactTicker(nodes, ticker)
      /\ hits # {} => ByExactTicker(nodes, ticker) # "none"
  BY <1>1, <1>2, FirstOfNodes
<1>4. QED
  BY <1>3 DEF hits

LEMMA FoldedTicker ==
  ASSUME NEW nodes \in Universes, NEW ticker, ByFoldedTicker(nodes, ticker) # "none"
  PROVE  \E i \in DOMAIN nodes : /\ nodes[i].key = ByFoldedTicker(nodes, ticker)
                                 /\ \E t \in nodes[i].tickers : Fold(t) = Fold(ticker)
<1> DEFINE hits == {i \in DOMAIN nodes : \E t \in nodes[i].tickers : Fold(t) = Fold(ticker)}
<1>1. ByFoldedTicker(nodes, ticker) = FirstKey(nodes, hits)
  BY DEF ByFoldedTicker, FirstWith, FirstKey
<1>2. hits \in SUBSET DOMAIN nodes
  OBVIOUS
<1> HIDE DEF hits
<1>3. /\ ByFoldedTicker(nodes, ticker) # "none" => \E i \in hits : nodes[i].key = ByFoldedTicker(nodes, ticker)
      /\ hits # {} => ByFoldedTicker(nodes, ticker) # "none"
  BY <1>1, <1>2, FirstOfNodes
<1>4. QED
  BY <1>3 DEF hits

LEMMA TickerHit ==
  ASSUME NEW nodes \in Universes, NEW ticker
  PROVE  /\ ByTicker(nodes, ticker) # "none" =>
              \E i \in DOMAIN nodes : /\ nodes[i].key = ByTicker(nodes, ticker)
                                      /\ \E t \in nodes[i].tickers : Fold(t) = Fold(ticker)
         /\ (\E i \in DOMAIN nodes : ticker \in nodes[i].tickers) =>
              /\ ByTicker(nodes, ticker) # "none"
              /\ \E i \in DOMAIN nodes : nodes[i].key = ByTicker(nodes, ticker) /\ ticker \in nodes[i].tickers
BY ExactTicker, FoldedTicker DEF ByTicker

LEMMA IsinHit ==
  ASSUME NEW nodes \in Universes, NEW isin, ByIsin(nodes, isin) # "none"
  PROVE  \E i \in DOMAIN nodes : nodes[i].key = ByIsin(nodes, isin) /\ isin \in nodes[i].isins
<1> DEFINE hits == {i \in DOMAIN nodes : isin \in nodes[i].isins}
<1>1. ByIsin(nodes, isin) = FirstKey(nodes, hits)
  BY DEF ByIsin, FirstWith, FirstKey
<1>2. hits \in SUBSET DOMAIN nodes
  OBVIOUS
<1> HIDE DEF hits
<1>3. /\ ByIsin(nodes, isin) # "none" => \E i \in hits : nodes[i].key = ByIsin(nodes, isin)
      /\ hits # {} => ByIsin(nodes, isin) # "none"
  BY <1>1, <1>2, FirstOfNodes
<1>4. QED
  BY <1>3 DEF hits

LEMMA SedolHit ==
  ASSUME NEW nodes \in Universes, NEW sedol, BySedol(nodes, sedol) # "none"
  PROVE  \E i \in DOMAIN nodes : nodes[i].key = BySedol(nodes, sedol) /\ sedol \in nodes[i].sedols
<1> DEFINE hits == {i \in DOMAIN nodes : sedol \in nodes[i].sedols}
<1>1. BySedol(nodes, sedol) = FirstKey(nodes, hits)
  BY DEF BySedol, FirstWith, FirstKey
<1>2. hits \in SUBSET DOMAIN nodes
  OBVIOUS
<1> HIDE DEF hits
<1>3. /\ BySedol(nodes, sedol) # "none" => \E i \in hits : nodes[i].key = BySedol(nodes, sedol)
      /\ hits # {} => BySedol(nodes, sedol) # "none"
  BY <1>1, <1>2, FirstOfNodes
<1>4. QED
  BY <1>3 DEF hits

\* Scores take three values, so that some node has the best.
LEMMA NameHit ==
  ASSUME NEW nodes \in Universes, NEW name, ByName(nodes, name) # "none"
  PROVE  \E i \in DOMAIN nodes :
           /\ nodes[i].key = ByName(nodes, name)
           /\ \A j \in DOMAIN nodes : OrgScore(name, nodes[j].name) <= OrgScore(name, nodes[i].name)
<1> DEFINE score(i) == OrgScore(name, nodes[i].name)
           best == {i \in DOMAIN nodes : \A j \in DOMAIN nodes : score(j) <= score(i)}
           first == CHOOSE i \in best : \A j \in best : i <= j
<1>1. nodes # <<>> /\ ByName(nodes, name) = nodes[first].key
  BY DEF ByName
<1>2. \A i : score(i) \in {0, 97, 100}
  BY DEF OrgScore, Exact, SameCore
<1> HIDE DEF score
<1>3. best # {}
  <2>1. PICK k : k \in DOMAIN nodes
    BY <1>1, Nodes
  <2>2. CASE \E i \in DOMAIN nodes : score(i) = 100
    BY <1>2, <2>2
  <2>3. CASE ~(\E i \in DOMAIN nodes : score(i) = 100) /\ \E i \in DOMAIN nodes : score(i) = 97
    BY <1>2, <2>3
  <2>4. CASE \A i \in DOMAIN nodes : score(i) = 0
    BY <2>1, <2>4
  <2>5. QED
    BY <1>2, <2>2, <2>3, <2>4
<1>4. best \in SUBSET Nat
  BY Nodes
<1>5. \E i \in best : \A j \in best : i <= j
  BY <1>3, <1>4, FirstRow
<1>6. first \in best
  BY <1>5
<1>7. QED
  BY <1>1, <1>6 DEF score

\* The method that decides, and what it found; a ticker goes first.
LEMMA Resolved ==
  ASSUME NEW nodes, NEW position
  PROVE  LET match == ResolvePosition(nodes, position)
         IN /\ \/ match.company = "none" /\ match.method = "unresolved"
               \/ /\ match.company = Hit(nodes, position, match.method) /\ match.company # "none"
                  /\ match.method \in {"ticker", "isin", "sedol", "name"}
            /\ Hit(nodes, position, "ticker") # "none" => match.method = "ticker"
<1> DEFINE hits == {i \in DOMAIN Methods : Hit(nodes, position, Methods[i]) # "none"}
           first == CHOOSE i \in hits : \A j \in hits : i <= j
<1>1. /\ DOMAIN Methods = 1 .. 4
      /\ Methods[1] = "ticker" /\ Methods[2] = "isin" /\ Methods[3] = "sedol" /\ Methods[4] = "name"
  BY DEF Methods
<1>2. ResolvePosition(nodes, position)
        = IF hits = {} THEN [company |-> "none", method |-> "unresolved"]
          ELSE [company |-> Hit(nodes, position, Methods[first]), method |-> Methods[first]]
  BY DEF ResolvePosition
<1>3. hits # {} => first \in hits /\ \A j \in hits : first <= j
  <2>1. hits \in SUBSET Nat
    BY <1>1
  <2>2. hits # {} => \E i \in hits : \A j \in hits : i <= j
    BY <2>1, FirstRow
  <2>3. QED
    BY <2>2
<1>4. hits # {} => Methods[first] \in {"ticker", "isin", "sedol", "name"}
  BY <1>1, <1>3
<1>5. Hit(nodes, position, "ticker") # "none" => hits # {} /\ Methods[first] = "ticker"
  <2>1. Hit(nodes, position, "ticker") # "none" => 1 \in hits
    BY <1>1
  <2>2. Hit(nodes, position, "ticker") # "none" => first = 1
    BY <1>1, <1>3, <2>1
  <2>3. QED
    BY <1>1, <2>1, <2>2
<1>6. hits # {} => Hit(nodes, position, Methods[first]) # "none"
  BY <1>3
<1> HIDE DEF hits, first
<1>7. QED
  BY <1>2, <1>4, <1>5, <1>6

\* Where the rows of a book go.
LEMMA UploadMatch ==
  ASSUME universe \in Universes, NEW book \in Books, NEW i \in DOMAIN ParseBrokerageCsv(book),
         NEW row, row = ParseBrokerageCsv(book)[i],
         NEW match, match = UploadReport(book).positions[i],
         NEW matched, matched = {c \in ToSet(universe) : c.key = match.company}
  PROVE  /\ match.method = "ticker" => \E c \in matched : \E t \in c.tickers : Fold(t) = Fold(row.ticker)
         /\ row.ticker # Absent /\ (\E c \in ToSet(universe) : row.ticker \in c.tickers) =>
              \E c \in matched : row.ticker \in c.tickers
         /\ match.method = "isin" => \E c \in matched : row.isin \in c.isins
         /\ match.method = "sedol" => \E c \in matched : row.sedol \in c.sedols
         /\ match.method = "name" =>
              \E c \in matched : \A d \in ToSet(universe) : OrgScore(row.name, d.name) <= OrgScore(row.name, c.name)
<1>1. match = ResolvePosition(universe, row)
  BY DEF UploadReport, ResolvePositions
<1>2. /\ \/ match.company = "none" /\ match.method = "unresolved"
         \/ /\ match.company = Hit(universe, row, match.method) /\ match.company # "none"
            /\ match.method \in {"ticker", "isin", "sedol", "name"}
      /\ Hit(universe, row, "ticker") # "none" => match.method = "ticker"
  BY <1>1, Resolved
<1>3. \A k \in DOMAIN universe : universe[k].key = match.company => universe[k] \in matched
  BY Nodes
<1>4. \A c \in ToSet(universe) : \E k \in DOMAIN universe : universe[k] = c
  BY Nodes
<1>5. match.method = "ticker" => \E c \in matched : \E t \in c.tickers : Fold(t) = Fold(row.ticker)
  <2> SUFFICES ASSUME match.method = "ticker"
               PROVE  \E c \in matched : \E t \in c.tickers : Fold(t) = Fold(row.ticker)
    OBVIOUS
  <2>1. match.company = ByTicker(universe, row.ticker) /\ ByTicker(universe, row.ticker) # "none"
    BY <1>2 DEF Hit
  <2>2. QED
    BY <1>3, <2>1, TickerHit
<1>6. row.ticker # Absent /\ (\E c \in ToSet(universe) : row.ticker \in c.tickers) =>
        \E c \in matched : row.ticker \in c.tickers
  <2> SUFFICES ASSUME row.ticker # Absent, NEW d \in ToSet(universe), row.ticker \in d.tickers
               PROVE  \E c \in matched : row.ticker \in c.tickers
    OBVIOUS
  <2>1. \E k \in DOMAIN universe : row.ticker \in universe[k].tickers
    BY <1>4
  <2>2. PICK k \in DOMAIN universe :
          universe[k].key = ByTicker(universe, row.ticker) /\ row.ticker \in universe[k].tickers
    BY <2>1, TickerHit
  <2>3. Hit(universe, row, "ticker") = ByTicker(universe, row.ticker) /\ ByTicker(universe, row.ticker) # "none"
    BY <2>1, TickerHit DEF Hit
  <2>4. match.company = ByTicker(universe, row.ticker)
    BY <1>2, <2>3
  <2>5. QED
    BY <1>3, <2>2, <2>4
<1>7. match.method = "isin" => \E c \in matched : row.isin \in c.isins
  <2> SUFFICES ASSUME match.method = "isin"
               PROVE  \E c \in matched : row.isin \in c.isins
    OBVIOUS
  <2>1. match.company = ByIsin(universe, row.isin) /\ ByIsin(universe, row.isin) # "none"
    BY <1>2 DEF Hit
  <2>2. QED
    BY <1>3, <2>1, IsinHit
<1>8. match.method = "sedol" => \E c \in matched : row.sedol \in c.sedols
  <2> SUFFICES ASSUME match.method = "sedol"
               PROVE  \E c \in matched : row.sedol \in c.sedols
    OBVIOUS
  <2>1. match.company = BySedol(universe, row.sedol) /\ BySedol(universe, row.sedol) # "none"
    BY <1>2 DEF Hit
  <2>2. QED
    BY <1>3, <2>1, SedolHit
<1>9. match.method = "name" =>
        \E c \in matched : \A d \in ToSet(universe) : OrgScore(row.name, d.name) <= OrgScore(row.name, c.name)
  <2> SUFFICES ASSUME match.method = "name"
               PROVE  \E c \in matched : \A d \in ToSet(universe) :
                        OrgScore(row.name, d.name) <= OrgScore(row.name, c.name)
    OBVIOUS
  <2>1. match.company = ByName(universe, row.name) /\ ByName(universe, row.name) # "none"
    BY <1>2 DEF Hit
  <2>2. PICK k \in DOMAIN universe :
          /\ universe[k].key = ByName(universe, row.name)
          /\ \A j \in DOMAIN universe : OrgScore(row.name, universe[j].name) <= OrgScore(row.name, universe[k].name)
    BY <2>1, NameHit
  <2>3. \A d \in ToSet(universe) : OrgScore(row.name, d.name) <= OrgScore(row.name, universe[k].name)
    BY <1>4, <2>2
  <2>4. QED
    BY <1>3, <2>1, <2>2, <2>3
<1>10. QED
  BY <1>5, <1>6, <1>7, <1>8, <1>9

LEMMA UploadMatches == universe \in Universes => MatchesAreEvident
<1> SUFFICES ASSUME universe \in Universes, NEW book \in Books, NEW i \in DOMAIN ParseBrokerageCsv(book)
             PROVE  LET row == ParseBrokerageCsv(book)[i]
                        match == UploadReport(book).positions[i]
                        matched == {c \in ToSet(universe) : c.key = match.company}
                    IN /\ match.method = "ticker" =>
                            \E c \in matched : \E t \in c.tickers : Fold(t) = Fold(row.ticker)
                       /\ row.ticker # Absent /\ (\E c \in ToSet(universe) : row.ticker \in c.tickers) =>
                            \E c \in matched : row.ticker \in c.tickers
                       /\ match.method = "isin" => \E c \in matched : row.isin \in c.isins
                       /\ match.method = "sedol" => \E c \in matched : row.sedol \in c.sedols
                       /\ match.method = "name" =>
                            \E c \in matched : \A d \in ToSet(universe) :
                              OrgScore(row.name, d.name) <= OrgScore(row.name, c.name)
  BY DEF MatchesAreEvident
<1> DEFINE position == ParseBrokerageCsv(book)[i]
           found == UploadReport(book).positions[i]
           among == {c \in ToSet(universe) : c.key = found.company}
<1>1. position = ParseBrokerageCsv(book)[i] /\ found = UploadReport(book).positions[i]
  OBVIOUS
<1> HIDE DEF position, found
<1>2. among = {c \in ToSet(universe) : c.key = found.company}
  OBVIOUS
<1> HIDE DEF among
<1>3. /\ found.method = "ticker" =>
           \E c \in among : \E t \in c.tickers : Fold(t) = Fold(position.ticker)
      /\ position.ticker # Absent /\ (\E c \in ToSet(universe) : position.ticker \in c.tickers) =>
           \E c \in among : position.ticker \in c.tickers
      /\ found.method = "isin" => \E c \in among : position.isin \in c.isins
      /\ found.method = "sedol" => \E c \in among : position.sedol \in c.sedols
      /\ found.method = "name" =>
           \E c \in among : \A d \in ToSet(universe) :
             OrgScore(position.name, d.name) <= OrgScore(position.name, c.name)
  BY <1>1, <1>2, UploadMatch
<1>4. QED
  BY <1>1, <1>2, <1>3

\* The companies of a report, each kept where it comes first.
LEMMA HeldOnce ==
  ASSUME NEW report, DOMAIN report.positions \in SUBSET Nat
  PROVE  LET held == HoldingsOf(report)
         IN /\ ToSet(held) = {report.positions[i].company : i \in DOMAIN report.positions} \ {"none"}
            /\ IsInjective(held)
<1> DEFINE company(i) == report.positions[i].company
           rowsOf == DOMAIN report.positions
           kept == {i \in rowsOf : /\ company(i) # "none"
                                   /\ \A j \in rowsOf : j < i => company(j) # company(i)}
           held == [i \in kept |-> company(i)]
<1>1. HoldingsOf(report) = held
  BY DEF HoldingsOf
<1> HIDE DEF company
<1>2. rowsOf \in SUBSET Nat
  OBVIOUS
<1> HIDE DEF rowsOf
<1>3. \A i, j \in kept : company(i) = company(j) => i = j
  BY <1>2
<1>4. IsInjective(held)
  BY <1>3 DEF IsInjective
<1>5. \A c \in ToSet(held) : c # "none" /\ \E i \in rowsOf : c = company(i)
  BY DEF ToSet
<1>6. ASSUME NEW i \in rowsOf, company(i) # "none"
      PROVE  company(i) \in ToSet(held)
  <2> DEFINE same == {j \in rowsOf : company(j) = company(i)}
  <2>1. same \in SUBSET Nat /\ same # {}
    BY <1>2
  <2>2. PICK j \in same : \A k \in same : j <= k
    BY <2>1, FirstRow
  <2>3. j \in kept
    BY <1>2, <1>6, <2>2
  <2>4. held[j] = company(i) /\ j \in DOMAIN held
    BY <2>2, <2>3
  <2>5. QED
    BY <2>4 DEF ToSet
<1>7. ToSet(held) = {company(i) : i \in rowsOf} \ {"none"}
  BY <1>5, <1>6
<1>8. QED
  BY <1>1, <1>4, <1>7 DEF company, rowsOf

LEMMA UploadHolds == UploadHoldsTheResolved
<1> SUFFICES ASSUME NEW book \in Books
             PROVE  LET report == UploadReport(book)
                        held == HoldingsOf(report)
                    IN /\ ToSet(held) = {report.positions[i].company : i \in DOMAIN report.positions} \ {"none"}
                       /\ IsInjective(held)
  BY DEF UploadHoldsTheResolved
<1>1. DOMAIN book \in SUBSET Nat
  BY RecordsAssumption
<1>2. DOMAIN UploadReport(book).positions \in SUBSET Nat
  BY <1>1 DEF UploadReport, ResolvePositions, ParseBrokerageCsv
<1>3. QED
  BY <1>2, HeldOnce

-----------------------------------------------------------------------------
(* Records, whichever service a behaviour is about *)

\* A step of the API is one of the records' two, or leaves them alone.
LEMMA RecordsStep == [ApiNext]_apiVars => [TeamNext \/ OwnNext]_recordVars
BY DEF ApiNext, apiVars, recordVars

LEMMA InitRecordsInv == ApiInit => TeamInv /\ OwnInv
<1> SUFFICES ASSUME ApiInit
             PROVE  TeamInv /\ OwnInv
  OBVIOUS
<1>1. RecordsInit
  BY DEF ApiInit
<1>2. QED
  BY <1>1, InitTeamInv, InitOwnInv

\* What the tables and the threads at work on them agree on, in every
\* reachable state.
THEOREM RecordsInvariant == ApiSpec => [](TeamInv /\ OwnInv)
<1>1. TeamInv /\ OwnInv /\ [ApiNext]_apiVars => (TeamInv /\ OwnInv)'
  BY RecordsStep, NextTeamInv, NextOwnInv
<1>2. QED
  BY InitRecordsInv, <1>1, PTL DEF ApiSpec

\* The list of workspaces has the very ones an account can open, an author
\* can open what it wrote in, and what a deletion leaves behind is at most a
\* row for every other thread, whatever requests overlap.
THEOREM Workspaces == ApiSpec => []WorkspacesSound
<1>1. TeamInv /\ OwnInv => WorkspacesSound
  BY TeamInvImplies, OwnInvImplies DEF WorkspacesSound, RecordsTypeOK
<1>2. QED
  BY <1>1, RecordsInvariant, PTL

\* A portfolio is read whole or gone, an upload holds each company its rows
\* resolved to once, and a row goes to a company that carries what it names,
\* for every universe and every book.
THEOREM Portfolios == ApiSpec => []PortfoliosSound
<1>1. OwnInv => PortfoliosSound
  <2> SUFFICES ASSUME OwnInv
               PROVE  PortfoliosSound
    OBVIOUS
  <2>1. universe \in Universes
    BY DEF OwnInv, OwnTable
  <2>2. QED
    BY <2>1, OwnInvImplies, UploadMatches, UploadHolds DEF PortfoliosSound
<1>2. QED
  BY <1>1, RecordsInvariant, PTL

-----------------------------------------------------------------------------
(* The gateway's keys: what updates asked for that came one by one. *)

KeysIn(config) == [p \in Providers |-> IF p \in DOMAIN config.keys THEN config.keys[p] ELSE ""]

\* What the file will say once the update in progress is written.
Saving(a) ==
  /\ \A b \in Admins \ {a} : updates[b].op = "waits"
  /\ updates[a].config.state = "saved" /\ KeysIn(updates[a].config) = wanted
  /\ updates[a].op = "write" => file = Torn

GatewayInv ==
  /\ DOMAIN updates = Admins /\ wanted = [p \in Providers |-> wanted[p]]
  /\ \A a \in Admins :
       /\ updates[a].op \in {"waits", "truncate", "write"}
       /\ updates[a].op # "waits" => updates[a] = [op |-> updates[a].op, config |-> updates[a].config]
  /\ KeysKept
  /\ clean => \A a \in Admins : updates[a].op # "waits" => Saving(a)

LEMMA InitGatewayInv == LlmInit => GatewayInv
<1> SUFFICES ASSUME LlmInit
             PROVE  GatewayInv
  OBVIOUS
<1>1. /\ DOMAIN updates = Admins /\ \A a \in Admins : updates[a].op = "waits"
      /\ file.state = "missing" /\ wanted = NoKeys
  BY DEF LlmInit, Waits
<1>2. wanted = [p \in Providers |-> wanted[p]]
  BY <1>1 DEF NoKeys
<1>3. KeysKept
  BY <1>1 DEF KeysKept, LoadConfig, Defaults
<1>4. QED
  BY <1>1, <1>2, <1>3 DEF GatewayInv

\* Steps that touch neither the file nor an update.
LEMMA GatewayKept ==
  ASSUME GatewayInv, UNCHANGED <<file, updates, wanted, clean>>
  PROVE  GatewayInv'
<1>1. LoadConfig' = LoadConfig
  BY DEF LoadConfig
<1>2. KeysKept'
  BY <1>1 DEF GatewayInv, KeysKept
<1>3. \A a : Saving(a)' = Saving(a)
  BY DEF Saving
<1>4. QED
  BY <1>2, <1>3 DEF GatewayInv

\* An update that finds no other in progress merges what was wanted so far.
LEMMA AdminPutKeeps ==
  ASSUME GatewayInv, NEW a \in Admins, NEW update \in Updates, AdminPut(a, update)
  PROVE  GatewayInv'
<1> DEFINE config == Merge(LoadConfig, update)
           next == [op |-> "truncate", config |-> config]
<1>1. /\ updates' = [updates EXCEPT ![a] = next]
      /\ wanted' = [p \in Providers |-> IF p \notin DOMAIN update.keys THEN ""
                                        ELSE IF update.keys[p] = "keep" THEN wanted[p] ELSE update.keys[p]]
      /\ clean' = (clean /\ \A b \in Admins : updates[b].op = "waits")
      /\ UNCHANGED file
  BY DEF AdminPut
<1>2. /\ DOMAIN updates' = Admins /\ updates'[a] = next /\ next.op = "truncate" /\ next.config = config
      /\ \A b \in Admins : b # a => updates'[b] = updates[b]
  BY <1>1 DEF GatewayInv
<1>3. config.state = "saved"
  BY DEF Merge
<1>4. clean' => KeysIn(config) = wanted'
  <2> SUFFICES ASSUME clean'
               PROVE  KeysIn(config) = wanted'
    OBVIOUS
  <2>1. LoadConfig.keys = wanted
    BY <1>1 DEF GatewayInv, KeysKept
  <2>2. /\ DOMAIN config.keys = DOMAIN update.keys
        /\ \A p \in DOMAIN update.keys :
             config.keys[p] = IF update.keys[p] = "keep" THEN wanted[p] ELSE update.keys[p]
    BY <2>1 DEF Merge, MergedKey
  <2> HIDE DEF config
  <2>3. QED
    BY <1>1, <2>2 DEF KeysIn
<1> HIDE DEF config
<1>5. \A b \in Admins :
        /\ updates'[b].op \in {"waits", "truncate", "write"}
        /\ updates'[b].op # "waits" => updates'[b] = [op |-> updates'[b].op, config |-> updates'[b].config]
  BY <1>2 DEF GatewayInv
<1>6. clean' => \A b \in Admins : updates'[b].op # "waits" => b = a
  BY <1>1, <1>2
<1>7. KeysKept'
  BY <1>2 DEF KeysKept
<1>8. clean' => Saving(a)'
  BY <1>2, <1>3, <1>4, <1>6 DEF Saving
<1>9. wanted' = [p \in Providers |-> wanted'[p]]
  BY <1>1
<1>10. clean' => \A b \in Admins : updates'[b].op # "waits" => Saving(b)'
  BY <1>6, <1>8 DEF Saving
<1>11. QED
  BY <1>2, <1>5, <1>7, <1>9, <1>10 DEF GatewayInv

LEMMA TruncateKeeps ==
  ASSUME GatewayInv, NEW a \in Admins, Truncate(a)
  PROVE  GatewayInv'
<1> DEFINE next == [updates[a] EXCEPT !.op = "write"]
<1>1. /\ updates[a].op = "truncate" /\ file' = Torn /\ updates' = [updates EXCEPT ![a] = next]
      /\ UNCHANGED <<wanted, clean>>
  BY DEF Truncate
<1>2. next.op = "write" /\ next.config = updates[a].config /\ next = [op |-> "write", config |-> updates[a].config]
  BY <1>1 DEF GatewayInv
<1>3. /\ DOMAIN updates' = Admins /\ updates'[a] = next
      /\ \A b \in Admins : b # a => updates'[b] = updates[b]
  BY <1>1 DEF GatewayInv
<1> HIDE DEF next
<1>4. KeysKept'
  BY <1>2, <1>3 DEF KeysKept
<1>5. clean => Saving(a)'
  BY <1>1, <1>2, <1>3 DEF GatewayInv, Saving
<1>6. clean => \A b \in Admins : b # a => updates'[b].op = "waits"
  BY <1>1, <1>3 DEF GatewayInv, Saving
<1>7. clean' => \A b \in Admins : updates'[b].op # "waits" => Saving(b)'
  BY <1>1, <1>5, <1>6 DEF Saving
<1>8. QED
  BY <1>1, <1>2, <1>3, <1>4, <1>7 DEF GatewayInv

LEMMA WriteKeeps ==
  ASSUME GatewayInv, NEW a \in Admins, Write(a)
  PROVE  GatewayInv'
<1>1. /\ updates[a].op = "write" /\ updates' = [updates EXCEPT ![a] = Waits]
      /\ file' \in {updates[a].config} \union (IF file = Torn THEN {} ELSE {Torn})
      /\ UNCHANGED <<wanted, clean>>
  BY DEF Write
<1>2. /\ DOMAIN updates' = Admins /\ updates'[a] = Waits /\ Waits.op = "waits"
      /\ \A b \in Admins : b # a => updates'[b] = updates[b]
  BY <1>1 DEF GatewayInv, Waits
<1>3. clean => Saving(a)
  BY <1>1 DEF GatewayInv
<1>4. clean => \A b \in Admins : updates'[b].op = "waits"
  BY <1>2, <1>3 DEF Saving
<1>5. KeysKept'
  <2> SUFFICES ASSUME clean
               PROVE  LoadConfig.keys' = wanted
    BY <1>1 DEF KeysKept
  <2>1. file' = updates[a].config /\ file'.state = "saved"
    BY <1>1, <1>3 DEF Saving
  <2>2. LoadConfig.keys' = KeysIn(updates[a].config)
    BY <2>1 DEF LoadConfig, KeysIn
  <2>3. QED
    BY <1>3, <2>2 DEF Saving
<1>6. QED
  BY <1>1, <1>2, <1>4, <1>5 DEF GatewayInv

LEMMA StopKeeps ==
  ASSUME GatewayInv, Stop
  PROVE  GatewayInv'
BY DEF Stop, GatewayInv, KeysKept, Waits

LEMMA NextGatewayInv == GatewayInv /\ [LlmNext]_llmVars => GatewayInv'
<1> SUFFICES ASSUME GatewayInv, [LlmNext]_llmVars
             PROVE  GatewayInv'
  OBVIOUS
<1>1. CASE \E n \in Analysts : AskAnalyst(n) \/ Complete(n) \/ AnalysisRead(n)
  <2>1. UNCHANGED <<file, updates, wanted, clean>>
    BY <1>1 DEF AskAnalyst, Complete, AnalysisRead
  <2>2. QED
    BY <2>1, GatewayKept
<1>2. CASE UNCHANGED llmVars
  BY <1>2, GatewayKept DEF llmVars
<1>3. QED
  BY <1>1, <1>2, AdminPutKeeps, TruncateKeeps, WriteKeeps, StopKeeps DEF LlmNext

\* What the configuration file, and an update on its way to it, say.
THEOREM GatewayInvariant == ApiSpec => []GatewayInv
<1>1. ApiInit => GatewayInv
  BY InitGatewayInv DEF ApiInit
<1>2. [ApiNext]_apiVars => [LlmNext]_llmVars
  BY DEF ApiNext, apiVars, llmVars
<1>3. GatewayInv /\ [ApiNext]_apiVars => GatewayInv'
  BY <1>2, NextGatewayInv
<1>4. QED
  BY <1>1, <1>3, PTL DEF ApiSpec

\* Updates that come one after the other and are not cut short lose no key.
THEOREM Keys == ApiSpec => []KeysKept
<1>1. GatewayInv => KeysKept
  BY DEF GatewayInv
<1>2. QED
  BY <1>1, GatewayInvariant, PTL

-----------------------------------------------------------------------------
(* Documents: withheld ones cost places and change nothing else. *)

OneOfEach(documents) ==
  /\ documents \in Seq(Documents)
  /\ \A i, j \in DOMAIN documents : documents[i].id = documents[j].id => i = j

CorpusInv == OneOfEach(catalog) /\ OneOfEach(engine)

\* A document replaces the one of its id or comes last.
LEMMA PutKeepsOne ==
  ASSUME NEW documents, OneOfEach(documents), NEW d \in Documents
  PROVE  OneOfEach(Put(documents, d))
<1>1. documents \in Seq(Documents) /\ Len(documents) \in Nat /\ DOMAIN documents = 1 .. Len(documents)
  BY DEF OneOfEach
<1>2. CASE \E i \in DOMAIN documents : documents[i].id = d.id
  <2> DEFINE put == [i \in DOMAIN documents |-> IF documents[i].id = d.id THEN d ELSE documents[i]]
  <2>1. Put(documents, d) = put
    BY <1>2 DEF Put
  <2>2. put \in Seq(Documents) /\ DOMAIN put = DOMAIN documents
    BY <1>1
  <2>3. \A i \in DOMAIN documents : put[i].id = documents[i].id
    OBVIOUS
  <2> HIDE DEF put
  <2>4. QED
    BY <2>1, <2>2, <2>3 DEF OneOfEach
<1>3. CASE ~(\E i \in DOMAIN documents : documents[i].id = d.id)
  <2>1. Put(documents, d) = Append(documents, d)
    BY <1>3 DEF Put
  <2>2. /\ Append(documents, d) \in Seq(Documents)
        /\ DOMAIN Append(documents, d) = 1 .. Len(documents) + 1
        /\ Append(documents, d)[Len(documents) + 1] = d
        /\ \A i \in DOMAIN documents : Append(documents, d)[i] = documents[i]
    BY <1>1
  <2>3. QED
    BY <1>1, <1>3, <2>1, <2>2 DEF OneOfEach
<1>4. QED
  BY <1>2, <1>3

LEMMA NextCorpusInv == CorpusInv /\ [CorpusNext]_corpusVars => CorpusInv'
<1> SUFFICES ASSUME CorpusInv, [CorpusNext]_corpusVars
             PROVE  CorpusInv'
  OBVIOUS
<1>1. ASSUME NEW d \in Documents, Publish(d)
      PROVE  CorpusInv'
  BY <1>1, PutKeepsOne DEF CorpusInv, Publish, OneOfEach
<1>2. CASE LoadEngine
  BY <1>2 DEF LoadEngine, CorpusInv, OneOfEach
<1>3. CASE UNCHANGED corpusVars
  BY <1>3 DEF corpusVars, CorpusInv, OneOfEach
<1>4. QED
  BY <1>1, <1>2, <1>3 DEF CorpusNext

\* What the engine and the catalog hold, in every reachable state.
THEOREM CorpusInvariant == ApiSpec => []CorpusInv
<1>1. ApiInit => CorpusInv
  BY DEF ApiInit, CorpusInit, CorpusInv, OneOfEach
<1>2. [ApiNext]_apiVars => [CorpusNext]_corpusVars
  BY DEF ApiNext, apiVars, corpusVars
<1>3. CorpusInv /\ [ApiNext]_apiVars => CorpusInv'
  BY <1>2, NextCorpusInv
<1>4. QED
  BY <1>1, <1>3, PTL DEF ApiSpec

\* The public tier is the lowest, shared with documents that have none.
LEMMA TierRanks ==
  ASSUME NEW tier
  PROVE  /\ Store!TierRank(Store!None) = 1 /\ Store!TierRank("public") = 1
         /\ tier # Store!None /\ tier # "public" => ~(Store!TierRank(tier) <= 1)
<1>1. /\ DOMAIN Store!Tiers = 1 .. 4 /\ Len(Store!Tiers) = 4
      /\ Store!Tiers[1] = "public" /\ Store!Tiers[2] = "legitimate-interest"
      /\ Store!Tiers[3] = "restricted-authority" /\ Store!Tiers[4] = "aggregator-licensed"
  BY DEF Store!Tiers
<1>2. Store!Range(Store!Tiers) = {"public", "legitimate-interest", "restricted-authority", "aggregator-licensed"}
  <2>1. \A i \in 1 .. 4 : i = 1 \/ i = 2 \/ i = 3 \/ i = 4
    OBVIOUS
  <2>2. QED
    BY <1>1, <2>1 DEF Store!Range
<1>3. Store!TierRank(Store!None) = 1
  BY <1>2 DEF Store!TierRank, Store!None
<1>4. ASSUME NEW t \in Store!Range(Store!Tiers)
      PROVE  Store!TierRank(t) \in 1 .. 4 /\ Store!Tiers[Store!TierRank(t)] = t
  <2> DEFINE at == CHOOSE i \in DOMAIN Store!Tiers : Store!Tiers[i] = t
  <2>1. at \in 1 .. 4 /\ Store!Tiers[at] = t
    BY <1>1, <1>4 DEF Store!Range
  <2>2. t # Store!None
    BY <1>2 DEF Store!None
  <2>3. Store!TierRank(t) = at
    BY <1>4, <2>2 DEF Store!TierRank
  <2>4. QED
    BY <2>1, <2>3
<1>5. Store!TierRank("public") = 1
  <2>1. PICK n : n = Store!TierRank("public")
    OBVIOUS
  <2>2. n \in 1 .. 4 /\ Store!Tiers[n] = "public"
    BY <1>2, <1>4, <2>1
  <2>3. n = 1
    BY <1>1, <2>2
  <2>4. QED
    BY <2>1, <2>3
<1>6. ASSUME tier # Store!None, tier # "public"
      PROVE  ~(Store!TierRank(tier) <= 1)
  <2>1. CASE tier \in Store!Range(Store!Tiers)
    BY <1>1, <1>4, <1>6, <2>1
  <2>2. CASE tier \notin Store!Range(Store!Tiers)
    <3>1. Store!TierRank(tier) = Len(Store!Tiers)
      BY <1>6, <2>2 DEF Store!TierRank
    <3>2. QED
      BY <1>1, <3>1
  <2>3. QED
    BY <2>1, <2>2
<1>7. QED
  BY <1>3, <1>5, <1>6

\* The public clearance sees the documents without a tier and the public ones.
LEMMA PublicClearance ==
  ASSUME NEW d \in Documents
  PROVE  DocumentVisible(d) <=> IsPublic(d)
<1>1. CASE "access_tier" \notin DOMAIN d.props
  BY <1>1, TierRanks DEF DocumentVisible, IsPublic, Store!CanSee, Store!Prop
<1>2. CASE "access_tier" \in DOMAIN d.props
  <2>1. PICK tier : tier = d.props.access_tier
    OBVIOUS
  <2>2. tier # Store!None
    BY <1>2, <2>1, CorpusAssumption
  <2>3. DocumentVisible(d) <=> Store!TierRank(tier) <= Store!TierRank("public")
    BY <1>2, <2>1 DEF DocumentVisible, Store!CanSee, Store!Prop
  <2>4. Store!TierRank(tier) <= Store!TierRank("public") <=> tier = "public"
    BY <2>2, TierRanks
  <2>5. QED
    BY <1>2, <2>1, <2>3, <2>4 DEF IsPublic
<1>3. QED
  BY <1>1, <1>2

\* A score is a number, so that answers are in one order.
LEMMA Scores ==
  ASSUME CorpusInv, NEW query \in Queries
  PROVE  /\ \A i \in DOMAIN engine : Blended(query, engine[i]) \in Int
         /\ DOMAIN engine \in SUBSET Nat /\ IsFiniteSet(DOMAIN engine)
         /\ \A i \in DOMAIN engine : engine[i] \in Documents
<1>1. engine \in Seq(Documents) /\ DOMAIN engine = 1 .. Len(engine) /\ Len(engine) \in Nat
  BY DEF CorpusInv, OneOfEach
<1>2. IsFiniteSet(DOMAIN engine)
  BY <1>1, FS_Interval
<1>3. ASSUME NEW d \in Documents
      PROVE  Blended(query, d) \in Int
  <2>1. IsFiniteSet(query) /\ query # {} /\ Similarity[<<query, d.id>>] \in Int
    BY CorpusAssumption
  <2>2. Cardinality(query) \in Nat /\ Cardinality(query) # 0
    BY <2>1, FS_CardinalityType, FS_EmptySet
  <2>3. Cardinality(query \intersect d.terms) \in Nat
    <3>1. query \intersect d.terms \in SUBSET query
      OBVIOUS
    <3>2. QED
      BY <2>1, <3>1, FS_Subset, FS_CardinalityType
  <2>4. \A a, b \in Nat : b # 0 => (100 * a) \div b \in Int
    OBVIOUS
  <2>5. (100 * Cardinality(query \intersect d.terms)) \div Cardinality(query) \in Int
    BY <2>2, <2>3, <2>4
  <2>6. QED
    BY <2>1, <2>5 DEF Blended
<1>4. QED
  BY <1>1, <1>2, <1>3

Better(places, query, i) ==
  {j \in {k \in places : Blended(query, engine[k]) > 0} : Before(query, j, i)}

\* Fewer places, or a better answer, have fewer answers before them.
LEMMA FewerBefore ==
  ASSUME CorpusInv, NEW query \in Queries,
         NEW places \in SUBSET DOMAIN engine, NEW some \in SUBSET places
  PROVE  \A i, j \in DOMAIN engine :
           /\ Cardinality(Better(places, query, i)) \in Nat /\ IsFiniteSet(Better(places, query, i))
           /\ Cardinality(Better(some, query, i)) <= Cardinality(Better(places, query, i))
           /\ Before(query, j, i) => Cardinality(Better(places, query, j)) <= Cardinality(Better(places, query, i))
<1> SUFFICES ASSUME NEW i \in DOMAIN engine, NEW j \in DOMAIN engine
             PROVE  /\ Cardinality(Better(places, query, i)) \in Nat /\ IsFiniteSet(Better(places, query, i))
                    /\ Cardinality(Better(some, query, i)) <= Cardinality(Better(places, query, i))
                    /\ Before(query, j, i) =>
                         Cardinality(Better(places, query, j)) <= Cardinality(Better(places, query, i))
  OBVIOUS
<1>1. IsFiniteSet(Better(places, query, i))
  <2>1. Better(places, query, i) \in SUBSET DOMAIN engine
    BY DEF Better
  <2>2. QED
    BY <2>1, Scores, FS_Subset
<1>2. Better(some, query, i) \in SUBSET Better(places, query, i)
  BY DEF Better
<1>3. Before(query, j, i) => Better(places, query, j) \in SUBSET Better(places, query, i)
  <2> DEFINE score(k) == Blended(query, engine[k])
  <2>1. \A k \in DOMAIN engine : score(k) \in Int /\ k \in Nat
    BY Scores
  <2>2. \A k, l \in DOMAIN engine : Before(query, k, l) <=> score(k) > score(l) \/ (score(k) = score(l) /\ k < l)
    BY DEF Before
  <2> HIDE DEF score
  <2>3. \A k \in DOMAIN engine : Before(query, k, j) /\ Before(query, j, i) => Before(query, k, i)
    BY <2>1, <2>2
  <2>4. QED
    BY <2>3 DEF Better
<1>4. QED
  BY <1>1, <1>2, <1>3, FS_Subset, FS_CardinalityType

LEMMA Retrieved ==
  ASSUME NEW places, NEW query, NEW topK
  PROVE  \A i : i \in Retrieve(places, query, topK) <=>
                  i \in places /\ Blended(query, engine[i]) > 0 /\ Cardinality(Better(places, query, i)) < topK
BY DEF Retrieve, Better

LEMMA Prefix == CorpusInv => PublicAnswersAreAPrefix
<1> DEFINE public == {i \in DOMAIN engine : IsPublic(engine[i])}
<1> SUFFICES ASSUME CorpusInv, NEW query \in Queries, NEW topK \in Depths
             PROVE  /\ PublicRetrieve(query, topK) \subseteq Retrieve(public, query, topK)
                    /\ \A i \in PublicRetrieve(query, topK), j \in Retrieve(public, query, topK) :
                         Before(query, j, i) => j \in PublicRetrieve(query, topK)
  BY DEF PublicAnswersAreAPrefix
<1>1. VisibleDocuments = public
  BY PublicClearance, Scores DEF VisibleDocuments
<1>2. topK \in Nat
  BY CorpusAssumption
<1>3. public \in SUBSET DOMAIN engine /\ DOMAIN engine \in SUBSET DOMAIN engine
  OBVIOUS
<1>4. \A i : i \in PublicRetrieve(query, topK) <=>
          i \in public /\ Blended(query, engine[i]) > 0 /\ Cardinality(Better(DOMAIN engine, query, i)) < topK
  BY <1>1, <1>3, Retrieved DEF PublicRetrieve
<1> HIDE DEF public
<1>5. \A i : i \in Retrieve(public, query, topK) <=>
          i \in public /\ Blended(query, engine[i]) > 0 /\ Cardinality(Better(public, query, i)) < topK
  BY Retrieved
<1>6. \A i \in DOMAIN engine : /\ Cardinality(Better(public, query, i)) \in Nat
                               /\ Cardinality(Better(DOMAIN engine, query, i)) \in Nat
                               /\ Cardinality(Better(public, query, i)) <= Cardinality(Better(DOMAIN engine, query, i))
  BY <1>3, FewerBefore
<1>7. \A i, j \in DOMAIN engine :
        Before(query, j, i) =>
          Cardinality(Better(DOMAIN engine, query, j)) <= Cardinality(Better(DOMAIN engine, query, i))
  BY <1>3, FewerBefore
<1>8. QED
  BY <1>2, <1>3, <1>4, <1>5, <1>6, <1>7

LEMMA Dropped == CorpusInv => NothingBetterIsDropped
<1> SUFFICES ASSUME CorpusInv, NEW query \in Queries, NEW topK \in Depths,
                    NEW i \in {k \in DOMAIN engine : Blended(query, engine[k]) > 0}, IsPublic(engine[i])
             PROVE  /\ (\E j \in PublicRetrieve(query, topK) : Blended(query, engine[i]) > Blended(query, engine[j])) =>
                         i \in PublicRetrieve(query, topK)
                    /\ i \notin PublicRetrieve(query, topK) =>
                         Cardinality({j \in {k \in DOMAIN engine : Blended(query, engine[k]) > 0} :
                                        Blended(query, engine[j]) >= Blended(query, engine[i])}) > topK
  BY DEF NothingBetterIsDropped
<1> DEFINE all == DOMAIN engine
           asGood == {j \in {k \in all : Blended(query, engine[k]) > 0} :
                        Blended(query, engine[j]) >= Blended(query, engine[i])}
<1>1. topK \in Nat /\ all \in SUBSET all /\ i \in all
  BY CorpusAssumption
<1>2. \A k : k \in PublicRetrieve(query, topK) <=>
          k \in all /\ IsPublic(engine[k]) /\ Blended(query, engine[k]) > 0 /\ Cardinality(Better(all, query, k)) < topK
  BY <1>1, Retrieved, PublicClearance, Scores DEF PublicRetrieve, VisibleDocuments
<1>3. \A k \in all : Cardinality(Better(all, query, k)) \in Nat /\ IsFiniteSet(Better(all, query, k))
  BY <1>1, FewerBefore
<1>4. ASSUME NEW j \in PublicRetrieve(query, topK), Blended(query, engine[i]) > Blended(query, engine[j])
      PROVE  i \in PublicRetrieve(query, topK)
  <2>1. Before(query, i, j) /\ j \in all
    BY <1>2, <1>4 DEF Before
  <2>2. Cardinality(Better(all, query, i)) <= Cardinality(Better(all, query, j))
    BY <1>1, <2>1, FewerBefore
  <2>3. Cardinality(Better(all, query, j)) < topK
    BY <1>2, <1>4
  <2>4. Cardinality(Better(all, query, i)) < topK
    BY <1>1, <1>3, <2>1, <2>2, <2>3
  <2>5. QED
    BY <1>1, <1>2, <2>4
<1>5. ASSUME i \notin PublicRetrieve(query, topK)
      PROVE  Cardinality(asGood) > topK
  <2> DEFINE better == Better(all, query, i)
  <2>1. ~(Cardinality(better) < topK) /\ Cardinality(better) \in Nat /\ IsFiniteSet(better)
    BY <1>1, <1>2, <1>3, <1>5
  <2>2. i \notin better /\ better \union {i} \in SUBSET asGood
    <3>1. \A j \in all : Blended(query, engine[j]) \in Int /\ j \in Nat
      BY Scores
    <3>2. QED
      BY <1>1, <3>1 DEF Better, Before
  <2>3. IsFiniteSet(asGood)
    BY Scores, FS_Subset
  <2> HIDE DEF better, asGood
  <2>4. Cardinality(better \union {i}) = Cardinality(better) + 1
    BY <2>1, <2>2, FS_AddElement
  <2>5. Cardinality(better \union {i}) <= Cardinality(asGood) /\ Cardinality(asGood) \in Nat
    BY <2>2, <2>3, FS_Subset, FS_CardinalityType
  <2>6. QED
    BY <1>1, <2>1, <2>4, <2>5
<1>6. QED
  BY <1>4, <1>5

LEMMA Summaries == CorpusInv => SummariesFollowTheEngine
<1> SUFFICES ASSUME CorpusInv, NEW id \in summaries, SummaryServed(id), NEW d \in Range(engine), d.id = id
             PROVE  IsPublic(d)
  BY DEF SummariesFollowTheEngine
<1>1. d \in Backing(id) /\ d \in Documents
  BY DEF Backing, Range, CorpusInv, OneOfEach
<1>2. QED
  BY <1>1, PublicClearance DEF SummaryServed

\* Whatever ingestion writes and whenever the engine is loaded, what the
\* public reads is the beginning of what it would read if the documents it
\* may not see did not exist, and no summary of those is served.
THEOREM PublicAnswers == ApiSpec => []PublicAnswersSound
<1>1. CorpusInv => CorpusTypeOK
  BY DEF CorpusInv, OneOfEach, CorpusTypeOK, Range
<1>2. CorpusInv => PublicAnswersSound
  BY <1>1, Prefix, Dropped, Summaries DEF PublicAnswersSound
<1>3. QED
  BY <1>2, CorpusInvariant, PTL

-----------------------------------------------------------------------------
(* Lists by positions. *)

\* t holds what s has at the positions in I, each of them once.
Picks(t, s, I) ==
  \E at : /\ \A k \in DOMAIN t : at[k] \in I /\ t[k] = s[at[k]]
          /\ \A k, l \in DOMAIN t : at[k] = at[l] => k = l
          /\ \A i \in I : \E k \in DOMAIN t : at[k] = i

LEMMA PickedAt ==
  ASSUME NEW t, NEW s, NEW I, NEW at,
         \A k \in DOMAIN t : at[k] \in I, \A k \in DOMAIN t : t[k] = s[at[k]],
         \A k, l \in DOMAIN t : at[k] = at[l] => k = l,
         \A i \in I : \E k \in DOMAIN t : at[k] = i
  PROVE  Picks(t, s, I)
BY DEF Picks

LEMMA PickedRange ==
  ASSUME NEW t, NEW s, NEW I, Picks(t, s, I)
  PROVE  Range(t) = {s[i] : i \in I}
BY DEF Picks, Range

LEMMA ListDomain ==
  ASSUME NEW s, IsList(s)
  PROVE  /\ Len(s) \in Nat /\ DOMAIN s = 1 .. Len(s) /\ DOMAIN s \subseteq Nat /\ IsFiniteSet(DOMAIN s)
         /\ s = [i \in DOMAIN s |-> s[i]] /\ (s = <<>> <=> Len(s) = 0) /\ (s = <<>> <=> DOMAIN s = {})
<1>1. Len(s) \in Nat /\ DOMAIN s = 1 .. Len(s) /\ s = [i \in DOMAIN s |-> s[i]]
  BY DEF IsList
<1>2. IsFiniteSet(1 .. Len(s))
  <2>1. 1 \in Int /\ Len(s) \in Int
    BY <1>1
  <2>2. QED
    BY <2>1, FS_Interval
<1>3. s = <<>> <=> Len(s) = 0
  BY DEF IsList
<1>4. 1 .. Len(s) = {} <=> Len(s) = 0
  BY <1>1
<1>5. QED
  BY <1>1, <1>2, <1>3, <1>4

LEMMA ListFrom ==
  ASSUME NEW n \in Nat, NEW s, s = [i \in 1 .. n |-> s[i]]
  PROVE  IsList(s) /\ Len(s) = n /\ DOMAIN s = 1 .. n
<1>1. DOMAIN s = 1 .. n
  OBVIOUS
<1>2. \A i \in 1 .. n : s[i] \in Range(s)
  BY <1>1 DEF Range
<1>3. s \in [1 .. n -> Range(s)]
  BY <1>2
<1>4. s \in Seq(Range(s))
  BY <1>3
<1>5. Len(s) = n
  BY <1>1, <1>4
<1>6. QED
  BY <1>1, <1>4, <1>5 DEF IsList

\* An enumeration by the number of those before, in any strict order of a finite set.
LEMMA Enumerated ==
  ASSUME NEW I, IsFiniteSet(I), NEW before \in [I -> SUBSET I],
         \A i \in I : i \notin before[i],
         \A i, j \in I : i # j => i \in before[j] \/ j \in before[i],
         \A i, j \in I : i \in before[j] => before[i] \subseteq before[j],
         NEW at, \A k \in 1 .. Cardinality(I) : (\E i \in I : Cardinality(before[i]) = k - 1) =>
                   at[k] \in I /\ Cardinality(before[at[k]]) = k - 1
  PROVE  /\ Cardinality(I) \in Nat
         /\ \A k \in 1 .. Cardinality(I) : at[k] \in I
         /\ \A k, l \in 1 .. Cardinality(I) : at[k] = at[l] => k = l
         /\ \A i \in I : \E k \in 1 .. Cardinality(I) : at[k] = i
<1> DEFINE size == Cardinality(I)
           rank == [i \in I |-> Cardinality(before[i])]
<1>1. size \in Nat
  BY FS_CardinalityType
<1>2. ASSUME NEW i \in I
      PROVE  IsFiniteSet(before[i]) /\ rank[i] \in 0 .. size - 1
  <2>1. before[i] \in SUBSET (I \ {i})
    OBVIOUS
  <2>2. IsFiniteSet(I \ {i}) /\ Cardinality(I \ {i}) = size - 1
    BY FS_RemoveElement
  <2>3. IsFiniteSet(before[i]) /\ Cardinality(before[i]) <= size - 1
    BY <2>1, <2>2, FS_Subset
  <2>4. Cardinality(before[i]) \in Nat
    BY <2>3, FS_CardinalityType
  <2>5. QED
    BY <1>1, <2>3, <2>4
<1>3. ASSUME NEW i \in I, NEW j \in I, i \in before[j]
      PROVE  rank[i] < rank[j]
  <2>1. before[i] \in SUBSET before[j] /\ before[i] # before[j]
    BY <1>3
  <2>2. /\ Cardinality(before[i]) <= Cardinality(before[j])
        /\ Cardinality(before[i]) = Cardinality(before[j]) => before[i] = before[j]
    BY <1>2, <2>1, FS_Subset
  <2>3. rank[i] \in Int /\ rank[j] \in Int
    BY <1>1, <1>2
  <2>4. QED
    BY <2>1, <2>2, <2>3
<1>4. \A i, j \in I : rank[i] = rank[j] => i = j
  <2> SUFFICES ASSUME NEW i \in I, NEW j \in I, rank[i] = rank[j], i # j
               PROVE  FALSE
    OBVIOUS
  <2>1. rank[i] \in Int /\ rank[j] \in Int
    BY <1>1, <1>2
  <2>2. rank[i] < rank[j] \/ rank[j] < rank[i]
    BY <1>3
  <2>3. QED
    BY <2>1, <2>2
<1>5. rank \in Surjection(I, 0 .. size - 1)
  <2>1. rank \in [I -> 0 .. size - 1]
    BY <1>2
  <2>2. rank \in Injection(I, 0 .. size - 1)
    BY <1>4, <2>1 DEF Injection, IsInjective
  <2>3. IsFiniteSet(0 .. size - 1) /\ Cardinality(0 .. size - 1) = size
    <3>1. 0 \in Int /\ size - 1 \in Int /\ (0 > size - 1 => size = 0)
      BY <1>1
    <3>2. QED
      BY <1>1, <3>1, FS_Interval
  <2>4. QED
    BY <2>2, <2>3, FS_Injection
<1>6. ASSUME NEW k \in 1 .. size
      PROVE  at[k] \in I /\ rank[at[k]] = k - 1
  <2>1. k - 1 \in 0 .. size - 1
    BY <1>1
  <2>2. PICK i \in I : rank[i] = k - 1
    BY <1>5, <2>1 DEF Surjection
  <2>3. at[k] \in I /\ Cardinality(before[at[k]]) = k - 1
    BY <2>2
  <2>4. QED
    BY <2>3
<1>7. ASSUME NEW i \in I
      PROVE  \E k \in 1 .. size : at[k] = i
  <2>1. rank[i] + 1 \in 1 .. size /\ (rank[i] + 1) - 1 = rank[i]
    BY <1>1, <1>2
  <2>2. at[rank[i] + 1] \in I /\ rank[at[rank[i] + 1]] = rank[i]
    BY <1>6, <2>1
  <2>3. at[rank[i] + 1] = i
    BY <1>4, <2>2
  <2>4. QED
    BY <2>1, <2>3
<1>8. ASSUME NEW k \in 1 .. size, NEW l \in 1 .. size, at[k] = at[l]
      PROVE  k = l
  <2>1. k - 1 = l - 1
    BY <1>6, <1>8
  <2>2. QED
    BY <2>1
<1>9. QED
  BY <1>1, <1>6, <1>7, <1>8

\* What a list has at some of its positions.
LEMMA ThoseSound ==
  ASSUME NEW s, IsList(s), NEW I, I \subseteq DOMAIN s
  PROVE  IsList(Those(s, I)) /\ Picks(Those(s, I), s, I)
<1> DEFINE before == [i \in I |-> {j \in I : j < i}]
           at == InOrder(I)
<1>1. I \subseteq Nat /\ IsFiniteSet(I)
  <2>1. I \in SUBSET DOMAIN s
    OBVIOUS
  <2>2. QED
    BY <2>1, ListDomain, FS_Subset
<1>2. before \in [I -> SUBSET I]
  OBVIOUS
<1>3. ASSUME NEW i \in I, NEW j \in I
      PROVE  /\ i \notin before[i] /\ (i # j => i \in before[j] \/ j \in before[i])
             /\ i \in before[j] => before[i] \subseteq before[j]
  <2>1. i \in Int /\ j \in Int
    BY <1>1
  <2>2. \A h \in I : h \in Int
    BY <1>1
  <2>3. i \notin before[i] /\ (i # j => i \in before[j] \/ j \in before[i])
    BY <2>1
  <2>4. i \in before[j] => before[i] \subseteq before[j]
    BY <2>1, <2>2
  <2>5. QED
    BY <2>3, <2>4
<1>4. ASSUME NEW k \in 1 .. Cardinality(I), \E i \in I : Cardinality(before[i]) = k - 1
      PROVE  at[k] \in I /\ Cardinality(before[at[k]]) = k - 1
  <2>1. \E i \in I : Cardinality({j \in I : j < i}) = k - 1
    BY <1>4
  <2>2. at[k] = CHOOSE i \in I : Cardinality({j \in I : j < i}) = k - 1
    BY DEF InOrder
  <2>3. at[k] \in I /\ Cardinality({j \in I : j < at[k]}) = k - 1
    BY <2>1, <2>2
  <2>4. QED
    BY <2>3
<1>5. DOMAIN at = 1 .. Cardinality(I)
  BY DEF InOrder
<1>6. Those(s, I) = [k \in 1 .. Cardinality(I) |-> s[at[k]]]
  BY <1>5 DEF Those
<1> HIDE DEF before, at
<1>7. /\ Cardinality(I) \in Nat
      /\ \A k \in 1 .. Cardinality(I) : at[k] \in I
      /\ \A k, l \in 1 .. Cardinality(I) : at[k] = at[l] => k = l
      /\ \A i \in I : \E k \in 1 .. Cardinality(I) : at[k] = i
  BY <1>1, <1>2, <1>3, <1>4, Enumerated
<1>8. DOMAIN Those(s, I) = 1 .. Cardinality(I) /\ \A k \in 1 .. Cardinality(I) : Those(s, I)[k] = s[at[k]]
  BY <1>6
<1>9. Those(s, I) = [k \in 1 .. Cardinality(I) |-> Those(s, I)[k]]
  BY <1>6
<1>10. IsList(Those(s, I))
  BY <1>7, <1>9, ListFrom
<1>11. Picks(Those(s, I), s, I)
  BY <1>7, <1>8 DEF Picks
<1>12. QED
  BY <1>10, <1>11

\* A sorted list has what it was sorted from.
LEMMA SortedSound ==
  ASSUME NEW s, IsList(s), NEW rank, \A i \in DOMAIN s : rank[i] \in Int
  PROVE  IsList(Sorted(s, rank)) /\ Picks(Sorted(s, rank), s, DOMAIN s)
<1> DEFINE I == DOMAIN s
           before == [i \in I |-> {j \in I : rank[j] < rank[i] \/ (rank[j] = rank[i] /\ j < i)}]
           at == [n \in I |-> CHOOSE i \in I :
                    Cardinality({j \in I : rank[j] < rank[i] \/ (rank[j] = rank[i] /\ j < i)}) = n - 1]
<1>1. I \subseteq Nat /\ IsFiniteSet(I) /\ I = 1 .. Cardinality(I)
  <2>1. Len(s) \in Nat /\ I = 1 .. Len(s)
    BY ListDomain
  <2>2. Cardinality(1 .. Len(s)) = Len(s)
    <3>1. 1 \in Int /\ Len(s) \in Int /\ Len(s) - 1 + 1 = Len(s) /\ (1 > Len(s) => Len(s) = 0)
      BY <2>1
    <3>2. QED
      BY <3>1, FS_Interval
  <2>3. QED
    BY <2>1, <2>2, ListDomain
<1>2. before \in [I -> SUBSET I]
  OBVIOUS
<1>3. ASSUME NEW i \in I, NEW j \in I
      PROVE  /\ i \notin before[i] /\ (i # j => i \in before[j] \/ j \in before[i])
             /\ i \in before[j] => before[i] \subseteq before[j]
  <2>1. \A h \in I : h \in Int /\ rank[h] \in Int
    BY <1>1
  <2>2. i \notin before[i]
    BY <2>1
  <2>3. i # j => i \in before[j] \/ j \in before[i]
    BY <2>1
  <2>4. i \in before[j] => before[i] \subseteq before[j]
    BY <2>1
  <2>5. QED
    BY <2>2, <2>3, <2>4
<1>4. ASSUME NEW k \in I, \E i \in I : Cardinality(before[i]) = k - 1
      PROVE  at[k] \in I /\ Cardinality(before[at[k]]) = k - 1
  <2>1. \E i \in I : Cardinality({j \in I : rank[j] < rank[i] \/ (rank[j] = rank[i] /\ j < i)}) = k - 1
    BY <1>4
  <2>2. /\ at[k] \in I
        /\ Cardinality({j \in I : rank[j] < rank[at[k]] \/ (rank[j] = rank[at[k]] /\ j < at[k])}) = k - 1
    BY <2>1
  <2>3. QED
    BY <2>2
<1>5. Sorted(s, rank) = [n \in I |-> s[at[n]]]
  BY DEF Sorted
<1> HIDE DEF before, at
<1>6. /\ \A k \in I : at[k] \in I
      /\ \A k, l \in I : at[k] = at[l] => k = l
      /\ \A i \in I : \E k \in I : at[k] = i
  <2>1. \A k \in 1 .. Cardinality(I) : (\E i \in I : Cardinality(before[i]) = k - 1) =>
                   at[k] \in I /\ Cardinality(before[at[k]]) = k - 1
    BY <1>1, <1>4
  <2>2. /\ \A k \in 1 .. Cardinality(I) : at[k] \in I
        /\ \A k, l \in 1 .. Cardinality(I) : at[k] = at[l] => k = l
        /\ \A i \in I : \E k \in 1 .. Cardinality(I) : at[k] = i
    <3>1. IsFiniteSet(I)
      BY <1>1
    <3> HIDE DEF I
    <3>2. QED
      BY <1>2, <1>3, <2>1, <3>1, Enumerated
  <2>3. QED
    BY <1>1, <2>2
<1>7. DOMAIN Sorted(s, rank) = I /\ \A k \in I : Sorted(s, rank)[k] = s[at[k]]
  BY <1>5
<1>8. IsList(Sorted(s, rank))
  <2>1. Len(s) \in Nat /\ I = 1 .. Len(s)
    BY ListDomain
  <2>2. Sorted(s, rank) = [k \in I |-> Sorted(s, rank)[k]]
    BY <1>5
  <2>3. QED
    BY <2>1, <2>2, ListFrom
<1>9. Picks(Sorted(s, rank), s, I)
  <2>1. DOMAIN Sorted(s, rank) = I
    BY <1>7
  <2> HIDE DEF I
  <2>2. QED
    BY <1>6, <1>7, <2>1, PickedAt
<1>10. QED
  BY <1>8, <1>9

\* The first of each key, and no key twice.
LEMMA FirstsSound ==
  ASSUME NEW s, IsList(s), NEW key
  PROVE  /\ IsList(FirstOfEach(s, key)) /\ Range(FirstOfEach(s, key)) \subseteq Range(s)
         /\ \E at : /\ \A k \in DOMAIN FirstOfEach(s, key) :
                         at[k] \in DOMAIN s /\ FirstOfEach(s, key)[k] = s[at[k]]
                    /\ \A k, l \in DOMAIN FirstOfEach(s, key) : key[at[k]] = key[at[l]] => k = l
<1> DEFINE I == {i \in DOMAIN s : \A j \in 1 .. i - 1 : key[j] # key[i]}
           t == Those(s, I)
<1>1. I \subseteq DOMAIN s
  OBVIOUS
<1>2. FirstOfEach(s, key) = t
  BY DEF FirstOfEach
<1>3. \A i, j \in I : key[i] = key[j] => i = j
  <2> SUFFICES ASSUME NEW i \in I, NEW j \in I, key[i] = key[j], i # j
               PROVE  FALSE
    OBVIOUS
  <2>1. i \in Nat /\ j \in Nat /\ i \in DOMAIN s /\ j \in DOMAIN s /\ DOMAIN s = 1 .. Len(s) /\ Len(s) \in Nat
    BY ListDomain
  <2>2. i \in 1 .. j - 1 \/ j \in 1 .. i - 1
    BY <2>1
  <2>3. QED
    BY <2>2
<1> HIDE DEF I
<1>4. IsList(t) /\ Picks(t, s, I)
  BY <1>1, ThoseSound
<1> HIDE DEF t
<1>5. PICK at : /\ \A k \in DOMAIN t : at[k] \in I /\ t[k] = s[at[k]]
                /\ \A k, l \in DOMAIN t : at[k] = at[l] => k = l
  BY <1>4 DEF Picks
<1>6. \A k, l \in DOMAIN t : key[at[k]] = key[at[l]] => k = l
  BY <1>3, <1>5
<1>7. Range(t) \subseteq Range(s)
  BY <1>1, <1>4, PickedRange DEF Range
<1>8. \A k \in DOMAIN t : at[k] \in DOMAIN s /\ t[k] = s[at[k]]
  BY <1>1, <1>5
<1>9. QED
  BY <1>2, <1>4, <1>6, <1>7, <1>8

LEMMA ThoseRange ==
  ASSUME NEW s, IsList(s), NEW I, I \subseteq DOMAIN s
  PROVE  IsList(Those(s, I)) /\ Range(Those(s, I)) = {s[i] : i \in I} /\ Range(Those(s, I)) \subseteq Range(s)
<1>1. IsList(Those(s, I)) /\ Range(Those(s, I)) = {s[i] : i \in I}
  BY ThoseSound, PickedRange
<1>2. {s[i] : i \in I} \subseteq Range(s)
  BY DEF Range
<1>3. QED
  BY <1>1, <1>2

\* One list after another.
LEMMA Joined ==
  ASSUME NEW s, IsList(s), NEW t, IsList(t)
  PROVE  /\ IsList(s \o t) /\ Range(s \o t) = Range(s) \union Range(t)
         /\ DOMAIN (s \o t) = 1 .. Len(s) + Len(t) /\ Len(s) \in Nat /\ Len(t) \in Nat
         /\ \A k \in 1 .. Len(s) : (s \o t)[k] = s[k]
         /\ \A k \in 1 .. Len(t) : (s \o t)[Len(s) + k] = t[k]
         /\ \A k \in DOMAIN (s \o t) : k > Len(s) => (s \o t)[k] = t[k - Len(s)] /\ k - Len(s) \in 1 .. Len(t)
<1> DEFINE S == Range(s) \union Range(t)
<1>1. s \in Seq(Range(s)) /\ t \in Seq(Range(t)) /\ Range(s) \subseteq S /\ Range(t) \subseteq S
  BY DEF IsList
<1>2. s \in Seq(S) /\ t \in Seq(S)
  BY <1>1
<1> HIDE DEF S
<1>3. Len(s) \in Nat /\ Len(t) \in Nat /\ DOMAIN s = 1 .. Len(s) /\ DOMAIN t = 1 .. Len(t)
  BY ListDomain
<1>4. /\ s \o t \in Seq(S) /\ Len(s \o t) = Len(s) + Len(t)
      /\ \A k \in 1 .. Len(s) + Len(t) : (s \o t)[k] = IF k <= Len(s) THEN s[k] ELSE t[k - Len(s)]
  BY <1>2
<1>5. DOMAIN (s \o t) = 1 .. Len(s) + Len(t)
  BY <1>4
<1>6. /\ \A k \in 1 .. Len(s) : (s \o t)[k] = s[k]
      /\ \A k \in 1 .. Len(t) : (s \o t)[Len(s) + k] = t[k]
      /\ \A k \in DOMAIN (s \o t) : k > Len(s) => (s \o t)[k] = t[k - Len(s)] /\ k - Len(s) \in 1 .. Len(t)
  <2>1. ASSUME NEW k \in 1 .. Len(s)
        PROVE  (s \o t)[k] = s[k]
    BY <1>3, <1>4
  <2>2. ASSUME NEW k \in 1 .. Len(t)
        PROVE  (s \o t)[Len(s) + k] = t[k]
    <3>1. Len(s) + k \in 1 .. Len(s) + Len(t) /\ ~(Len(s) + k <= Len(s)) /\ Len(s) + k - Len(s) = k
      BY <1>3
    <3>2. QED
      BY <1>4, <3>1
  <2>3. ASSUME NEW k \in DOMAIN (s \o t), k > Len(s)
        PROVE  (s \o t)[k] = t[k - Len(s)] /\ k - Len(s) \in 1 .. Len(t)
    <3>1. k \in 1 .. Len(s) + Len(t) /\ ~(k <= Len(s)) /\ k - Len(s) \in 1 .. Len(t)
      BY <1>3, <1>5, <2>3
    <3>2. QED
      BY <1>4, <3>1
  <2>4. QED
    BY <2>1, <2>2, <2>3
<1>7. Range(s \o t) = S
  <2>1. \A k \in DOMAIN (s \o t) : (s \o t)[k] \in S
    BY <1>4, <1>5
  <2>2. \A k \in DOMAIN s : \E n \in DOMAIN (s \o t) : (s \o t)[n] = s[k]
    <3> SUFFICES ASSUME NEW k \in DOMAIN s
                 PROVE  \E n \in DOMAIN (s \o t) : (s \o t)[n] = s[k]
      OBVIOUS
    <3>1. k \in 1 .. Len(s) /\ k \in 1 .. Len(s) + Len(t)
      BY <1>3
    <3>2. QED
      BY <1>5, <1>6, <3>1
  <2>3. \A k \in DOMAIN t : \E n \in DOMAIN (s \o t) : (s \o t)[n] = t[k]
    <3> SUFFICES ASSUME NEW k \in DOMAIN t
                 PROVE  \E n \in DOMAIN (s \o t) : (s \o t)[n] = t[k]
      OBVIOUS
    <3>1. k \in 1 .. Len(t) /\ Len(s) + k \in 1 .. Len(s) + Len(t)
      BY <1>3
    <3>2. QED
      BY <1>5, <1>6, <3>1
  <2>4. \A x \in S : \E n \in DOMAIN (s \o t) : (s \o t)[n] = x
    BY <2>2, <2>3 DEF S, Range
  <2>5. QED
    BY <2>1, <2>4 DEF Range
<1>8. IsList(s \o t)
  BY <1>4, <1>7 DEF IsList
<1>9. QED
  BY <1>3, <1>5, <1>6, <1>7, <1>8 DEF S

LEMMA JoinedRange ==
  ASSUME NEW s, IsList(s), NEW t, IsList(t)
  PROVE  IsList(s \o t) /\ Range(s \o t) = Range(s) \union Range(t)
BY Joined

\* The beginning of a list.
LEMMA BeginsWith ==
  ASSUME NEW s, IsList(s), NEW n \in Nat
  PROVE  /\ IsList(AtMost(s, n)) /\ Range(AtMost(s, n)) \subseteq Range(s)
         /\ \A k \in DOMAIN AtMost(s, n) : k \in DOMAIN s /\ AtMost(s, n)[k] = s[k]
<1> DEFINE m == IF Len(s) < n THEN Len(s) ELSE n
<1>1. Len(s) \in Nat /\ DOMAIN s = 1 .. Len(s) /\ s \in Seq(Range(s))
  BY ListDomain DEF IsList
<1>2. m \in 0 .. Len(s) /\ m \in Nat
  BY <1>1
<1>3. AtMost(s, n) = SubSeq(s, 1, m)
  BY DEF AtMost
<1> HIDE DEF m
<1>4. SubSeq(s, 1, m) = [k \in 1 .. m |-> s[k]]
  BY <1>1, <1>2
<1>5. IsList(AtMost(s, n)) /\ DOMAIN AtMost(s, n) = 1 .. m
  <2>1. AtMost(s, n) = [k \in 1 .. m |-> AtMost(s, n)[k]]
    BY <1>3, <1>4
  <2>2. QED
    BY <1>2, <2>1, ListFrom
<1>6. \A k \in DOMAIN AtMost(s, n) : k \in DOMAIN s /\ AtMost(s, n)[k] = s[k]
  BY <1>1, <1>2, <1>3, <1>4
<1>7. QED
  BY <1>5, <1>6 DEF Range

\* Lists one after the other have what each of them has.
LEMMA Flattened ==
  ASSUME NEW ss, IsList(ss), \A i \in DOMAIN ss : IsList(ss[i])
  PROVE  IsList(FlattenSeq(ss)) /\ Range(FlattenSeq(ss)) = UNION {Range(ss[i]) : i \in DOMAIN ss}
<1> DEFINE n == Len(ss)
           Flat(f, m) == f = [i \in 1 .. m |-> IF i = 1 THEN ss[i] ELSE f[i - 1] \o ss[i]]
<1>1. n \in Nat /\ DOMAIN ss = 1 .. n
  BY ListDomain
<1>2. CASE n = 0
  <2>1. FlattenSeq(ss) = ss
    BY <1>2 DEF FlattenSeq
  <2>2. DOMAIN ss = {}
    BY <1>1, <1>2
  <2>3. QED
    BY <2>1, <2>2 DEF Range
<1>3. CASE n # 0
  <2> DEFINE f == CHOOSE g : Flat(g, n)
             lacking == {m \in 1 .. n : ~ \E g : Flat(g, m)}
             upTo(m) == UNION {Range(ss[j]) : j \in 1 .. m}
             wrong == {m \in 1 .. n : ~(IsList(f[m]) /\ Range(f[m]) = upTo(m))}
  <2>1. lacking = {}
    <3> SUFFICES ASSUME lacking # {}
                 PROVE  FALSE
      OBVIOUS
    <3>1. lacking \in SUBSET Nat
      <4> HIDE DEF Flat
      <4>1. \A m \in 1 .. n : m \in Nat
        BY <1>1
      <4>2. QED
        BY <4>1
    <3>2. PICK m \in lacking : \A k \in lacking : m <= k
      <4> HIDE DEF lacking
      <4>1. QED
        BY <3>1, FirstRow
    <3>3. m \in 1 .. n /\ m \in Nat
      BY <3>1
    <3>4. m # 1
      <4> SUFFICES ASSUME m = 1
                   PROVE  \E g : Flat(g, m)
        OBVIOUS
      <4> DEFINE h == [i \in 1 .. 1 |-> ss[1]]
      <4>1. Flat(h, 1)
        BY \A i \in 1 .. 1 : i = 1
      <4>2. QED
        BY <4>1
    <3>5. m - 1 \in 1 .. n /\ m - 1 \in Nat /\ ~(m <= m - 1) /\ 1 .. m = (1 .. m - 1) \union {m} /\ m \notin 1 .. m - 1
      BY <1>1, <3>3, <3>4
    <3>6. m - 1 \notin lacking
      BY <3>2, <3>5
    <3>7. PICK g : Flat(g, m - 1)
      BY <3>5, <3>6
    <3> DEFINE h == [i \in 1 .. m |-> IF i = m THEN g[m - 1] \o ss[m] ELSE g[i]]
    <3>8. \A i \in 1 .. m : h[i] = IF i = 1 THEN ss[i] ELSE h[i - 1] \o ss[i]
      <4> SUFFICES ASSUME NEW i \in 1 .. m
                   PROVE  h[i] = IF i = 1 THEN ss[i] ELSE h[i - 1] \o ss[i]
        OBVIOUS
      <4>1. m - 1 \in 1 .. m /\ m - 1 # m
        BY <3>3, <3>4
      <4>2. CASE i = m
        <5>1. h[i] = g[m - 1] \o ss[m] /\ h[m - 1] = g[m - 1]
          BY <4>1, <4>2
        <5>2. QED
          BY <3>4, <4>2, <5>1
      <4>3. CASE i # m
        <5>1. i \in 1 .. m - 1 /\ (i # 1 => i - 1 \in 1 .. m /\ i - 1 # m)
          BY <3>3, <4>3
        <5>2. g[i] = IF i = 1 THEN ss[i] ELSE g[i - 1] \o ss[i]
          BY <3>7, <5>1
        <5>3. h[i] = g[i] /\ (i # 1 => h[i - 1] = g[i - 1])
          BY <4>3, <5>1
        <5>4. QED
          BY <5>2, <5>3
      <4>4. QED
        BY <4>2, <4>3
    <3>9. h = [i \in 1 .. m |-> h[i]]
      OBVIOUS
    <3> HIDE DEF h
    <3>10. Flat(h, m)
      BY <3>8, <3>9
    <3>11. QED
      BY <3>2, <3>10
  <2>2. Flat(f, n)
    <3>1. n \in 1 .. n
      BY <1>1, <1>3
    <3>2. \E g : Flat(g, n)
      BY <2>1, <3>1
    <3> HIDE DEF Flat
    <3>3. QED
      BY <3>2
  <2>3. FlattenSeq(ss) = f[n]
    BY <1>3 DEF FlattenSeq
  <2> HIDE DEF f
  <2>4. \A i \in 1 .. n : f[i] = IF i = 1 THEN ss[i] ELSE f[i - 1] \o ss[i]
    BY <2>2
  <2>5. wrong = {}
    <3> SUFFICES ASSUME wrong # {}
                 PROVE  FALSE
      OBVIOUS
    <3>1. wrong \in SUBSET Nat
      BY <1>1
    <3>2. PICK m \in wrong : \A k \in wrong : m <= k
      <4> HIDE DEF wrong
      <4>1. QED
        BY <3>1, FirstRow
    <3>3. m \in 1 .. n /\ m \in Nat
      BY <3>1
    <3>4. m # 1
      <4> SUFFICES ASSUME m = 1
                   PROVE  IsList(f[m]) /\ Range(f[m]) = upTo(m)
        OBVIOUS
      <4>1. f[1] = ss[1] /\ 1 .. 1 = {1}
        BY <2>4, <3>3
      <4>2. QED
        BY <1>1, <3>3, <4>1
    <3>5. m - 1 \in 1 .. n /\ ~(m <= m - 1) /\ 1 .. m = (1 .. m - 1) \union {m}
      BY <1>1, <3>3, <3>4
    <3>6. IsList(f[m - 1]) /\ Range(f[m - 1]) = upTo(m - 1)
      BY <3>2, <3>5
    <3>7. f[m] = f[m - 1] \o ss[m] /\ IsList(ss[m])
      BY <1>1, <2>4, <3>3, <3>4
    <3>8. IsList(f[m]) /\ Range(f[m]) = Range(f[m - 1]) \union Range(ss[m])
      BY <3>6, <3>7, JoinedRange
    <3>9. upTo(m) = upTo(m - 1) \union Range(ss[m])
      BY <3>5
    <3>10. QED
      BY <3>2, <3>6, <3>8, <3>9
  <2>6. n \in 1 .. n
    BY <1>1, <1>3
  <2>7. IsList(f[n]) /\ Range(f[n]) = upTo(n)
    BY <2>5, <2>6
  <2>8. QED
    BY <1>1, <2>3, <2>7
<1>4. QED
  BY <1>2, <1>3

-----------------------------------------------------------------------------
(* What is read off a disclosure. *)

\* Applying an operation to every entry of a list.
LEMMA Mapped ==
  ASSUME NEW s, IsList(s), NEW t, DOMAIN t = DOMAIN s, t = [i \in DOMAIN t |-> t[i]]
  PROVE  IsList(t) /\ Len(t) = Len(s)
<1>1. Len(s) \in Nat /\ DOMAIN s = 1 .. Len(s)
  BY ListDomain
<1>2. t = [i \in 1 .. Len(s) |-> t[i]]
  BY <1>1
<1>3. QED
  BY <1>1, <1>2, ListFrom

LEMMA RowsSound ==
  ASSUME NEW d, NEW countries, IsDisclosure(d, countries)
  PROVE  /\ IsList(Rows(d))
         /\ \A row \in Range(Rows(d)) : row.sentence.prose => row.sentence.key \notin countries
<1> DEFINE lines(i) == [j \in DOMAIN d.sections[i].sentences |->
                         [section |-> d.sections[i].title, sentence |-> d.sections[i].sentences[j]]]
           all == [i \in DOMAIN d.sections |-> lines(i)]
<1>1. IsList(d.sections) /\ \A n \in DOMAIN d.sections : IsList(d.sections[n].sentences)
  BY DEF IsDisclosure
<1>2. ASSUME NEW i \in DOMAIN d.sections
      PROVE  /\ IsList(lines(i))
             /\ \A row \in Range(lines(i)) : row.sentence.prose => row.sentence.key \notin countries
  <2>1. DOMAIN lines(i) = DOMAIN d.sections[i].sentences /\ lines(i) = [j \in DOMAIN lines(i) |-> lines(i)[j]]
    OBVIOUS
  <2>2. IsList(lines(i))
    <3> HIDE DEF lines
    <3>1. QED
      BY <1>1, <2>1, Mapped
  <2>3. \A j \in DOMAIN lines(i) : lines(i)[j].sentence = d.sections[i].sentences[j]
    OBVIOUS
  <2>4. \A j \in DOMAIN d.sections[i].sentences :
          d.sections[i].sentences[j].prose => d.sections[i].sentences[j].key \notin countries
    BY DEF IsDisclosure
  <2>5. \A j \in DOMAIN lines(i) : lines(i)[j].sentence.prose => lines(i)[j].sentence.key \notin countries
    BY <2>1, <2>3, <2>4
  <2> HIDE DEF lines
  <2>6. QED
    BY <2>2, <2>5 DEF Range
<1>3. DOMAIN all = DOMAIN d.sections /\ \A i \in DOMAIN d.sections : all[i] = lines(i)
  OBVIOUS
<1>4. all = [i \in DOMAIN all |-> all[i]]
  OBVIOUS
<1>5. Rows(d) = FlattenSeq(all)
  BY DEF Rows
<1> HIDE DEF lines, all
<1>6. IsList(all) /\ \A i \in DOMAIN all : IsList(all[i])
  BY <1>1, <1>2, <1>3, <1>4, Mapped
<1>7. IsList(Rows(d)) /\ Range(Rows(d)) = UNION {Range(all[i]) : i \in DOMAIN all}
  BY <1>5, <1>6, Flattened
<1>8. QED
  BY <1>2, <1>3, <1>7

LEMMA ProseSound ==
  ASSUME NEW d, NEW countries, IsDisclosure(d, countries)
  PROVE  IsList(Prose(d)) /\ \A row \in Range(Prose(d)) : row.sentence.key \notin countries
<1> DEFINE lines == Rows(d)
           I == {i \in DOMAIN lines : lines[i].sentence.prose}
<1>1. IsList(lines) /\ \A row \in Range(lines) : row.sentence.prose => row.sentence.key \notin countries
  BY RowsSound
<1>2. Prose(d) = Those(lines, I)
  BY DEF Prose
<1>3. I \subseteq DOMAIN lines /\ \A i \in I : lines[i].sentence.prose /\ lines[i] \in Range(lines)
  BY DEF Range
<1> HIDE DEF lines, I
<1>4. IsList(Prose(d)) /\ Range(Prose(d)) = {lines[i] : i \in I}
  BY <1>1, <1>2, <1>3, ThoseRange
<1>5. QED
  BY <1>1, <1>3, <1>4

LEMMA StatementsSound ==
  ASSUME NEW d, NEW countries, IsDisclosure(d, countries)
  PROVE  /\ IsList(StatementIndex(d)) /\ Range(StatementIndex(d)) \subseteq Range(Prose(d))
         /\ \A row \in Range(StatementIndex(d)) : row.sentence.key \notin countries
<1> DEFINE lines == Prose(d)
           keys == [i \in DOMAIN lines |-> lines[i].sentence.key]
<1>1. IsList(lines) /\ \A row \in Range(lines) : row.sentence.key \notin countries
  BY ProseSound
<1>2. StatementIndex(d) = FirstOfEach(lines, keys)
  BY DEF StatementIndex
<1> HIDE DEF lines, keys
<1>3. IsList(FirstOfEach(lines, keys)) /\ Range(FirstOfEach(lines, keys)) \subseteq Range(lines)
  BY <1>1, FirstsSound
<1>4. QED
  BY <1>1, <1>2, <1>3 DEF lines

\* The changes of one kind are the statements of one side that the other lacks.
LEMMA OneSidedSound ==
  ASSUME NEW kind, NEW d, NEW other, NEW countries, IsDisclosure(d, countries)
  PROVE  /\ IsList(OneSided(kind, d, other))
         /\ \A c \in Range(OneSided(kind, d, other)) :
              /\ c.kind = kind /\ c.evidence.document = d.id /\ c.key \notin countries
              /\ c.key \in Stated(d) \ Stated(other)
         /\ \A key \in Stated(d) \ Stated(other) : \E c \in Range(OneSided(kind, d, other)) : c.key = key
<1> DEFINE stated == StatementIndex(d)
           I == {i \in DOMAIN stated : stated[i].sentence.key \notin Stated(other)}
           lines == Those(stated, I)
           change(row) == [kind |-> kind, category |-> PrimaryCategory(row.sentence), key |-> row.sentence.key,
                           evidence |-> Claim(d, row, PrimaryCategory(row.sentence))]
           t == OneSided(kind, d, other)
<1>1. IsList(stated) /\ \A row \in Range(stated) : row.sentence.key \notin countries
  BY StatementsSound
<1>2. I \subseteq DOMAIN stated
  OBVIOUS
<1>3. t = [i \in DOMAIN lines |-> change(lines[i])]
  BY DEF OneSided
<1>4. IsList(lines) /\ Range(lines) = {stated[i] : i \in I}
  <2> HIDE DEF stated, I
  <2>1. QED
    BY <1>1, <1>2, ThoseRange
<1>5. /\ \A row : /\ change(row).kind = kind /\ change(row).key = row.sentence.key
                  /\ change(row).evidence.document = d.id
  BY DEF Claim
<1>6. Stated(d) = {row.sentence.key : row \in Range(stated)}
  BY DEF Stated
<1>7. \A i \in I : stated[i] \in Range(stated) /\ stated[i].sentence.key \notin Stated(other)
  BY DEF Range
<1>8. \A row \in Range(stated) : row.sentence.key \notin Stated(other) => \E i \in I : stated[i] = row
  BY DEF Range
<1> HIDE DEF stated, I, lines, change, t
<1>9. DOMAIN t = DOMAIN lines /\ \A i \in DOMAIN lines : t[i] = change(lines[i])
  BY <1>3
<1>10. IsList(t)
  <2>1. t = [i \in DOMAIN t |-> t[i]]
    BY <1>3
  <2>2. QED
    BY <1>4, <1>9, <2>1, Mapped
<1>11. Range(t) = {change(row) : row \in Range(lines)}
  BY <1>9 DEF Range
<1>12. ASSUME NEW c \in Range(t)
       PROVE  /\ c.kind = kind /\ c.evidence.document = d.id /\ c.key \notin countries
              /\ c.key \in Stated(d) \ Stated(other)
  <2>1. PICK i \in I : c = change(stated[i])
    BY <1>4, <1>11
  <2>2. QED
    BY <1>1, <1>5, <1>6, <1>7, <2>1
<1>13. ASSUME NEW key \in Stated(d) \ Stated(other)
       PROVE  \E c \in Range(t) : c.key = key
  <2>1. PICK row \in Range(stated) : row.sentence.key = key
    BY <1>6
  <2>2. row \in Range(lines)
    BY <1>4, <1>8, <2>1
  <2>3. QED
    BY <1>5, <1>11, <2>1, <2>2
<1>14. QED
  BY <1>10, <1>12, <1>13 DEF t

LEMMA RankNumber ==
  ASSUME NEW order, IsList(order), NEW x
  PROVE  Rank(order, x) \in 1 .. Len(order) + 1
<1>1. Len(order) + 1 \in 1 .. Len(order) + 1
  BY ListDomain
<1>2. \E i \in 1 .. Len(order) + 1 : (i <= Len(order) /\ order[i] = x) \/ i = Len(order) + 1
  BY <1>1
<1>3. QED
  BY <1>2 DEF Rank

LEMMA DiffSound ==
  ASSUME NEW current, NEW previous, NEW countries,
         IsDisclosure(current, countries), IsDisclosure(previous, countries)
  PROVE  /\ IsList(Diff(current, previous))
         /\ Range(Diff(current, previous)) =
              Range(OneSided("added", current, previous)) \union Range(OneSided("removed", previous, current))
<1> DEFINE all == OneSided("added", current, previous) \o OneSided("removed", previous, current)
           rank == [i \in DOMAIN all |->
                      2 * Rank(Materiality, all[i].category) - (IF all[i].kind = "added" THEN 1 ELSE 0)]
<1>1. /\ IsList(all)
      /\ Range(all) = Range(OneSided("added", current, previous)) \union Range(OneSided("removed", previous, current))
  BY OneSidedSound, JoinedRange
<1>2. Diff(current, previous) = Sorted(all, rank)
  BY DEF Diff, ByMateriality
<1>3. \A i \in DOMAIN all : rank[i] \in Int
  <2>1. IsList(Materiality)
    <3>1. Materiality \in Seq(Range(Materiality))
      BY DEF Materiality, Range
    <3>2. QED
      BY <3>1 DEF IsList
  <2>2. \A x : Rank(Materiality, x) \in Int
    <3>1. Len(Materiality) \in Int
      BY <2>1, ListDomain
    <3>2. QED
      BY <2>1, <3>1, RankNumber
  <2> HIDE DEF all
  <2>3. QED
    BY <2>2
<1> HIDE DEF all, rank
<1>4. IsList(Sorted(all, rank)) /\ Picks(Sorted(all, rank), all, DOMAIN all)
  BY <1>1, <1>3, SortedSound
<1>5. Range(Sorted(all, rank)) = Range(all)
  BY <1>4, PickedRange DEF Range
<1>6. QED
  BY <1>1, <1>2, <1>4, <1>5

LEMMA EventsSound ==
  ASSUME NEW d, NEW countries, IsDisclosure(d, countries)
  PROVE  IsList(ExtractEvents(d)) /\ \A e \in Range(ExtractEvents(d)) : e.key \notin countries
<1> DEFINE prose == Prose(d)
           I == {i \in DOMAIN prose : PrimaryCategory(prose[i].sentence) \in EventCategories}
           lines == Those(prose, I)
           texts == [i \in DOMAIN lines |-> lines[i].sentence.text]
           first == FirstOfEach(lines, texts)
           t == ExtractEvents(d)
<1>1. IsList(prose) /\ \A row \in Range(prose) : row.sentence.key \notin countries
  BY ProseSound
<1>2. I \subseteq DOMAIN prose
  OBVIOUS
<1>3. t = [i \in DOMAIN first |-> [category |-> PrimaryCategory(first[i].sentence), key |-> first[i].sentence.key,
                                   evidence |-> Claim(d, first[i], PrimaryCategory(first[i].sentence))]]
  BY DEF ExtractEvents
<1> HIDE DEF prose, I
<1>4. IsList(lines) /\ Range(lines) \subseteq Range(prose)
  BY <1>1, <1>2, ThoseRange
<1> HIDE DEF lines, texts
<1>5. IsList(first) /\ Range(first) \subseteq Range(lines)
  BY <1>4, FirstsSound
<1> HIDE DEF first, t
<1>6. DOMAIN t = DOMAIN first /\ t = [i \in DOMAIN t |-> t[i]] /\ \A i \in DOMAIN first : t[i].key = first[i].sentence.key
  BY <1>3
<1>7. IsList(t)
  BY <1>5, <1>6, Mapped
<1>8. \A i \in DOMAIN t : t[i].key \notin countries
  BY <1>1, <1>4, <1>5, <1>6 DEF Range
<1>9. QED
  BY <1>7, <1>8 DEF t, Range

-----------------------------------------------------------------------------
(* What analyses read: changes, events, and what is made of them. *)

LEMMA InputSound ==
  ASSUME input \in Inputs
  PROVE  /\ IsFiniteSet(input.countries) /\ IsDisclosure(input.current, input.countries)
         /\ input.previous # <<>> => /\ input.previous = <<input.previous[1]>>
                                     /\ IsDisclosure(input.previous[1], input.countries)
BY LlmAssumption

LEMMA ListOfOne ==
  ASSUME NEW x
  PROVE  IsList(<<x>>) /\ DOMAIN <<x>> = {1} /\ <<x>>[1] = x /\ Range(<<x>>) = {x}
<1>1. DOMAIN <<x>> = {1} /\ <<x>>[1] = x
  OBVIOUS
<1>2. Range(<<x>>) = {x}
  BY <1>1 DEF Range
<1>3. <<x>> \in Seq({x})
  OBVIOUS
<1>4. QED
  BY <1>1, <1>2, <1>3 DEF IsList

LEMMA ListOfNone == IsList(<<>>) /\ Range(<<>>) = {} /\ DOMAIN <<>> = {}
BY DEF IsList, Range

LEMMA ChangeSetsSound ==
  ASSUME input \in Inputs
  PROVE  /\ IsList(ChangeSets) /\ \A i \in DOMAIN ChangeSets : IsList(ChangeSets[i])
         /\ Range(FlattenSeq(ChangeSets)) = UNION {Range(ChangeSets[i]) : i \in DOMAIN ChangeSets}
         /\ \A c \in Range(FlattenSeq(ChangeSets)) : c.key \notin input.countries
<1>1. CASE input.previous = <<>>
  <2>1. ChangeSets = <<>>
    BY <1>1 DEF ChangeSets
  <2>2. \A i \in DOMAIN <<>> : IsList(<<>>[i])
    BY ListOfNone
  <2>3. Range(FlattenSeq(<<>>)) = UNION {Range(<<>>[i]) : i \in DOMAIN <<>>}
    BY <2>2, ListOfNone, Flattened
  <2>4. UNION {Range(<<>>[i]) : i \in DOMAIN <<>>} = {}
    BY ListOfNone
  <2>5. QED
    BY <2>1, <2>2, <2>3, <2>4, ListOfNone
<1>2. CASE input.previous # <<>>
  <2> DEFINE diff == Diff(input.current, input.previous[1])
             countries == input.countries
  <2>1. ChangeSets = <<diff>>
    BY <1>2 DEF ChangeSets
  <2>2. IsDisclosure(input.current, countries) /\ IsDisclosure(input.previous[1], countries)
    BY <1>2, InputSound
  <2>3. IsList(diff) /\ \A c \in Range(diff) : c.key \notin countries
    <3>1. /\ IsList(diff)
          /\ Range(diff) = Range(OneSided("added", input.current, input.previous[1]))
                             \union Range(OneSided("removed", input.previous[1], input.current))
      BY <2>2, DiffSound
    <3>2. /\ \A c \in Range(OneSided("added", input.current, input.previous[1])) : c.key \notin countries
          /\ \A c \in Range(OneSided("removed", input.previous[1], input.current)) : c.key \notin countries
      BY <2>2, OneSidedSound
    <3> HIDE DEF diff, countries
    <3>3. QED
      BY <3>1, <3>2
  <2> HIDE DEF diff, countries
  <2>4. IsList(<<diff>>) /\ DOMAIN <<diff>> = {1} /\ <<diff>>[1] = diff
    BY ListOfOne
  <2>5. \A i \in DOMAIN <<diff>> : IsList(<<diff>>[i])
    BY <2>3, <2>4
  <2>6. Range(FlattenSeq(<<diff>>)) = UNION {Range(<<diff>>[i]) : i \in DOMAIN <<diff>>}
    BY <2>4, <2>5, Flattened
  <2>7. UNION {Range(<<diff>>[i]) : i \in DOMAIN <<diff>>} = Range(diff)
    BY <2>4
  <2>8. QED
    BY <2>1, <2>3, <2>4, <2>5, <2>6, <2>7 DEF countries
<1>3. QED
  BY <1>1, <1>2

LEMMA MaterialSound ==
  ASSUME input \in Inputs
  PROVE  IsList(MaterialOf(ChangeSets)) /\ Range(MaterialOf(ChangeSets)) \subseteq Range(FlattenSeq(ChangeSets))
<1> DEFINE all == ChangeSets
           I == {i \in DOMAIN all : Material(all[i])}
           kept == Those(all, I)
<1>1. /\ IsList(all) /\ \A i \in DOMAIN all : IsList(all[i])
      /\ Range(FlattenSeq(all)) = UNION {Range(all[i]) : i \in DOMAIN all}
  BY ChangeSetsSound
<1>2. MaterialOf(all) = FlattenSeq(kept) /\ I \subseteq DOMAIN all
  BY DEF MaterialOf
<1> HIDE DEF all, I
<1>3. IsList(kept) /\ Range(kept) = {all[i] : i \in I}
  BY <1>1, <1>2, ThoseRange
<1> HIDE DEF kept
<1>4. \A k \in DOMAIN kept : \E i \in DOMAIN all : kept[k] = all[i]
  BY <1>2, <1>3 DEF Range
<1>5. \A k \in DOMAIN kept : IsList(kept[k])
  BY <1>1, <1>4
<1>6. IsList(FlattenSeq(kept)) /\ Range(FlattenSeq(kept)) = UNION {Range(kept[k]) : k \in DOMAIN kept}
  BY <1>3, <1>5, Flattened
<1>7. UNION {Range(kept[k]) : k \in DOMAIN kept} \subseteq UNION {Range(all[i]) : i \in DOMAIN all}
  BY <1>4
<1>8. QED
  BY <1>1, <1>2, <1>6, <1>7 DEF all

\* The claims that the changes and events carry.
Cited == {c.evidence : c \in Range(FlattenSeq(ChangeSets)) \union Range(Events)}

LEMMA ConsideredSound ==
  ASSUME input \in Inputs
  PROVE  /\ IsList(Considered(ChangeSets, Events))
         /\ \A item \in Range(Considered(ChangeSets, Events)) : item.evidence \in Cited /\ item.key \notin input.countries
<1> DEFINE material == MaterialOf(ChangeSets)
           events == Events
           told == [i \in DOMAIN events |-> AsItem(events[i])]
<1>1. IsList(material) /\ Range(material) \subseteq Range(FlattenSeq(ChangeSets))
  BY MaterialSound
<1>2. \A c \in Range(FlattenSeq(ChangeSets)) : c.key \notin input.countries
  BY ChangeSetsSound
<1>3. IsList(events) /\ \A e \in Range(events) : e.key \notin input.countries
  BY InputSound, EventsSound DEF Events
<1>4. DOMAIN told = DOMAIN events /\ told = [i \in DOMAIN told |-> told[i]]
      /\ \A i \in DOMAIN told : told[i] = AsItem(events[i])
  OBVIOUS
<1>5. Considered(ChangeSets, Events) = material \o told
  BY DEF Considered
<1>6. Cited = {c.evidence : c \in Range(FlattenSeq(ChangeSets)) \union Range(events)}
  BY DEF Cited
<1> HIDE DEF material, events, told
<1>7. IsList(told)
  BY <1>3, <1>4, Mapped
<1>8. \A item \in Range(told) : item.evidence \in Cited /\ item.key \notin input.countries
  <2>1. \A e : AsItem(e).evidence = e.evidence /\ AsItem(e).key = e.key
    BY DEF AsItem
  <2>2. ASSUME NEW i \in DOMAIN told
        PROVE  told[i].evidence \in Cited /\ told[i].key \notin input.countries
    <3>1. events[i] \in Range(events)
      BY <1>4 DEF Range
    <3>2. QED
      BY <1>3, <1>4, <1>6, <2>1, <3>1
  <2>3. QED
    BY <2>2 DEF Range
<1>9. \A item \in Range(material) : item.evidence \in Cited /\ item.key \notin input.countries
  BY <1>1, <1>2, <1>6
<1>10. IsList(material \o told) /\ Range(material \o told) = Range(material) \union Range(told)
  BY <1>1, <1>7, JoinedRange
<1>11. QED
  BY <1>5, <1>8, <1>9, <1>10

LEMMA PoolSound ==
  ASSUME input \in Inputs
  PROVE  IsList(Pool) /\ \A n \in DOMAIN Pool : Pool[n].evidence \in Cited
<1> DEFINE told == Considered(ChangeSets, Events)
           I == {i \in DOMAIN told : told[i].kind = "event" \/ told[i].category # "general"}
           telling == Those(told, I)
           texts == [i \in DOMAIN telling |-> telling[i].evidence.text]
           first == FirstOfEach(telling, texts)
<1>1. IsList(told) /\ \A item \in Range(told) : item.evidence \in Cited
  BY ConsideredSound
<1>2. Pool = AtMost(first, PoolLimit) /\ I \subseteq DOMAIN told
  BY DEF Pool, BuildEvidence
<1> HIDE DEF told, I
<1>3. IsList(telling) /\ Range(telling) \subseteq Range(told)
  BY <1>1, <1>2, ThoseRange
<1> HIDE DEF telling, texts
<1>4. IsList(first) /\ Range(first) \subseteq Range(telling)
  BY <1>3, FirstsSound
<1> HIDE DEF first
<1>5. IsList(AtMost(first, PoolLimit)) /\ Range(AtMost(first, PoolLimit)) \subseteq Range(first)
  BY <1>4, BeginsWith, IntelligenceAssumption
<1>6. QED
  BY <1>1, <1>2, <1>3, <1>4, <1>5 DEF Range

\* Each concern cites, and is never certain.
Grounds(concerns) ==
  \A c \in Range(concerns) :
    /\ c.evidence # {} /\ c.confidence <= MaxConfidence
    /\ c.evidence \subseteq Cited \union {GraphClaim(x) : x \in input.countries}

Distinct(concerns) ==
  \A i, j \in DOMAIN concerns :
    concerns[i].category = concerns[j].category /\ concerns[i].key = concerns[j].key => i = j

LEMMA CappedBound ==
  ASSUME NEW n \in Int
  PROVE  Capped(n) \in Int /\ Capped(n) <= MaxConfidence
BY DEF Capped, MaxConfidence

LEMMA RulesBase ==
  ASSUME NEW focus, NEW category \in DOMAIN Rules(focus)
  PROVE  Rules(focus)[category].base \in Int
<1>1. CASE focus = "opportunity"
  <2>1. Rules(focus) = OpportunityRules
    BY <1>1 DEF Rules
  <2>2. QED
    BY <2>1 DEF OpportunityRules, RuleOf
<1>2. CASE focus # "opportunity"
  <2>1. Rules(focus) = RiskRules
    BY <1>2 DEF Rules
  <2>2. category \in MaterialCategories
    BY <2>1 DEF RiskRules
  <2>3. RiskRules[category].base \in Int
    <3>1. CASE category \in {"guidance", "regulatory"}
      BY <2>2, <3>1 DEF RiskRules, RuleOf
    <3>2. CASE category \in {"litigation", "supply_chain"}
      BY <2>2, <3>2 DEF RiskRules, RuleOf
    <3>3. CASE category \in {"executive", "risk"}
      BY <2>2, <3>3 DEF RiskRules, RuleOf
    <3>4. CASE category \in {"capital_allocation", "m&a"}
      BY <2>2, <3>4 DEF RiskRules, RuleOf
    <3>5. CASE category = "product"
      BY <2>2, <3>5 DEF RiskRules, RuleOf
    <3>6. QED
      BY <2>2, <3>1, <3>2, <3>3, <3>4, <3>5 DEF MaterialCategories
  <2>4. QED
    BY <2>1, <2>3
<1>3. QED
  BY <1>1, <1>2

\* A finite set, as a list.
LEMMA Listing ==
  ASSUME NEW S, IsFiniteSet(S)
  PROVE  /\ IsList(SetToSeq(S)) /\ Range(SetToSeq(S)) \subseteq S
         /\ \A i, j \in DOMAIN SetToSeq(S) : SetToSeq(S)[i] = SetToSeq(S)[j] => i = j
<1> DEFINE n == Cardinality(S)
           s == SetToSeq(S)
<1>1. n \in Nat /\ ExistsBijection(1 .. n, S)
  BY FS_CardinalityType
<1>2. PICK f : f \in Bijection(1 .. n, S)
  BY <1>1 DEF ExistsBijection
<1>3. f \in [1 .. n -> S] /\ \A i, j \in 1 .. n : f[i] = f[j] => i = j
  BY <1>2 DEF Bijection, Injection, IsInjective
<1>4. IsInjective(f)
  BY <1>3 DEF IsInjective
<1>5. s \in [1 .. n -> S] /\ IsInjective(s)
  BY <1>3, <1>4 DEF SetToSeq
<1> HIDE DEF s, n
<1>6. s = [i \in 1 .. n |-> s[i]] /\ DOMAIN s = 1 .. n
  BY <1>5
<1>7. IsList(s)
  BY <1>1, <1>6, ListFrom
<1>8. QED
  BY <1>5, <1>6, <1>7 DEF s, IsInjective, Range

LEMMA GeopoliticalSound ==
  ASSUME input \in Inputs, NEW focus
  PROVE  LET geo == GeopoliticalConcerns(focus, input.countries)
         IN /\ IsList(geo) /\ Grounds(geo) /\ Distinct(geo)
            /\ \A c \in Range(geo) : c.key \in input.countries /\ c.confidence \in Int
<1> DEFINE geo == GeopoliticalConcerns(focus, input.countries)
           names == SetToSeq(input.countries)
<1>1. CASE focus # "risk"
  <2>1. geo = <<>>
    BY <1>1 DEF GeopoliticalConcerns
  <2>2. Grounds(<<>>) /\ Distinct(<<>>)
    BY ListOfNone DEF Grounds, Distinct
  <2>3. QED
    BY <2>1, <2>2, ListOfNone
<1>2. CASE focus = "risk"
  <2>1. /\ IsList(names) /\ Range(names) \subseteq input.countries
        /\ \A i, j \in DOMAIN names : names[i] = names[j] => i = j
    BY InputSound, Listing
  <2>2. geo = [i \in DOMAIN names |->
                 [category |-> "supply_chain", severity |-> "medium", confidence |-> 55,
                  key |-> names[i], evidence |-> {GraphClaim(names[i])}]]
    BY <1>2 DEF GeopoliticalConcerns
  <2>3. \A i \in DOMAIN names : names[i] \in input.countries
    BY <2>1 DEF Range
  <2> HIDE DEF names, geo
  <2>4. DOMAIN geo = DOMAIN names /\ geo = [i \in DOMAIN geo |-> geo[i]]
        /\ \A i \in DOMAIN geo : geo[i].key = names[i] /\ geo[i].confidence = 55 /\ geo[i].evidence = {GraphClaim(names[i])}
    BY <2>2
  <2>5. IsList(geo)
    BY <2>1, <2>4, Mapped
  <2>6. Distinct(geo)
    BY <2>1, <2>4 DEF Distinct
  <2>7. ASSUME NEW c \in Range(geo)
        PROVE  /\ c.key \in input.countries /\ c.confidence \in Int
               /\ c.evidence # {} /\ c.confidence <= MaxConfidence
               /\ c.evidence \subseteq Cited \union {GraphClaim(x) : x \in input.countries}
    <3>1. PICK i \in DOMAIN geo : c = geo[i]
      BY DEF Range
    <3>2. names[i] \in input.countries /\ c.key = names[i] /\ c.confidence = 55 /\ c.evidence = {GraphClaim(names[i])}
      BY <2>3, <2>4, <3>1
    <3>3. 55 \in Int /\ 55 <= MaxConfidence
      BY DEF MaxConfidence
    <3>4. QED
      BY <3>2, <3>3
  <2>8. QED
    BY <2>5, <2>6, <2>7 DEF geo, Grounds
<1>3. QED
  BY <1>1, <1>2

\* Rearranging keeps what is true of each and of any two.
LEMMA RearrangedSound ==
  ASSUME NEW s, NEW t, Picks(t, s, DOMAIN s), Grounds(s), Distinct(s)
  PROVE  Grounds(t) /\ Distinct(t)
<1>1. PICK at : /\ \A k \in DOMAIN t : at[k] \in DOMAIN s /\ t[k] = s[at[k]]
                /\ \A k, l \in DOMAIN t : at[k] = at[l] => k = l
  BY DEF Picks
<1>2. Range(t) \subseteq Range(s)
  BY <1>1 DEF Range
<1>3. Grounds(t)
  BY <1>2 DEF Grounds
<1>4. Distinct(t)
  BY <1>1 DEF Distinct
<1>5. QED
  BY <1>3, <1>4

LEMMA ReferenceSound ==
  ASSUME input \in Inputs, NEW focus
  PROVE  LET concerns == ReferenceConcerns(focus, ChangeSets, Events, input.countries)
         IN Grounds(concerns) /\ Distinct(concerns)
<1> DEFINE told == Considered(ChangeSets, Events)
           I == {i \in DOMAIN told : told[i].category \in DOMAIN Rules(focus)}
           ruled == Those(told, I)
           keys == [i \in DOMAIN ruled |-> ConcernKey(ruled[i])]
           first == FirstOfEach(ruled, keys)
           bonus(i) == IF first[i].kind = "added" THEN 5 ELSE 0
           judged == [i \in DOMAIN first |->
                     [category |-> first[i].category, severity |-> Rules(focus)[first[i].category].severity,
                      key |-> first[i].key, confidence |-> Capped(Rules(focus)[first[i].category].base + bonus(i)),
                      evidence |-> {first[i].evidence}]]
           geo == GeopoliticalConcerns(focus, input.countries)
           all == judged \o geo
           rank == [i \in DOMAIN all |-> (MaxConfidence + 1) * Rank(Severities, all[i].severity) - all[i].confidence]
           Concern(c) == /\ c.evidence # {} /\ c.confidence <= MaxConfidence /\ c.confidence \in Int
                         /\ c.evidence \subseteq Cited \union {GraphClaim(x) : x \in input.countries}
<1>1. IsList(told) /\ \A item \in Range(told) : item.evidence \in Cited /\ item.key \notin input.countries
  BY ConsideredSound
<1>2. I \subseteq DOMAIN told /\ \A i \in I : told[i].category \in DOMAIN Rules(focus) /\ told[i] \in Range(told)
  BY DEF Range
<1>3. ReferenceConcerns(focus, ChangeSets, Events, input.countries) = Sorted(all, rank)
  BY DEF ReferenceConcerns
<1> HIDE DEF told, I
<1>4. IsList(ruled) /\ Range(ruled) = {told[i] : i \in I}
  BY <1>1, <1>2, ThoseRange
<1>5. \A item \in Range(ruled) : /\ item.evidence \in Cited /\ item.key \notin input.countries
                                 /\ item.category \in DOMAIN Rules(focus)
  BY <1>1, <1>2, <1>4
<1>6. \A i \in DOMAIN ruled : keys[i] = ConcernKey(ruled[i])
  OBVIOUS
<1> HIDE DEF ruled, keys
<1>7. /\ IsList(first) /\ Range(first) \subseteq Range(ruled)
      /\ \E at : /\ \A k \in DOMAIN first : at[k] \in DOMAIN ruled /\ first[k] = ruled[at[k]]
                 /\ \A k, l \in DOMAIN first : keys[at[k]] = keys[at[l]] => k = l
  BY <1>4, FirstsSound
<1> HIDE DEF first
<1>8. \A k, l \in DOMAIN first : ConcernKey(first[k]) = ConcernKey(first[l]) => k = l
  BY <1>6, <1>7
<1>9. \A k \in DOMAIN first : first[k].evidence \in Cited /\ first[k].key \notin input.countries
                              /\ first[k].category \in DOMAIN Rules(focus)
  BY <1>5, <1>7 DEF Range
<1>10. DOMAIN judged = DOMAIN first /\ judged = [i \in DOMAIN judged |-> judged[i]]
  OBVIOUS
<1>11. \A i \in DOMAIN first :
         /\ judged[i].category = first[i].category /\ judged[i].key = first[i].key /\ judged[i].evidence = {first[i].evidence}
         /\ judged[i].confidence = Capped(Rules(focus)[first[i].category].base + bonus(i))
  OBVIOUS
<1>12. \A i \in DOMAIN first : bonus(i) \in Int
  OBVIOUS
<1> HIDE DEF judged, bonus
<1>13. \A i \in DOMAIN first : judged[i].confidence \in Int /\ judged[i].confidence <= MaxConfidence
  <2> SUFFICES ASSUME NEW i \in DOMAIN first
               PROVE  judged[i].confidence \in Int /\ judged[i].confidence <= MaxConfidence
    OBVIOUS
  <2>1. Rules(focus)[first[i].category].base \in Int
    BY <1>9, RulesBase
  <2>2. Rules(focus)[first[i].category].base + bonus(i) \in Int
    BY <1>12, <2>1
  <2>3. QED
    BY <1>11, <2>2, CappedBound
<1>14. IsList(judged)
  BY <1>7, <1>10, Mapped
<1>15. \A i \in DOMAIN judged : Concern(judged[i]) /\ judged[i].key \notin input.countries
  <2> SUFFICES ASSUME NEW i \in DOMAIN judged
               PROVE  Concern(judged[i]) /\ judged[i].key \notin input.countries
    OBVIOUS
  <2>1. i \in DOMAIN first
    BY <1>10
  <2>2. judged[i].evidence = {first[i].evidence} /\ first[i].evidence \in Cited
    BY <1>9, <1>11, <2>1
  <2>3. judged[i].evidence # {} /\ judged[i].evidence \subseteq Cited \union {GraphClaim(x) : x \in input.countries}
    BY <2>2
  <2>4. judged[i].key \notin input.countries
    BY <1>9, <1>11, <2>1
  <2>5. judged[i].confidence \in Int /\ judged[i].confidence <= MaxConfidence
    BY <1>13, <2>1
  <2>6. QED
    BY <2>3, <2>4, <2>5
<1>16. \A i, j \in DOMAIN judged : judged[i].category = judged[j].category /\ judged[i].key = judged[j].key => i = j
  BY <1>8, <1>10, <1>11 DEF ConcernKey
<1>17. /\ IsList(geo) /\ Grounds(geo) /\ Distinct(geo)
       /\ \A c \in Range(geo) : c.key \in input.countries /\ c.confidence \in Int
  BY GeopoliticalSound
<1> HIDE DEF geo, Concern
<1>18. \A c \in Range(geo) : Concern(c) /\ c.key \in input.countries
  BY <1>17 DEF Concern, Grounds
<1>19. /\ IsList(all) /\ Range(all) = Range(judged) \union Range(geo)
       /\ DOMAIN all = 1 .. Len(judged) + Len(geo) /\ Len(judged) \in Nat /\ Len(geo) \in Nat
       /\ \A k \in 1 .. Len(judged) : all[k] = judged[k]
       /\ \A k \in DOMAIN all : k > Len(judged) => all[k] = geo[k - Len(judged)] /\ k - Len(judged) \in 1 .. Len(geo)
  BY <1>14, <1>17, Joined
<1> HIDE DEF all
<1>20. \A c \in Range(all) : Concern(c)
  BY <1>15, <1>18, <1>19 DEF Range
<1>21. Grounds(all) /\ \A i \in DOMAIN all : all[i].confidence \in Int
  BY <1>20 DEF Grounds, Concern, Range
<1>22. Distinct(all)
  <2> SUFFICES ASSUME NEW i \in DOMAIN all, NEW j \in DOMAIN all,
                      all[i].category = all[j].category, all[i].key = all[j].key
               PROVE  i = j
    BY DEF Distinct
  <2>1. DOMAIN judged = 1 .. Len(judged) /\ DOMAIN geo = 1 .. Len(geo) /\ i \in Int /\ j \in Int
    BY <1>14, <1>17, <1>19, ListDomain
  <2>2. ASSUME NEW k \in DOMAIN all
        PROVE  \/ k \in DOMAIN judged /\ all[k] = judged[k] /\ all[k].key \notin input.countries
               \/ k > Len(judged) /\ k - Len(judged) \in DOMAIN geo /\ all[k] = geo[k - Len(judged)]
                  /\ all[k].key \in input.countries
    <3>1. CASE k <= Len(judged)
      <4>1. k \in 1 .. Len(judged)
        BY <1>19, <3>1
      <4>2. QED
        BY <1>15, <1>19, <2>1, <4>1
    <3>2. CASE k > Len(judged)
      <4>1. k - Len(judged) \in DOMAIN geo /\ all[k] = geo[k - Len(judged)]
        BY <1>19, <2>1, <3>2
      <4>2. geo[k - Len(judged)] \in Range(geo)
        BY <4>1 DEF Range
      <4>3. QED
        BY <1>18, <3>2, <4>1, <4>2
    <3>3. QED
      BY <1>19, <3>1, <3>2
  <2>3. CASE i \in DOMAIN judged /\ all[i] = judged[i] /\ all[i].key \notin input.countries
    <3>1. j \in DOMAIN judged /\ all[j] = judged[j]
      BY <2>2, <2>3
    <3>2. QED
      BY <1>16, <2>3, <3>1
  <2>4. CASE i > Len(judged) /\ i - Len(judged) \in DOMAIN geo /\ all[i] = geo[i - Len(judged)] /\ all[i].key \in input.countries
    <3>1. j > Len(judged) /\ j - Len(judged) \in DOMAIN geo /\ all[j] = geo[j - Len(judged)]
      BY <2>2, <2>4
    <3>2. i - Len(judged) = j - Len(judged)
      BY <1>17, <2>4, <3>1 DEF Distinct
    <3>3. QED
      BY <1>19, <2>1, <3>2
  <2>5. QED
    BY <2>2, <2>3, <2>4
<1>23. \A i \in DOMAIN all : rank[i] \in Int
  <2>1. IsList(Severities)
    <3>1. Severities \in Seq(Range(Severities))
      BY DEF Severities, Range
    <3>2. QED
      BY <3>1 DEF IsList
  <2>2. \A x : Rank(Severities, x) \in Int
    <3>1. Len(Severities) \in Int
      BY <2>1, ListDomain
    <3>2. QED
      BY <2>1, <3>1, RankNumber
  <2>3. MaxConfidence \in Int
    BY DEF MaxConfidence
  <2>4. QED
    BY <1>21, <2>2, <2>3
<1> HIDE DEF rank
<1>24. Picks(Sorted(all, rank), all, DOMAIN all)
  BY <1>19, <1>23, SortedSound
<1>25. QED
  BY <1>3, <1>21, <1>22, <1>24, RearrangedSound

\* What a model says is kept with the evidence it names, whatever else it says.
LEMMA LlmSound ==
  ASSUME input \in Inputs, NEW raws, IsList(raws), \A n \in DOMAIN raws : raws[n].confidence \in Int
  PROVE  Grounds(LlmConcerns(raws, Pool))
<1> DEFINE pool == Pool
           first == AtMost(raws, 6)
           I == {i \in DOMAIN first : Grounded(first[i], pool)}
           kept == Those(first, I)
           t == LlmConcerns(raws, pool)
<1>1. IsList(pool) /\ \A n \in DOMAIN pool : pool[n].evidence \in Cited
  BY PoolSound
<1>2. I \subseteq DOMAIN first
  OBVIOUS
<1>3. t = [i \in DOMAIN kept |->
             [severity |-> IF kept[i].severity \in Range(Severities) THEN kept[i].severity ELSE "medium",
              confidence |-> Capped(IF kept[i].confidence < 0 THEN 0 ELSE kept[i].confidence),
              evidence |-> {pool[n].evidence : n \in kept[i].ids \intersect DOMAIN pool}]]
  BY DEF LlmConcerns
<1>4. \A i \in I : first[i].ids \intersect DOMAIN pool # {}
  BY DEF Grounded
<1> HIDE DEF pool, I, first
<1>5. IsList(first) /\ \A k \in DOMAIN first : k \in DOMAIN raws /\ first[k] = raws[k]
  BY BeginsWith DEF first
<1>6. IsList(kept) /\ Range(kept) = {first[i] : i \in I}
  BY <1>2, <1>5, ThoseRange
<1> HIDE DEF kept, t
<1>7. \A k \in DOMAIN kept : kept[k].ids \intersect DOMAIN pool # {} /\ kept[k].confidence \in Int
  <2> SUFFICES ASSUME NEW k \in DOMAIN kept
               PROVE  kept[k].ids \intersect DOMAIN pool # {} /\ kept[k].confidence \in Int
    OBVIOUS
  <2>1. PICK i \in I : kept[k] = first[i]
    BY <1>6 DEF Range
  <2>2. QED
    BY <1>2, <1>4, <1>5, <2>1
<1>8. ASSUME NEW c \in Range(t)
      PROVE  /\ c.evidence # {} /\ c.confidence <= MaxConfidence
             /\ c.evidence \subseteq Cited
  <2>1. PICK k \in DOMAIN kept :
          /\ c.confidence = Capped(IF kept[k].confidence < 0 THEN 0 ELSE kept[k].confidence)
          /\ c.evidence = {pool[n].evidence : n \in kept[k].ids \intersect DOMAIN pool}
    BY <1>3 DEF Range
  <2>2. c.evidence # {} /\ c.evidence \subseteq Cited
    BY <1>1, <1>7, <2>1
  <2>3. (IF kept[k].confidence < 0 THEN 0 ELSE kept[k].confidence) \in Int
    BY <1>7
  <2>4. QED
    BY <2>1, <2>2, <2>3, CappedBound
<1>9. Grounds(t)
  BY <1>8 DEF Grounds
<1>10. QED
  BY <1>9 DEF t, pool

-----------------------------------------------------------------------------
(* Diffs, summaries, signals, reliability. *)

LEMMA DiffsSound ==
  ASSUME input \in Inputs
  PROVE  DiffsExplainTheChange
<1> SUFFICES ASSUME input.previous # <<>>
             PROVE  DiffsExplainTheChange
  BY DEF DiffsExplainTheChange
<1> DEFINE current == input.current
           previous == input.previous[1]
           added == Range(OneSided("added", current, previous))
           removed == Range(OneSided("removed", previous, current))
           changes == Range(Diff(current, previous))
           of(kind) == {c.key : c \in {x \in changes : x.kind = kind}}
<1>1. IsDisclosure(current, input.countries) /\ IsDisclosure(previous, input.countries)
  BY InputSound
<1>2. changes = added \union removed
  BY <1>1, DiffSound
<1>3. /\ \A c \in added : c.kind = "added" /\ c.evidence.document = current.id /\ c.key \in Stated(current) \ Stated(previous)
      /\ \A key \in Stated(current) \ Stated(previous) : \E c \in added : c.key = key
  BY <1>1, OneSidedSound
<1>4. /\ \A c \in removed : c.kind = "removed" /\ c.evidence.document = previous.id /\ c.key \in Stated(previous) \ Stated(current)
      /\ \A key \in Stated(previous) \ Stated(current) : \E c \in removed : c.key = key
  BY <1>1, OneSidedSound
<1> HIDE DEF current, previous, added, removed, changes
<1>5. of("added") = Stated(current) \ Stated(previous)
  BY <1>2, <1>3, <1>4
<1>6. of("removed") = Stated(previous) \ Stated(current)
  BY <1>2, <1>3, <1>4
<1>7. \A c \in changes : c.evidence.document = (IF c.kind = "added" THEN current ELSE previous).id
  BY <1>2, <1>3, <1>4
<1> HIDE DEF of
<1>8. /\ (Stated(previous) \ of("removed")) \union of("added") = Stated(current)
      /\ of("added") \intersect Stated(previous) = {} /\ of("removed") \intersect Stated(current) = {}
  BY <1>5, <1>6
<1>9. QED
  BY <1>7, <1>8 DEF DiffsExplainTheChange, current, previous, changes, of

LEMMA CuesKnown ==
  ASSUME NEW b \in DOMAIN Buckets, NEW c \in Buckets[b]
  PROVE  \E i \in DOMAIN CategoryCues : CategoryCues[i] = c
<1>1. /\ DOMAIN CategoryCues = 1 .. 11
      /\ CategoryCues[1] = "executive" /\ CategoryCues[2] = "m&a" /\ CategoryCues[3] = "capital_allocation"
      /\ CategoryCues[4] = "litigation" /\ CategoryCues[5] = "regulatory" /\ CategoryCues[6] = "supply_chain"
      /\ CategoryCues[7] = "guidance" /\ CategoryCues[8] = "product" /\ CategoryCues[9] = "financial"
      /\ CategoryCues[10] = "opportunity" /\ CategoryCues[11] = "risk"
  BY DEF CategoryCues
<1>2. c \in {"executive", "m&a", "capital_allocation", "litigation", "regulatory", "supply_chain",
             "guidance", "product", "financial", "opportunity", "risk"}
  BY DEF Buckets
<1>3. {1, 2, 3, 4, 5, 6, 7, 8, 9, 10, 11} \subseteq 1 .. 11
  OBVIOUS
<1>4. QED
  BY <1>1, <1>2, <1>3

\* The category a sentence is filed under is one of those it was filed for.
LEMMA FirstCueSound ==
  ASSUME NEW b \in DOMAIN Buckets, NEW asked \in SUBSET Buckets[b], asked # {}
  PROVE  FirstCue(asked) \in asked
<1> DEFINE cues == CategoryCues
           I == {i \in DOMAIN cues : cues[i] \in asked}
           named == Those(cues, I)
<1>1. IsList(cues)
  <2>1. CategoryCues \in Seq(Range(CategoryCues))
    BY DEF CategoryCues, Range
  <2>2. QED
    BY <2>1 DEF IsList
<1>2. PICK i \in I : TRUE
  <2>1. PICK c \in asked : c \in Buckets[b]
    OBVIOUS
  <2>2. QED
    BY <2>1, CuesKnown
<1>3. FirstCue(asked) = IF named = <<>> THEN "general" ELSE named[1]
  BY DEF FirstCue
<1>4. I \subseteq DOMAIN cues /\ \A j \in I : cues[j] \in asked
  OBVIOUS
<1> HIDE DEF cues, I
<1>5. IsList(named) /\ Range(named) = {cues[j] : j \in I}
  BY <1>1, <1>4, ThoseRange
<1> HIDE DEF named
<1>6. DOMAIN named # {}
  BY <1>2, <1>5 DEF Range
<1>7. 1 \in DOMAIN named /\ named # <<>>
  BY <1>5, <1>6, ListDomain
<1>8. named[1] \in asked
  BY <1>4, <1>5, <1>7 DEF Range
<1>9. QED
  BY <1>3, <1>7, <1>8

LEMMA BucketSound ==
  ASSUME NEW d, NEW countries, IsDisclosure(d, countries), NEW b \in DOMAIN Buckets,
         NEW claim \in Range(Bucket(d, b))
  PROVE  \E row \in Range(Prose(d)) :
           /\ row.section = claim.section /\ row.sentence.text = claim.text
           /\ \/ claim.category \in Buckets[b] \intersect row.sentence.cats
              \/ Cued(b, row) /\ row.sentence.cats \intersect Buckets[b] = {}
<1> DEFINE prose == Prose(d)
           Fits(row) == row.sentence.cats \intersect Buckets[b] # {} \/ Cued(b, row)
           I == {i \in DOMAIN prose : Fits(prose[i])}
           fitting == Those(prose, I)
           texts == [i \in DOMAIN fitting |-> fitting[i].sentence.text]
           first == FirstOfEach(fitting, texts)
           lines == AtMost(first, MaxPerBucket)
<1>1. IsList(prose)
  BY ProseSound
<1>2. I \subseteq DOMAIN prose /\ \A i \in I : Fits(prose[i])
  OBVIOUS
<1>3. Bucket(d, b) = [i \in DOMAIN lines |-> Claim(d, lines[i], BucketCategory(b, lines[i]))]
  BY DEF Bucket
<1> HIDE DEF prose, I, Fits
<1>4. IsList(fitting) /\ Range(fitting) = {prose[i] : i \in I}
  BY <1>1, <1>2, ThoseRange
<1> HIDE DEF fitting, texts
<1>5. IsList(first) /\ Range(first) \subseteq Range(fitting)
  BY <1>4, FirstsSound
<1> HIDE DEF first
<1>6. IsList(lines) /\ Range(lines) \subseteq Range(first)
  BY <1>5, BeginsWith, IntelligenceAssumption
<1> HIDE DEF lines
<1>7. PICK row \in Range(lines) : claim = Claim(d, row, BucketCategory(b, row))
  BY <1>3 DEF Range
<1>8. row \in Range(prose) /\ Fits(row)
  BY <1>2, <1>4, <1>5, <1>6, <1>7 DEF Range
<1>9. claim.section = row.section /\ claim.text = row.sentence.text /\ claim.category = BucketCategory(b, row)
  BY <1>7 DEF Claim
<1>10. CASE row.sentence.cats \intersect Buckets[b] # {}
  <2> DEFINE asked == row.sentence.cats \intersect Buckets[b]
  <2>1. FirstCue(asked) \in asked
    BY <1>10, FirstCueSound
  <2>2. BucketCategory(b, row) = FirstCue(asked)
    BY <1>10 DEF BucketCategory
  <2>3. QED
    BY <1>8, <1>9, <2>1, <2>2 DEF prose
<1>11. CASE row.sentence.cats \intersect Buckets[b] = {}
  BY <1>8, <1>9, <1>11 DEF Fits, prose
<1>12. QED
  BY <1>10, <1>11

LEMMA QuotesSound ==
  ASSUME input \in Inputs
  PROVE  SummariesQuote
<1>1. IsDisclosure(input.current, input.countries)
  BY InputSound
<1>2. \A b \in DOMAIN Buckets : Summarise(input.current).buckets[b] = Bucket(input.current, b)
  BY DEF Summarise
<1>3. QED
  BY <1>1, <1>2, BucketSound DEF SummariesQuote

\* A risk emerges only from something new, and no signal is ever certain.
LEMMA SignalsSound ==
  ASSUME input \in Inputs
  PROVE  SignalsHaveCause
<1> DEFINE countries == input.countries
           changes == MaterialOf(ChangeSets)
           all == Range(FlattenSeq(ChangeSets))
           told == Events
           fresh == Emerging(changes)
           risky == {i \in DOMAIN told : told[i].category \in RiskKinds}
           risks == Cardinality(fresh) + Cardinality(risky)
           signals == Signals(ChangeSets, told, countries, {"patent"})
           new == {c \in all : c.kind = "added"} \union Range(told)
           Of(category) == {c \in Range(changes) : c.category = category}
           lowered == \E c \in Of("guidance") : c.evidence.text = "lowered"
<1>1. IsFiniteSet(countries) /\ Cardinality(countries) \in Nat
  BY InputSound, FS_CardinalityType
<1>2. IsList(changes) /\ Range(changes) \subseteq all
  BY MaterialSound
<1>3. IsList(told)
  BY InputSound, EventsSound DEF Events
<1>4. fresh \subseteq DOMAIN changes /\ \A i \in fresh : changes[i].category \in RiskKinds /\ changes[i].kind = "added"
  BY DEF Emerging
<1>5. risky \subseteq DOMAIN told /\ \A i \in risky : told[i].category \in RiskKinds
  OBVIOUS
<1>6. \A s \in signals :
        \/ s.strength = Capped(IF lowered THEN 62 ELSE 55) /\ s.type = "management_confidence"
        \/ s.strength = Capped(55 + 5 * (IF risks < 3 THEN risks ELSE 3)) /\ s.type = "emerging_risk" /\ risks # 0
        \/ s.strength = Capped(60) /\ s.type = "supply_chain_stress"
        \/ s.strength = Capped(50) /\ s.type = "patent_momentum"
        \/ s.strength = Capped(55) /\ s.type = "capital_allocation"
        \/ s.strength = Capped(50 + 5 * Cardinality(countries)) /\ s.type = "geopolitical"
  BY DEF Signals
<1> HIDE DEF changes, all, told, fresh, risky, signals, countries, lowered
<1>7. IsFiniteSet(fresh) /\ IsFiniteSet(risky) /\ Cardinality(fresh) \in Nat /\ Cardinality(risky) \in Nat
  BY <1>2, <1>3, <1>4, <1>5, ListDomain, FS_Subset, FS_CardinalityType
<1>8. risks \in Nat /\ (risks # 0 => fresh # {} \/ risky # {})
  <2>1. (fresh = {} => Cardinality(fresh) = 0) /\ (risky = {} => Cardinality(risky) = 0)
    BY FS_EmptySet
  <2>2. QED
    BY <1>7, <2>1
<1> HIDE DEF risks
<1>9. \A s \in signals : s.strength <= MaxConfidence
  <2>1. /\ Capped(IF lowered THEN 62 ELSE 55) <= MaxConfidence
        /\ Capped(60) <= MaxConfidence /\ Capped(50) <= MaxConfidence /\ Capped(55) <= MaxConfidence
    BY DEF Capped, MaxConfidence
  <2>2. 55 + 5 * (IF risks < 3 THEN risks ELSE 3) \in Int /\ 50 + 5 * Cardinality(countries) \in Int
    BY <1>1, <1>8
  <2>3. /\ Capped(55 + 5 * (IF risks < 3 THEN risks ELSE 3)) <= MaxConfidence
        /\ Capped(50 + 5 * Cardinality(countries)) <= MaxConfidence
    BY <2>2, CappedBound
  <2>4. QED
    BY <1>6, <2>1, <2>3
<1>10. ASSUME NEW s \in signals, s.type = "emerging_risk"
       PROVE  \E c \in new : c.category \in RiskKinds
  <2>1. fresh # {} \/ risky # {}
    BY <1>6, <1>8, <1>10
  <2>2. CASE fresh # {}
    <3>1. PICK i \in fresh : TRUE
      BY <2>2
    <3>2. changes[i] \in all /\ changes[i].category \in RiskKinds /\ changes[i].kind = "added"
      BY <1>2, <1>4, <3>1 DEF Range
    <3>3. QED
      BY <3>2
  <2>3. CASE risky # {}
    <3>1. PICK i \in risky : TRUE
      BY <2>3
    <3>2. told[i] \in Range(told) /\ told[i].category \in RiskKinds
      BY <1>5, <3>1 DEF Range
    <3>3. QED
      BY <3>2
  <2>4. QED
    BY <2>1, <2>2, <2>3
<1>11. QED
  BY <1>9, <1>10 DEF SignalsHaveCause, signals, told, all, countries

\* Another failed attempt never makes a source look better.
LEMMA FailuresSound ==
  ASSUME input \in Inputs
  PROVE  FailuresNeverHelp
<1> SUFFICES ASSUME input.previous # <<>>,
                    NEW authority \in {0, 50, 100}, NEW errors \in 0 .. 3
             PROVE  LET documents == <<input.current>> \o input.previous
                    IN /\ ScoreSource(authority, documents, errors + 1).score <= ScoreSource(authority, documents, errors).score
                       /\ ScoreSource(authority, <<>>, errors).score <= authority \div 2
  BY DEF FailuresNeverHelp
<1> DEFINE documents == <<input.current>> \o input.previous
           structured == {i \in DOMAIN documents : Len(documents[i].sections) >= 2}
           dated == {i \in DOMAIN documents : documents[i].dated}
           a == (100 * Cardinality(structured)) \div 2
           b == (100 * Cardinality(dated)) \div 2
           Score(rate) == (50 * authority + 20 * a + 15 * b + 15 * rate) \div 100
<1>1. IsList(documents) /\ Len(documents) = 2
  <2>1. IsList(<<input.current>>) /\ Len(<<input.current>>) = 1
    BY ListOfOne
  <2>2. input.previous = <<input.previous[1]>>
    BY InputSound
  <2>3. IsList(input.previous) /\ Len(input.previous) = 1
    <3>1. IsList(<<input.previous[1]>>) /\ Len(<<input.previous[1]>>) = 1
      BY ListOfOne
    <3>2. QED
      BY <2>2, <3>1
  <2> DEFINE one == <<input.current>>
  <2> HIDE DEF one
  <2>4. DOMAIN documents = 1 .. 2 /\ IsList(documents)
    <3>1. IsList(one) /\ Len(one) = 1 /\ documents = one \o input.previous
      BY <2>1 DEF one
    <3>2. /\ IsList(one \o input.previous)
          /\ DOMAIN (one \o input.previous) = 1 .. Len(one) + Len(input.previous)
      BY <2>3, <3>1, Joined
    <3> HIDE DEF documents
    <3>3. Len(one) + Len(input.previous) = 2
      BY <2>3, <3>1
    <3>4. DOMAIN (one \o input.previous) = 1 .. 2
      BY <3>2, <3>3, Zenon
    <3>5. QED
      BY <3>1, <3>2, <3>4, Zenon
  <2> HIDE DEF documents
  <2>5. Len(documents) \in Nat /\ DOMAIN documents = 1 .. Len(documents)
    BY <2>4, ListDomain
  <2>6. QED
    BY <2>4, <2>5
<1>2. ASSUME NEW e \in Nat
      PROVE  ScoreSource(authority, documents, e).score = Score(SuccessRate(2, 2 + e))
  <2> DEFINE Rated(have) == IF 2 = 0 THEN 0 ELSE (100 * Cardinality(have)) \div 2
  <2>1. ScoreSource(authority, documents, e).score =
          (50 * authority + 20 * Rated(structured) + 15 * Rated(dated) + 15 * SuccessRate(2, 2 + e)) \div 100
    BY <1>1 DEF ScoreSource
  <2>2. Rated(structured) = a /\ Rated(dated) = b
    OBVIOUS
  <2>3. QED
    BY <2>1, <2>2
<1>3. Cardinality(structured) \in Nat /\ Cardinality(dated) \in Nat
  <2>1. structured \subseteq DOMAIN documents /\ dated \subseteq DOMAIN documents /\ IsFiniteSet(DOMAIN documents)
    BY <1>1, ListDomain
  <2>2. QED
    BY <2>1, FS_Subset, FS_CardinalityType
<1> HIDE DEF documents, structured, dated
<1>4. a \in Int /\ b \in Int
  BY <1>3
<1> HIDE DEF a, b
<1>5. \A r, s \in Int : r <= s => Score(r) <= Score(s)
  <2> SUFFICES ASSUME NEW r \in Int, NEW s \in Int, r <= s
               PROVE  Score(r) <= Score(s)
    OBVIOUS
  <2> DEFINE x == 50 * authority + 20 * a + 15 * b + 15 * r
             y == 50 * authority + 20 * a + 15 * b + 15 * s
  <2>1. x \in Int /\ y \in Int /\ x <= y
    BY <1>4
  <2> HIDE DEF x, y
  <2>2. x \div 100 <= y \div 100
    BY <2>1
  <2>3. QED
    BY <2>2 DEF x, y
<1> HIDE DEF Score
<1>6. /\ SuccessRate(2, 2 + 0) = 100 /\ SuccessRate(2, 2 + 1) = 66 /\ SuccessRate(2, 2 + 2) = 50
      /\ SuccessRate(2, 2 + 3) = 40 /\ SuccessRate(2, 2 + 4) = 33
  BY DEF SuccessRate
<1>7. SuccessRate(2, 2 + (errors + 1)) \in Int /\ SuccessRate(2, 2 + errors) \in Int
      /\ SuccessRate(2, 2 + (errors + 1)) <= SuccessRate(2, 2 + errors)
  <2>1. errors = 0 \/ errors = 1 \/ errors = 2 \/ errors = 3
    OBVIOUS
  <2>2. CASE errors = 0
    BY <1>6, <2>2
  <2>3. CASE errors = 1
    BY <1>6, <2>3
  <2>4. CASE errors = 2
    BY <1>6, <2>4
  <2>5. CASE errors = 3
    BY <1>6, <2>5
  <2>6. QED
    BY <2>1, <2>2, <2>3, <2>4, <2>5
<1>8. ScoreSource(authority, documents, errors + 1).score <= ScoreSource(authority, documents, errors).score
  <2>1. errors \in Nat /\ errors + 1 \in Nat
    OBVIOUS
  <2>2. QED
    BY <1>2, <1>5, <1>7, <2>1
<1>9. ScoreSource(authority, <<>>, errors).score <= authority \div 2
  <2>1. Len(<<>>) = 0 /\ SuccessRate(0, 0 + errors) = 0
    <3>1. CASE errors = 0
      BY <3>1 DEF SuccessRate
    <3>2. CASE errors # 0
      <4>1. errors \in Nat \ {0} /\ 0 \div errors = 0
        BY <3>2
      <4>2. QED
        BY <3>2, <4>1 DEF SuccessRate
    <3>3. QED
      BY <3>1, <3>2
  <2>2. ScoreSource(authority, <<>>, errors).score = (50 * authority + 20 * 0 + 15 * 0 + 15 * 0) \div 100
    BY <2>1 DEF ScoreSource
  <2>3. QED
    BY <2>2
<1>10. QED
  BY <1>8, <1>9 DEF documents

-----------------------------------------------------------------------------
(* What the threads report, whatever is configured meanwhile. *)

\* A report has what it was made with; the disclosures do not change under it.
Reported(task) ==
  /\ task.op \in {"waits", "asks", "report", "raised"}
  /\ task.op = "report" => Grounds(task.concerns) /\ (task.by = "reference" => Distinct(task.concerns))

AnalysesInv ==
  /\ input \in Inputs /\ DOMAIN analyses = Analysts
  /\ \A n \in Analysts : Reported(analyses[n])
  /\ file.state = "saved" => file.route \in Providers
  /\ \A a \in Admins : updates[a].op # "waits" => updates[a].config.route \in Providers

LEMMA InitAnalysesInv == LlmInit => AnalysesInv
<1>1. Waits.op = "waits"
  BY DEF Waits
<1>2. QED
  BY <1>1 DEF LlmInit, AnalysesInv, Reported

LEMMA SameInput ==
  ASSUME UNCHANGED input
  PROVE  /\ \A concerns : Grounds(concerns) => Grounds(concerns)'
         /\ \A concerns : Distinct(concerns) => Distinct(concerns)'
         /\ \A task : Reported(task) => Reported(task)'
<1>1. Cited' = Cited
  BY DEF Cited, ChangeSets, Events
<1>2. \A concerns : Grounds(concerns) => Grounds(concerns)'
  BY <1>1 DEF Grounds
<1>3. \A concerns : Distinct(concerns) => Distinct(concerns)'
  BY DEF Distinct
<1>4. \A task : Reported(task) => Reported(task)'
  BY <1>2, <1>3 DEF Reported
<1>5. QED
  BY <1>2, <1>3, <1>4

\* A step of one analyst that leaves the configuration alone.
LEMMA OneAnalyst ==
  ASSUME AnalysesInv, UNCHANGED <<file, updates, input>>, NEW n \in Analysts, NEW task, Reported(task),
         analyses' = [analyses EXCEPT ![n] = task]
  PROVE  AnalysesInv'
<1>1. /\ DOMAIN analyses' = Analysts /\ analyses'[n] = task
      /\ \A m \in Analysts : m # n => analyses'[m] = analyses[m]
  BY DEF AnalysesInv
<1>2. \A m \in Analysts : Reported(analyses'[m])
  BY <1>1 DEF AnalysesInv
<1>3. \A m \in Analysts : Reported(analyses[m])'
  BY <1>2, SameInput
<1>4. QED
  BY <1>1, <1>3 DEF AnalysesInv

\* The analyst's own report.
LEMMA FallsBack ==
  ASSUME AnalysesInv, UNCHANGED <<file, updates, input>>, NEW n \in Analysts, FallBack(n)
  PROVE  AnalysesInv'
<1> DEFINE concerns == ReferenceConcerns(Focus(input.question), ChangeSets, Events, input.countries)
           task == [op |-> "report", by |-> "reference", concerns |-> concerns]
<1>1. Grounds(concerns) /\ Distinct(concerns)
  BY ReferenceSound DEF AnalysesInv
<1>2. analyses' = [analyses EXCEPT ![n] = task]
  BY DEF FallBack, Reply
<1> HIDE DEF concerns
<1>3. Reported(task)
  BY <1>1 DEF Reported
<1>4. QED
  BY <1>2, <1>3, OneAnalyst

LEMMA AskAnalystKeeps ==
  ASSUME AnalysesInv, NEW n \in Analysts, AskAnalyst(n)
  PROVE  AnalysesInv'
<1>1. UNCHANGED <<file, updates, input>>
  BY DEF AskAnalyst
<1>2. CASE analyses' = [analyses EXCEPT ![n] = [op |-> "asks"]]
  <2>1. Reported([op |-> "asks"])
    BY DEF Reported
  <2>2. QED
    BY <1>1, <1>2, <2>1, OneAnalyst
<1>3. CASE FallBack(n)
  BY <1>1, <1>3, FallsBack
<1>4. QED
  BY <1>2, <1>3 DEF AskAnalyst

LEMMA CompleteKeeps ==
  ASSUME AnalysesInv, NEW n \in Analysts, Complete(n)
  PROVE  AnalysesInv'
<1>1. UNCHANGED <<file, updates, input>>
  BY DEF Complete
<1>2. CASE FallBack(n)
  BY <1>1, <1>2, FallsBack
<1>3. ASSUME NEW reply \in Replies, analyses' = [analyses EXCEPT ![n] = [op |-> "raised", by |-> reply]]
      PROVE  AnalysesInv'
  <2>1. Reported([op |-> "raised", by |-> reply])
    BY DEF Reported
  <2>2. QED
    BY <1>1, <1>3, <2>1, OneAnalyst
<1>4. ASSUME NEW reply \in Replies, reply.shape = "concerns", Reply(n, "llm", LlmConcerns(reply.concerns, Pool))
      PROVE  AnalysesInv'
  <2> DEFINE concerns == LlmConcerns(reply.concerns, Pool)
             task == [op |-> "report", by |-> "llm", concerns |-> concerns]
  <2>1. Grounds(concerns)
    <3>1. IsList(reply.concerns) /\ \A k \in DOMAIN reply.concerns : reply.concerns[k].confidence \in Int
      BY <1>4, LlmAssumption
    <3>2. QED
      BY <3>1, LlmSound DEF AnalysesInv
  <2>2. analyses' = [analyses EXCEPT ![n] = task]
    BY <1>4 DEF Reply
  <2> HIDE DEF concerns
  <2>3. Reported(task)
    BY <2>1 DEF Reported
  <2>4. QED
    BY <1>1, <2>2, <2>3, OneAnalyst
<1>5. \/ FallBack(n)
      \/ \E reply \in Replies :
           \/ analyses' = [analyses EXCEPT ![n] = [op |-> "raised", by |-> reply]]
           \/ FallBack(n)
           \/ reply.shape = "concerns" /\ Reply(n, "llm", LlmConcerns(reply.concerns, Pool))
  <2>1. CASE LoadConfig.route \notin Local /\ LoadConfig.keys[LoadConfig.route] = ""
    BY <2>1 DEF Complete
  <2>2. CASE ~(LoadConfig.route \notin Local /\ LoadConfig.keys[LoadConfig.route] = "")
    <3>1. PICK reply \in Replies :
            CASE reply.shape = "malformed" -> analyses' = [analyses EXCEPT ![n] = [op |-> "raised", by |-> reply]]
              [] reply.shape = "failed" -> FallBack(n)
              [] reply.shape = "concerns" ->
                   IF LlmConcerns(reply.concerns, Pool) = <<>> THEN FallBack(n)
                   ELSE Reply(n, "llm", LlmConcerns(reply.concerns, Pool))
      BY <2>2 DEF Complete
    <3>2. reply.shape = "malformed" \/ reply.shape = "failed" \/ reply.shape = "concerns"
      BY LlmAssumption
    <3>3. CASE reply.shape = "malformed"
      BY <3>1, <3>3
    <3>4. CASE reply.shape = "failed"
      BY <3>1, <3>4
    <3>5. CASE reply.shape = "concerns"
      BY <3>1, <3>5
    <3>6. QED
      BY <3>2, <3>3, <3>4, <3>5
  <2>3. QED
    BY <2>1, <2>2
<1>6. QED
  BY <1>2, <1>3, <1>4, <1>5

LEMMA AnalysisReadKeeps ==
  ASSUME AnalysesInv, NEW n \in Analysts, AnalysisRead(n)
  PROVE  AnalysesInv'
<1>1. Reported(Waits)
  BY DEF Reported, Waits
<1>2. QED
  BY <1>1, OneAnalyst DEF AnalysisRead

LEMMA NextAnalysesInv == GatewayInv /\ AnalysesInv /\ [LlmNext]_llmVars => AnalysesInv'
<1> SUFFICES ASSUME GatewayInv, AnalysesInv, [LlmNext]_llmVars
             PROVE  AnalysesInv'
  OBVIOUS
<1>1. UNCHANGED <<input, analyses>> => /\ input' \in Inputs /\ DOMAIN analyses' = Analysts
                                       /\ \A n \in Analysts : Reported(analyses[n])'
  <2>1. UNCHANGED <<input, analyses>> => \A n \in Analysts : Reported(analyses'[n])
    BY DEF AnalysesInv
  <2>2. QED
    BY <2>1, SameInput DEF AnalysesInv
<1>2. CASE Stop
  <2>1. /\ UNCHANGED <<file, input>> /\ analyses' = [n \in Analysts |-> Waits]
        /\ updates' = [a \in Admins |-> Waits]
    BY <1>2 DEF Stop
  <2>2. Waits.op = "waits" /\ Reported(Waits)
    BY DEF Waits, Reported
  <2>3. \A n \in Analysts : Reported(analyses'[n])
    BY <2>1, <2>2
  <2>4. \A n \in Analysts : Reported(analyses[n])'
    BY <2>1, <2>3, SameInput
  <2>5. QED
    BY <2>1, <2>2, <2>4 DEF AnalysesInv
<1>3. ASSUME NEW a \in Admins, NEW update \in Updates, AdminPut(a, update)
      PROVE  AnalysesInv'
  <2> DEFINE config == Merge(LoadConfig, update)
  <2>1. /\ updates' = [updates EXCEPT ![a] = [op |-> "truncate", config |-> config]]
        /\ UNCHANGED <<file, analyses, input>>
    BY <1>3 DEF AdminPut
  <2>2. config.route \in Providers
    BY LlmAssumption DEF Merge
  <2> HIDE DEF config
  <2>3. \A b \in Admins : updates'[b].op # "waits" => updates'[b].config.route \in Providers
    BY <2>1, <2>2 DEF GatewayInv, AnalysesInv
  <2>4. QED
    BY <1>1, <2>1, <2>3 DEF AnalysesInv
<1>4. ASSUME NEW a \in Admins, Truncate(a)
      PROVE  AnalysesInv'
  <2> DEFINE next == [updates[a] EXCEPT !.op = "write"]
  <2>1. /\ updates[a].op = "truncate" /\ file' = Torn /\ updates' = [updates EXCEPT ![a] = next]
        /\ UNCHANGED <<analyses, input>>
    BY <1>4 DEF Truncate
  <2>2. next.config = updates[a].config
    BY <2>1 DEF GatewayInv
  <2>3. /\ updates'[a] = next
        /\ \A b \in Admins : b # a => updates'[b] = updates[b]
    BY <2>1 DEF GatewayInv
  <2> HIDE DEF next
  <2>4. \A b \in Admins : updates'[b].op # "waits" => updates'[b].config.route \in Providers
    BY <2>1, <2>2, <2>3 DEF AnalysesInv
  <2>5. Torn.state # "saved"
    BY DEF Torn
  <2>6. QED
    BY <1>1, <2>1, <2>4, <2>5 DEF AnalysesInv
<1>5. ASSUME NEW a \in Admins, Write(a)
      PROVE  AnalysesInv'
  <2>1. /\ updates[a].op = "write" /\ updates' = [updates EXCEPT ![a] = Waits]
        /\ file' = updates[a].config \/ file' = Torn
        /\ UNCHANGED <<analyses, input>>
    BY <1>5 DEF Write
  <2>2. Torn.state # "saved" /\ Waits.op = "waits"
    BY DEF Torn, Waits
  <2>3. \A b \in Admins : updates'[b].op # "waits" => updates'[b].config.route \in Providers
    BY <2>1, <2>2 DEF GatewayInv, AnalysesInv
  <2>4. file'.state = "saved" => file'.route \in Providers
    BY <2>1, <2>2 DEF AnalysesInv
  <2>5. QED
    BY <1>1, <2>1, <2>3, <2>4 DEF AnalysesInv
<1>6. CASE UNCHANGED llmVars
  BY <1>1, <1>6 DEF llmVars, AnalysesInv
<1>7. QED
  BY <1>2, <1>3, <1>4, <1>5, <1>6, AskAnalystKeeps, CompleteKeeps, AnalysisReadKeeps DEF LlmNext

LEMMA AnalysesInvImplies == AnalysesInv => ReportsGrounded
<1> SUFFICES ASSUME AnalysesInv
             PROVE  ReportsGrounded
  OBVIOUS
<1>1. LlmTypeOK
  <2>1. DOMAIN LoadConfig.keys = Providers
    BY DEF LoadConfig, Defaults, NoKeys
  <2>2. LoadConfig.route \in Providers
    BY LlmAssumption DEF LoadConfig, Defaults, AnalysesInv
  <2>3. QED
    BY <2>1, <2>2 DEF LlmTypeOK, AnalysesInv, Reported
<1>2. ConcernsAreCited
  BY DEF ConcernsAreCited, AnalysesInv, Reported, Grounds, Distinct, Cited
<1>3. input \in Inputs
  BY DEF AnalysesInv
<1>4. QED
  BY <1>1, <1>2, <1>3, DiffsSound, QuotesSound, SignalsSound, FailuresSound DEF ReportsGrounded

\* What is configured, being analysed and reported, in every reachable state.
THEOREM AnalysesInvariant == ApiSpec => []AnalysesInv
<1>1. ApiInit => AnalysesInv
  BY InitAnalysesInv DEF ApiInit
<1>2. [ApiNext]_apiVars => [LlmNext]_llmVars
  BY DEF ApiNext, apiVars, llmVars
<1>3. GatewayInv /\ AnalysesInv /\ [ApiNext]_apiVars => AnalysesInv'
  BY <1>2, NextAnalysesInv
<1>4. QED
  BY <1>1, <1>3, GatewayInvariant, PTL DEF ApiSpec

\* Every conclusion rests on the disclosures it was drawn from: a report's
\* concerns, whoever reasoned, the diff, the summary, the signals, the score.
THEOREM Reports == ApiSpec => []ReportsGrounded
<1>1. QED
  BY AnalysesInvImplies, AnalysesInvariant, PTL
=============================================================================
