------------------------------ MODULE Accounts ------------------------------
(***************************************************************************)
(* Accounts, sessions, password resets and API keys (auth, enterprise and  *)
(* their routes). Sessions are signed tokens the server does not store;    *)
(* keys are rows. A handler reads the database, the clock and the          *)
(* credential more than once, and other requests run between the reads.    *)
(***************************************************************************)
EXTENDS Organizations, Sequences

CONSTANTS
  Workers,       \* request threads
  DemoUser,      \* the account seed_demo_user creates, as an admin
  TokenTTL, ResetTTL, KeyTTLs,    \* lifetimes of sessions, of resets and those asked of keys
  Asked,         \* the sets of scopes asked of keys
  StableSecret,  \* whether CORUSCANT_SECRET_KEY is configured
  MaxNow, MaxSessions, MaxResets, MaxKeys, MaxRestarts    \* bounds

Anonymous == "anonymous@local"    \* the email of a caller that is nobody; not one to register with

ASSUME AccountsAssumption ==
  /\ DemoUser \in Users /\ Anonymous \notin Users /\ IsFiniteSet(Workers)
  /\ TokenTTL \in Nat /\ ResetTTL \in Nat /\ KeyTTLs \subseteq Nat

VARIABLES
  users,      \* the rows of users: password (its version), role and reset token
  sessions,   \* the tokens handed out
  apiKeys,    \* the rows of api_keys
  issued,     \* whom each reset token, numbered in order, was issued to
  honoured,   \* (history) the reset tokens that set a password, in order
  requests,   \* what each thread is doing
  audit,      \* the audit log
  minted,     \* keys created, for their identifiers
  secret, restarts, now

rows == <<orgs, users, sessions, apiKeys, issued, honoured, audit, minted>>
world == <<secret, restarts, now>>
accountVars == <<rows, requests, world>>

Nobody == [user |-> "nobody", role |-> "analyst", restricted |-> FALSE, scopes |-> {}]
Free == [op |-> "free"]
KnownScopes == {"admin", "enterprise"}
SessionToken(u) == [kind |-> "session", user |-> u, until |-> now + TokenTTL, secret |-> secret]
KeyToken(key) == [kind |-> "key", id |-> key.id]
Credentials == sessions \union {KeyToken(key) : key \in apiKeys}

\* A session carries its owner's whole authority, a key its scopes.
Principal(cred) ==
  IF cred.kind = "session"
    THEN IF cred.secret = secret /\ now < cred.until /\ cred.user \in DOMAIN users
           THEN [user |-> cred.user, role |-> users[cred.user].role, restricted |-> FALSE, scopes |-> {}]
           ELSE Nobody
    ELSE IF \E key \in apiKeys : key.id = cred.id /\ now < key.until /\ key.owner \in DOMAIN users
           THEN LET key == CHOOSE key \in apiKeys : key.id = cred.id
                IN [user |-> key.owner, role |-> users[key.owner].role, restricted |-> TRUE, scopes |-> key.scopes]
           ELSE Nobody
Resolves(cred) == Principal(cred) # Nobody

\* The plans the owner of a key changes between: the key routes ask only
\* whether a plan is enterprise, so one of the others will do.
Telling == {"free", "enterprise"}

HasEntitlement(role, plan) == role = "admin" \/ plan = "enterprise"

RestInit ==
  /\ apiKeys = {} /\ issued = <<>> /\ honoured = <<>>
  /\ requests = [w \in Workers |-> Free] /\ audit = {} /\ minted = 0
  /\ secret = 0 /\ restarts = 0 /\ now = 0

Becomes(w, request) == requests' = [requests EXCEPT ![w] = request]

Audited(w, action, what) == Becomes(w, [op |-> "audit", entry |-> <<action, what>>])

WriteAudit(w) ==
  /\ requests[w].op = "audit"
  /\ audit' = audit \union {requests[w].entry}
  /\ Becomes(w, Free)
  /\ UNCHANGED <<orgs, users, sessions, apiKeys, issued, honoured, minted, world>>

\* Registration: the row is looked up, then inserted under its primary key.
RegisterLook(w, u, role) ==
  /\ requests[w].op = "free" /\ u \notin DOMAIN users
  /\ role = "admin" => u = DemoUser
  /\ Becomes(w, [op |-> "insert", user |-> u, role |-> role])
  /\ UNCHANGED <<rows, world>>

Insertable(u) == u \notin DOMAIN users

RegisterInsert(w) ==
  LET u == requests[w].user IN
    /\ requests[w].op = "insert"
    /\ IF Insertable(u)
         THEN /\ users' = [x \in DOMAIN users \union {u} |->
                             IF x = u THEN [password |-> 0, role |-> requests[w].role, token |-> 0, expires |-> 0]
                             ELSE users[x]]
              /\ sessions' = IF requests[w].role = "admin" THEN sessions ELSE sessions \union {SessionToken(u)}
         ELSE UNCHANGED <<users, sessions>>
    /\ Becomes(w, Free)
    /\ UNCHANGED <<orgs, apiKeys, issued, honoured, audit, minted, world>>

\* With the right password; a wrong one changes nothing.
Login(w, u) ==
  /\ requests[w].op = "free" /\ u \in DOMAIN users /\ Cardinality(sessions) < MaxSessions
  /\ sessions' = sessions \union {SessionToken(u)}
  /\ Audited(w, "login", u)
  /\ UNCHANGED <<orgs, users, apiKeys, issued, honoured, audit, minted, world>>

\* A new token replaces the one before.
RequestReset(u) ==
  /\ u \in DOMAIN users /\ Len(issued) < MaxResets
  /\ issued' = Append(issued, u)
  /\ users' = [users EXCEPT ![u].token = Len(issued) + 1, ![u].expires = now + ResetTTL]
  /\ UNCHANGED <<orgs, sessions, apiKeys, honoured, requests, audit, minted, world>>

ConfirmLook(w, token) ==
  /\ requests[w].op = "free"
  /\ \E u \in DOMAIN users :
       /\ users[u].token = token /\ now < users[u].expires
       /\ Becomes(w, [op |-> "reset", user |-> u, token |-> token])
  /\ UNCHANGED <<rows, world>>

\* Mutant: the token is left in the row.
PasswordSetOnly(row) == [row EXCEPT !.password = @ + 1]

PasswordSet(row) == [row EXCEPT !.password = @ + 1, !.token = 0, !.expires = 0]

ConfirmSet(w) ==
  /\ requests[w].op = "reset"
  /\ users' = [users EXCEPT ![requests[w].user] = PasswordSet(@)]
  /\ honoured' = Append(honoured, requests[w].token)
  /\ Becomes(w, Free)
  /\ UNCHANGED <<orgs, sessions, apiKeys, issued, audit, minted, world>>

\* Minting a key looks at the credential three times: the route asks that it
\* resolves, then for the email it stands for, and the handler for the
\* authority it has. Only the first refuses a credential that does not resolve.
MintStart(w, cred, scopes, ttl) ==
  /\ requests[w].op = "free" /\ Resolves(cred) /\ scopes \subseteq KnownScopes
  /\ Becomes(w, [op |-> "identify", cred |-> cred, scopes |-> scopes, ttl |-> ttl, by |-> Principal(cred)])
  /\ UNCHANGED <<rows, world>>

CurrentEmail(cred) == IF Resolves(cred) THEN Principal(cred).user ELSE Anonymous

MintEmail(w) ==
  LET request == requests[w] IN
    /\ request.op = "identify"
    /\ Becomes(w, [op |-> "judge", cred |-> request.cred, scopes |-> request.scopes, ttl |-> request.ttl,
                   by |-> request.by, user |-> CurrentEmail(request.cred)])
    /\ UNCHANGED <<rows, world>>

\* Mutant: only the owner's authority is asked, not the key's.
CanGrantOwner(scope, asked, ownerOk, caller) == scope \in asked => ownerOk

CanGrant(scope, asked, ownerOk, caller) ==
  scope \in asked => ownerOk /\ (caller.restricted => scope \in caller.scopes)

MintJudge(w) ==
  LET request == requests[w]
      caller == Principal(request.cred)
  IN /\ request.op = "judge"
     /\ IF /\ CanGrant("admin", request.scopes, caller.role = "admin", caller)
           /\ CanGrant("enterprise", request.scopes,
                       HasEntitlement(caller.role, EffectivePlan(request.user)), caller)
          THEN Becomes(w, [op |-> "store", user |-> request.user, scopes |-> request.scopes, ttl |-> request.ttl,
                           by |-> request.by, lapsed |-> ~Resolves(request.cred)])
          ELSE Becomes(w, Free)
     /\ UNCHANGED <<rows, world>>

MintStore(w) ==
  LET request == requests[w] IN
    /\ request.op = "store" /\ minted < MaxKeys
    /\ minted' = minted + 1
    /\ apiKeys' = apiKeys \union {[id |-> minted, owner |-> request.user, scopes |-> request.scopes,
                                   until |-> now + request.ttl, by |-> request.by, lapsed |-> request.lapsed]}
    /\ Audited(w, "api_key.create", minted)
    /\ UNCHANGED <<orgs, users, sessions, issued, honoured, audit, world>>

\* The two looks of this route are one here: a credential that lapses between
\* them revokes nothing of its owner's.
Revoke(w, cred, key) ==
  /\ requests[w].op = "free" /\ Resolves(cred)
  /\ key \in apiKeys /\ key.owner = Principal(cred).user
  /\ apiKeys' = apiKeys \ {key}
  /\ Audited(w, "api_key.revoke", key.id)
  /\ UNCHANGED <<orgs, users, sessions, issued, honoured, audit, minted, world>>

\* An enterprise route: identity, then plan, then the credential again.
EnterStart(w, cred) ==
  /\ requests[w].op = "free" /\ Resolves(cred)
  /\ Becomes(w, [op |-> "plan", cred |-> cred, by |-> Principal(cred)])
  /\ UNCHANGED <<rows, world>>

EnterPlan(w) ==
  LET request == requests[w] IN
    /\ request.op = "plan"
    /\ Becomes(w, IF HasEntitlement(request.by.role, EffectivePlan(request.by.user))
                    THEN [op |-> "scopes", cred |-> request.cred, by |-> request.by] ELSE Free)
    /\ UNCHANGED <<rows, world>>

ScopesAllow(caller) == caller.restricted => "enterprise" \in caller.scopes

EnterScopes(w) ==
  LET request == requests[w] IN
    /\ request.op = "scopes"
    /\ Becomes(w, IF ScopesAllow(Principal(request.cred))
                    THEN [op |-> "admitted", by |-> request.by, lapsed |-> ~Resolves(request.cred)] ELSE Free)
    /\ UNCHANGED <<rows, world>>

EnterAnswer(w) ==
  /\ requests[w].op = "admitted"
  /\ Becomes(w, Free)
  /\ UNCHANGED <<rows, world>>

\* A restart loses the requests in progress and an ephemeral secret.
Restart ==
  /\ restarts < MaxRestarts
  /\ restarts' = restarts + 1
  /\ secret' = IF StableSecret THEN secret ELSE secret + 1
  /\ requests' = [w \in Workers |-> Free]
  /\ UNCHANGED <<orgs, users, sessions, apiKeys, issued, honoured, audit, minted, now>>

Tick ==
  /\ now < MaxNow
  /\ now' = now + 1
  /\ UNCHANGED <<orgs, users, sessions, apiKeys, issued, honoured, requests, audit, minted, secret, restarts>>

\* Signing in starts from nothing, the keys from an installation whose users
\* have registered and one has signed in and owns an organisation.
SigningInit == RestInit /\ OrgsInit /\ users = <<>> /\ sessions = {}

KeysInit ==
  /\ RestInit
  /\ users = [u \in Users |-> [password |-> 0, role |-> IF u = DemoUser THEN "admin" ELSE "analyst",
                               token |-> 0, expires |-> 0]]
  /\ \E u \in Users : /\ sessions = {SessionToken(u)}
                     /\ orgs = {[id |-> 1, owner |-> u, members |-> {u}, plan |-> "free"]}

SigningNext ==
  \/ \E w \in Workers :
       \/ WriteAudit(w) \/ RegisterInsert(w) \/ ConfirmSet(w)
       \/ \E u \in Users : Login(w, u) \/ \E role \in {"analyst", "admin"} : RegisterLook(w, u, role)
       \/ \E token \in DOMAIN issued : ConfirmLook(w, token)
  \/ \E u \in Users : RequestReset(u)
  \/ Restart \/ Tick

KeysNext ==
  \/ \E w \in Workers :
       \/ WriteAudit(w) \/ MintEmail(w) \/ MintJudge(w) \/ MintStore(w)
       \/ EnterPlan(w) \/ EnterScopes(w) \/ EnterAnswer(w)
       \/ \E cred \in Credentials :
            \/ EnterStart(w, cred)
            \/ \E scopes \in Asked, ttl \in KeyTTLs : MintStart(w, cred, scopes, ttl)
            \/ \E key \in apiKeys : Revoke(w, cred, key)
  \/ Restart \/ Tick
  \/ /\ \E u \in Users, org \in orgs, plan \in Telling : SetOrgPlan(u, org, plan)
     /\ UNCHANGED <<users, sessions, apiKeys, issued, honoured, audit, minted, requests, world>>

-----------------------------------------------------------------------------

AccountsTypeOK ==
  /\ DOMAIN users \subseteq Users
  /\ \A u \in DOMAIN users : /\ users[u].password \in Nat /\ users[u].role \in {"analyst", "admin"}
                             /\ users[u].token \in 0 .. Len(issued)
  /\ \A s \in sessions : s.user \in DOMAIN users /\ s.secret <= secret
  /\ \A key \in apiKeys : key.owner \in DOMAIN users \union {Anonymous} /\ key.scopes \subseteq KnownScopes /\ key.id < minted

\* A token is read and consumed in two steps, so confirmations that overlap
\* all succeed; no token ever sets more passwords than there are threads.
ResetsBounded ==
  \A t \in DOMAIN issued : Cardinality({i \in DOMAIN honoured : honoured[i] = t}) <= Cardinality(Workers)

\* A password is as many versions old as resets issued to its account were
\* honoured: confirmations that overlap lose none, and a registration that
\* lost the race for an email does not start its row anew.
PasswordsFollowResets ==
  \A u \in DOMAIN users :
    users[u].password = Cardinality({i \in DOMAIN honoured : issued[honoured[i]] = u})

\* Resets that overlap are all counted, and bounded.
ResetsAccounted == AccountsTypeOK /\ ResetsBounded /\ PasswordsFollowResets

\* A key that was minted with a key has no scope that one lacked, unless it
\* lapsed between the looks of the route and that of the handler, which then
\* takes it for no key at all. That lets at most the enterprise scope through.
ScopesDescend ==
  \A key \in apiKeys :
    key.by.restricted => key.scopes \ key.by.scopes \subseteq (IF key.lapsed THEN {"enterprise"} ELSE {})

\* Whatever lapses on the way, a key with the admin scope is an admin's, and
\* one of nobody's, minted as its credential lapsed, has no scope.
AdminKeysBelongToAdmins ==
  \A key \in apiKeys : /\ "admin" \in key.scopes => key.owner \in DOMAIN users /\ users[key.owner].role = "admin"
                       /\ key.owner = Anonymous => key.scopes = {}

\* A key that an enterprise route lets in has the enterprise scope, unless it
\* lapsed between the two looks the route takes at it.
AdmittedWithScope ==
  \A w \in Workers :
    requests[w].op = "admitted" /\ requests[w].by.restricted =>
      "enterprise" \in requests[w].by.scopes \/ requests[w].lapsed

\* Before any restart, every key that was created is in the audit log, or its
\* entry is on its way. (After one, nothing is said of any key.)
KeysAreAudited ==
  restarts = 0 =>
    \A key \in apiKeys :
      LET entry == <<"api_key.create", key.id>> IN
        entry \in audit \/ \E w \in Workers : requests[w].op = "audit" /\ requests[w].entry = entry

\* What a handler that looks at a credential again and again makes of it: a
\* key in time passes on and uses its own scopes only; one that lapses on the
\* way gains at most the enterprise scope, which the owner's plan must cover;
\* and every creation is on record, as long as nothing restarts.
KeysBounded == ScopesDescend /\ AdminKeysBelongToAdmins /\ AdmittedWithScope /\ KeysAreAudited

\* What the handler's comment promises (api.py:1795): a key never exceeds the
\* authority of the credential minting it, lapsed since or not.
NeverExceedsMinter == \A key \in apiKeys : key.by.restricted => key.scopes \subseteq key.by.scopes
=============================================================================
