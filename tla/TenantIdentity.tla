--------------------------- MODULE TenantIdentity ----------------------------
(***************************************************************************)
(* The identity half of packages/identity-billing for one tenant: users,   *)
(* sessions with an expiry, linked external identities, service            *)
(* identities, API keys that are revoked or disabled, and the grant that   *)
(* bootstraps an administrator.  Every operation is synchronous.  Secrets  *)
(* are never modelled: a token stands for whoever holds it.                *)
(***************************************************************************)
EXTENDS Integers, FiniteSets

CONSTANTS
    Persons,         \* subjects of a tenant's users
    Externals,       \* (issuer, issuerSubject) pairs
    IssuerOf,        \* the issuer of an external identity
    ApiKeys,         \* keys that may be issued
    KeyActions,      \* actions a key may be issued for
    Services,        \* service identities
    IdentityEnd,     \* bound on the clock
    Ttls             \* lifetimes callers ask for, in ticks

ASSUME IdentityConstants == Ttls \subseteq Nat /\ IdentityEnd \in Nat /\ "unlinked" \notin Persons

VARIABLES
    users,          \* state.usersBySubject
    session,        \* a session of each user: issued, expires and revoked
    linked,         \* state.externalIdentitiesByKey
    services,       \* state.serviceIdentities
    apiKeys,        \* state.apiKeysById and its three other indexes
    bootstrap,      \* state.bootstrapGrant, bootstrapDisabled
    escalations,    \* escalationLog: the actions it names, with their targets
    identityClock,
    everGranted     \* history: the bootstrap grants, by lifetime

identityVars == <<users, session, linked, services, apiKeys, bootstrap, escalations,
                  identityClock, everGranted>>

NoSession == [expires |-> 0, revoked |-> FALSE]
NoLink == "unlinked"

IdentityInit ==
    /\ users = {}
    /\ session = [u \in Persons |-> NoSession]
    /\ linked = [x \in Externals |-> NoLink]
    /\ services = {}
    /\ apiKeys = [k \in ApiKeys |->
         [issued |-> FALSE, revoked |-> FALSE, disabled |-> FALSE, actions |-> {}]]
    /\ bootstrap = [expires |-> 0, disabled |-> FALSE]
    /\ escalations = {}
    /\ identityClock = 0
    /\ everGranted = {}

escalate(action, target) == escalations' = escalations \cup {<<action, target>>}

createUser(u) ==
    /\ u \notin users
    /\ users' = users \cup {u}
    /\ escalate("user.create", u)
    /\ UNCHANGED <<session, linked, services, apiKeys, bootstrap, identityClock, everGranted>>

\* Sessions of a user are independent of each other: one stands for each.
startSession(u, ttl) ==
    /\ u \in users
    /\ session' = [session EXCEPT ![u] = [expires |-> identityClock + ttl, revoked |-> FALSE]]
    /\ UNCHANGED <<users, linked, services, apiKeys, bootstrap, escalations, identityClock,
                   everGranted>>

\* verifySession: found, not revoked, not expired.
VerifySession(u) == ~session[u].revoked /\ identityClock < session[u].expires

revokeSession(u) ==
    /\ session[u] # NoSession
    /\ session' = [session EXCEPT ![u].revoked = TRUE]
    /\ UNCHANGED <<users, linked, services, apiKeys, bootstrap, escalations, identityClock,
                   everGranted>>

linkExternalIdentity(u, x) ==
    /\ u \in users
    /\ linked[x] = NoLink
    /\ linked' = [linked EXCEPT ![x] = u]
    /\ escalate("identity.link", u)
    /\ UNCHANGED <<users, session, services, apiKeys, bootstrap, identityClock, everGranted>>

\* All of the user's identities at one issuer go; the call is logged even
\* when there were none.
unlinkExternalIdentities(u, issuer) ==
    /\ u \in users
    /\ linked' = [x \in Externals |->
         IF linked[x] = u /\ IssuerOf[x] = issuer THEN NoLink ELSE linked[x]]
    /\ escalate("identity.unlink", u)
    /\ UNCHANGED <<users, session, services, apiKeys, bootstrap, identityClock, everGranted>>

registerServiceIdentity(s) ==
    /\ s \notin services
    /\ services' = services \cup {s}
    /\ escalate("service_identity.register", s)
    /\ UNCHANGED <<users, session, linked, apiKeys, bootstrap, identityClock, everGranted>>

-----------------------------------------------------------------------------
(* API keys.                                                               *)

issueApiKey(k, actions) ==
    /\ ~apiKeys[k].issued
    /\ actions # {}
    /\ apiKeys' = [apiKeys EXCEPT ![k].issued = TRUE, ![k].actions = actions]
    /\ escalate("api_key.issue", k)
    /\ UNCHANGED <<users, session, linked, services, bootstrap, identityClock, everGranted>>

\* (mutation) A disabled key is still let in.
AuthenticateApiKeyLoose(k, action) ==
    apiKeys[k].issued /\ ~apiKeys[k].revoked /\ action \in apiKeys[k].actions

\* authenticateApiKey answers "authorized".
AuthenticateApiKey(k, action) ==
    /\ apiKeys[k].issued /\ ~apiKeys[k].revoked /\ ~apiKeys[k].disabled
    /\ action \in apiKeys[k].actions

\* The first call withdraws the key and is logged, a repeated one does nothing.
Withdraw(k, field, action) ==
    /\ apiKeys[k].issued
    /\ ~apiKeys[k][field]
    /\ apiKeys' = [apiKeys EXCEPT ![k][field] = TRUE]
    /\ escalate(action, k)
    /\ UNCHANGED <<users, session, linked, services, bootstrap, identityClock, everGranted>>

revokeApiKey(k) == Withdraw(k, "revoked", "api_key.revoke")
disableApiKey(k) == Withdraw(k, "disabled", "api_key.disable")

-----------------------------------------------------------------------------
(* The administrator's bootstrap grant.                                    *)

\* (mutation) Only a grant of this very moment is in the way.
NoActiveGrantNow == bootstrap.expires <= identityClock + 1

\* A grant that expires now is no longer active.
NoActiveGrant == bootstrap.expires <= identityClock

provisionAdminBootstrap(ttl) ==
    /\ ~bootstrap.disabled
    /\ NoActiveGrant
    /\ bootstrap' = [bootstrap EXCEPT !.expires = identityClock + ttl]
    /\ everGranted' = everGranted \cup {[from |-> identityClock, to |-> identityClock + ttl]}
    /\ escalate("bootstrap.provision", "tenant")
    /\ UNCHANGED <<users, session, linked, services, apiKeys, identityClock>>

\* The grant that was issued stays as it is.
disableBootstrap ==
    /\ ~bootstrap.disabled
    /\ bootstrap' = [bootstrap EXCEPT !.disabled = TRUE]
    /\ escalate("bootstrap.disable", "tenant")
    /\ UNCHANGED <<users, session, linked, services, apiKeys, identityClock, everGranted>>

identityTime ==
    /\ identityClock < IdentityEnd
    /\ identityClock' = identityClock + 1
    /\ UNCHANGED <<users, session, linked, services, apiKeys, bootstrap, escalations, everGranted>>

IdentityNext ==
    \/ \E u \in Persons : createUser(u) \/ revokeSession(u)
    \/ \E u \in Persons, ttl \in Ttls : startSession(u, ttl)
    \/ \E u \in Persons, x \in Externals : linkExternalIdentity(u, x)
    \/ \E u \in Persons, x \in Externals : unlinkExternalIdentities(u, IssuerOf[x])
    \/ \E s \in Services : registerServiceIdentity(s)
    \/ \E k \in ApiKeys, actions \in SUBSET KeyActions : issueApiKey(k, actions)
    \/ \E k \in ApiKeys : revokeApiKey(k) \/ disableApiKey(k)
    \/ \E ttl \in Ttls : provisionAdminBootstrap(ttl)
    \/ disableBootstrap
    \/ identityTime

IdentitySpec == IdentityInit /\ [][IdentityNext]_identityVars

-----------------------------------------------------------------------------
(* Properties.                                                             *)

IdentityTypeOK ==
    /\ users \subseteq Persons
    /\ linked \in [Externals -> Persons \cup {NoLink}]
    /\ \A e \in escalations : e[2] \in Persons \cup Services \cup ApiKeys \cup {"tenant"}
    /\ \A k \in ApiKeys : apiKeys[k].actions \subseteq KeyActions

\* No two bootstrap grants of a tenant are ever good at the same time: a new
\* one is provisioned only when the last has run out.
GrantsDoNotOverlap ==
    \A g, h \in everGranted : g # h => g.to <= h.from \/ h.to <= g.from

\* What lets somebody in can be told from the log: a key authenticates
\* exactly when its issue was logged and no withdrawal was, a link belongs to a
\* user whose linking was logged, a session to a user that was created.
AccessFollowsLog ==
    LET Logged(action, target) == <<action, target>> \in escalations IN
    /\ \A k \in ApiKeys :
          (\E a \in KeyActions : AuthenticateApiKey(k, a)) <=>
             /\ Logged("api_key.issue", k)
             /\ ~Logged("api_key.revoke", k) /\ ~Logged("api_key.disable", k)
    /\ \A x \in Externals : linked[x] # NoLink =>
          Logged("user.create", linked[x]) /\ Logged("identity.link", linked[x])
    /\ \A u \in Persons : VerifySession(u) => Logged("user.create", u)
    /\ bootstrap.expires > identityClock => Logged("bootstrap.provision", "tenant")

\* The audit trail tells who may come in, and one bootstrap grant at most does.
IdentityIsAccountable == GrantsDoNotOverlap /\ AccessFollowsLog
=============================================================================
