------------------------------ MODULE OAuthLogin ------------------------------
(***************************************************************************)
(* Sign-in and account linking through one identity provider: the pending  *)
(* authorisations, the callback (production-oauth-api.js), the identities  *)
(* of its subjects with the global directory that a trigger keeps beside   *)
(* them, and the stored provider tokens (oauth-repo.js,                    *)
(* oauth-login-repo.js).  A callback awaits the database or the provider   *)
(* between any two of its actions, and may be delivered again while it     *)
(* runs.  Providers share nothing, so one stands for all.                  *)
(*                                                                         *)
(* A transaction is one action where its locks make it look like one.  The *)
(* two that do not are split: disconnectProvider deletes tokens and then   *)
(* identities, and a repeated link stores tokens for an identity that it   *)
(* only read.                                                              *)
(***************************************************************************)
EXTENDS Integers, FiniteSets

CONSTANTS
    NumUsers,       \* accounts there may be, each the owner of its tenant
    Subjects,       \* accounts at the provider
    LoginStates,    \* states handleLoginStart may generate
    LinkStates,     \* states of authorisations started by a signed-in user
    Callbacks,      \* requests being served
    NoSubject

Accounts == 1..NumUsers
AuthStates == LoginStates \cup LinkStates

ASSUME OAuthConstants ==
    /\ NumUsers \in Nat
    /\ LoginStates \cap LinkStates = {}
    /\ NoSubject \notin Subjects

VARIABLES
    users,       \* accounts that exist
    pending,     \* oauth_pending_authorizations, oauth_login_authorizations
    identity,    \* auth_user_identities: the account of each subject, or 0
    directory,   \* oauth_identity_directory
    stored,      \* oauth_provider_tokens: the subject whose tokens a user has
    request,     \* the progress of each request
    issued,      \* sessions issued by sign-in: <<state, subject, user>>
    linked,      \* history: <<state, subject, user>> completed links
    owners       \* history: every account a subject ever had

oauthVars == <<users, pending, identity, directory, stored, request, issued,
               linked, owners>>

Unstarted == [user |-> 0, open |-> FALSE, started |-> FALSE]
NoRequest == [pc |-> "idle", state |-> 0, user |-> 0, subject |-> NoSubject, holds |-> FALSE]

OAuthInit ==
    /\ users = {}
    /\ pending = [st \in AuthStates |-> Unstarted]
    /\ identity = [s \in Subjects |-> 0]
    /\ directory = [s \in Subjects |-> 0]
    /\ stored = [u \in Accounts |-> NoSubject]
    /\ request = [k \in Callbacks |-> NoRequest]
    /\ issued = {}
    /\ linked = {}
    /\ owners = [s \in Subjects |-> {}]

Serving(k, pc) == request[k].pc = pc
Proceed(k, pc) == request' = [request EXCEPT ![k].pc = pc]
Finish(k) == request' = [request EXCEPT ![k] = NoRequest]

\* A fresh random id; accounts are numbered as they appear.
FreshUser == Cardinality(users) + 1

registerLocally ==
    /\ FreshUser \in Accounts
    /\ users' = users \cup {FreshUser}
    /\ UNCHANGED <<pending, identity, directory, stored, request, issued,
                   linked, owners>>

-----------------------------------------------------------------------------
(* Pending authorisations.                                                 *)

Opened(st, u) == [pending EXCEPT ![st] = [user |-> u, open |-> TRUE, started |-> TRUE]]

createPendingLogin(st) ==
    /\ ~pending[st].started
    /\ pending' = Opened(st, 0)
    /\ UNCHANGED <<users, identity, directory, stored, request, issued, linked,
                   owners>>

\* A user's older authorisations are consumed first.
Superseded(u) ==
    [st \in AuthStates |-> IF pending[st].user = u THEN [pending[st] EXCEPT !.open = FALSE]
                           ELSE pending[st]]
createPendingAuthorization(st, u) ==
    /\ ~pending[st].started
    /\ u \in users
    /\ pending' = [Superseded(u) EXCEPT ![st] = [user |-> u, open |-> TRUE, started |-> TRUE]]
    /\ UNCHANGED <<users, identity, directory, stored, request, issued, linked,
                   owners>>

stateExpires(st) ==
    /\ pending[st].open
    /\ pending' = [pending EXCEPT ![st].open = FALSE]
    /\ UNCHANGED <<users, identity, directory, stored, request, issued, linked,
                   owners>>

\* (mutation) The UPDATE does not ask whether the row was consumed before.
UsableAgain(st) == pending[st].started
\* Any other state is refused, and nothing changes.
Usable(st) == pending[st].open

consume(k, st) ==
    /\ Serving(k, "idle")
    /\ Usable(st)
    /\ pending' = [pending EXCEPT ![st].open = FALSE]
    /\ request' = [request EXCEPT ![k] =
                     [NoRequest EXCEPT !.pc = "exchange", !.state = st, !.user = pending[st].user]]
    /\ UNCHANGED <<users, identity, directory, stored, issued, linked, owners>>

\* The provider refuses the code, its identity token does not verify, the
\* request throws, or its process dies: open transactions are rolled back.
gives(k) ==
    /\ ~Serving(k, "idle")
    /\ Finish(k)
    /\ UNCHANGED <<users, pending, identity, directory, stored, issued, linked,
                   owners>>

\* exchangeCode and the verification of the identity, whose subject the person
\* at the provider chooses.
exchangeCode(k, s) ==
    /\ Serving(k, "exchange")
    /\ request' = [request EXCEPT ![k].subject = s,
                                  ![k].pc = IF request[k].state \in LoginStates
                                            THEN "resolve" ELSE "link"]
    /\ UNCHANGED <<users, pending, identity, directory, stored, issued, linked,
                   owners>>

-----------------------------------------------------------------------------
(* The trigger on auth_user_identities.                                    *)

DirectoryWith(s, u) ==
    [directory EXCEPT ![s] = IF @ = 0 THEN u ELSE @]
\* (mutation) A trigger on INSERT only.
DirectoryWithoutKept(u) == directory
DirectoryWithout(u) ==
    [s \in Subjects |-> IF identity[s] = u /\ directory[s] = u THEN 0 ELSE directory[s]]

-----------------------------------------------------------------------------
(* completeOidcLogin.                                                      *)

\* A known identity signs in to its account, an unknown one gets an account.
resolveIdentity(k) ==
    LET u == directory[request[k].subject]
    IN  /\ request[k].pc \in {"resolve", "again"}
        /\ CASE u # 0 -> request' = [request EXCEPT ![k].pc = "issue", ![k].user = u]
             [] u = 0 /\ Serving(k, "resolve") -> Proceed(k, "register")
             [] OTHER -> Finish(k)
        /\ UNCHANGED <<users, pending, identity, directory, stored, issued, linked,
                       owners>>

Grant(k, u) == <<request[k].state, request[k].subject, u>>

issueExistingSession(k) ==
    /\ Serving(k, "issue")
    /\ issued' = issued \cup {Grant(k, request[k].user)}
    /\ Finish(k)
    /\ UNCHANGED <<users, pending, identity, directory, stored, linked, owners>>

\* (mutation) The identity is written over one that is there.
registerOwnerAnyway(k) ==
    LET s == request[k].subject
    IN  /\ Serving(k, "register")
        /\ FreshUser \in Accounts
        /\ users' = users \cup {FreshUser}
        /\ identity' = [identity EXCEPT ![s] = FreshUser]
        /\ directory' = [directory EXCEPT ![s] = FreshUser]
        /\ owners' = [owners EXCEPT ![s] = @ \cup {FreshUser}]
        /\ issued' = issued \cup {Grant(k, FreshUser)}
        /\ Finish(k)
        /\ UNCHANGED <<pending, stored, linked>>

\* Tenant, account, identity and session in one transaction, which checks at
\* its end that the directory agrees.
registerOwner(k) ==
    LET s == request[k].subject
    IN  /\ Serving(k, "register")
        /\ FreshUser \in Accounts
        /\ identity[s] = 0
        /\ DirectoryWith(s, FreshUser)[s] = FreshUser
        /\ users' = users \cup {FreshUser}
        /\ identity' = [identity EXCEPT ![s] = FreshUser]
        /\ directory' = DirectoryWith(s, FreshUser)
        /\ owners' = [owners EXCEPT ![s] = @ \cup {FreshUser}]
        /\ issued' = issued \cup {Grant(k, FreshUser)}
        /\ Finish(k)
        /\ UNCHANGED <<pending, stored, linked>>

\* 23505: another request was first with this identity.
registerConflict(k) ==
    /\ Serving(k, "register")
    /\ identity[request[k].subject] # 0
    /\ Proceed(k, "again")
    /\ UNCHANGED <<users, pending, identity, directory, stored, issued, linked,
                   owners>>

-----------------------------------------------------------------------------
(* completeOAuthLink and disconnectProvider.                               *)

\* A disconnection that deleted a row of tokens keeps it locked.
TokensFree(u) == \A k \in Callbacks : request[k].holds => request[k].user # u

linkNew(k) ==
    LET s == request[k].subject
        u == request[k].user
    IN  /\ Serving(k, "link")
        /\ identity[s] = 0
        /\ TokensFree(u)
        /\ identity' = [identity EXCEPT ![s] = u]
        /\ directory' = DirectoryWith(s, u)
        /\ owners' = [owners EXCEPT ![s] = @ \cup {u}]
        /\ stored' = [stored EXCEPT ![u] = s]
        /\ linked' = linked \cup {Grant(k, u)}
        /\ Finish(k)
        /\ UNCHANGED <<users, pending, issued>>

\* The INSERT conflicts and the SELECT finds the user's own identity.
linkOwn(k) ==
    /\ Serving(k, "link")
    /\ identity[request[k].subject] = request[k].user
    /\ Proceed(k, "store")
    /\ UNCHANGED <<users, pending, identity, directory, stored, issued, linked,
                   owners>>

\* (mutation) The owner of the identity is not compared.
linkTakenStores(k) ==
    /\ Serving(k, "link")
    /\ identity[request[k].subject] \notin {0, request[k].user}
    /\ Proceed(k, "store")
    /\ UNCHANGED <<users, pending, identity, directory, stored, issued, linked,
                   owners>>
\* The identity belongs to someone else: 409.
linkTaken(k) ==
    /\ Serving(k, "link")
    /\ identity[request[k].subject] \notin {0, request[k].user}
    /\ Finish(k)
    /\ UNCHANGED <<users, pending, identity, directory, stored, issued, linked,
                   owners>>

storeTokens(k) ==
    LET u == request[k].user
    IN  /\ Serving(k, "store")
        /\ TokensFree(u)
        /\ stored' = [stored EXCEPT ![u] = request[k].subject]
        /\ linked' = linked \cup {Grant(k, u)}
        /\ Finish(k)
        /\ UNCHANGED <<users, pending, identity, directory, issued, owners>>

\* The first DELETE; nobody sees it before the COMMIT.
deleteTokens(k, u) ==
    /\ Serving(k, "idle")
    /\ u \in users
    /\ TokensFree(u)
    /\ request' = [request EXCEPT ![k] = [NoRequest EXCEPT
                     !.pc = "unlink", !.user = u, !.holds = stored[u] # NoSubject]]
    /\ UNCHANGED <<users, pending, identity, directory, stored, issued, linked,
                   owners>>

\* The second DELETE and the COMMIT.
deleteIdentities(k) ==
    LET u == request[k].user
    IN  /\ Serving(k, "unlink")
        /\ identity' = [s \in Subjects |-> IF identity[s] = u THEN 0 ELSE identity[s]]
        /\ directory' = DirectoryWithout(u)
        /\ stored' = IF request[k].holds THEN [stored EXCEPT ![u] = NoSubject] ELSE stored
        /\ Finish(k)
        /\ UNCHANGED <<users, pending, issued, linked, owners>>

-----------------------------------------------------------------------------

SignInStep(k) ==
    \/ resolveIdentity(k) \/ issueExistingSession(k) \/ registerOwner(k)
    \/ registerConflict(k)

LinkStep(k) == linkNew(k) \/ linkOwn(k) \/ linkTaken(k) \/ storeTokens(k)

OAuthNext ==
    \/ registerLocally
    \/ \E st \in LoginStates : createPendingLogin(st)
    \/ \E st \in LinkStates, u \in Accounts : createPendingAuthorization(st, u)
    \/ \E st \in AuthStates : stateExpires(st)
    \/ \E k \in Callbacks :
          \/ \E st \in AuthStates : consume(k, st)
          \/ \E s \in Subjects : exchangeCode(k, s)
          \/ SignInStep(k) \/ LinkStep(k) \/ gives(k)
          \/ \E u \in Accounts : deleteTokens(k, u)
          \/ deleteIdentities(k)

OAuthSpec == OAuthInit /\ [][OAuthNext]_oauthVars

-----------------------------------------------------------------------------
(* Properties.                                                             *)

OAuthTypeOK ==
    /\ users \subseteq Accounts
    /\ pending \in [AuthStates -> [user: 0..NumUsers, open: BOOLEAN, started: BOOLEAN]]
    /\ identity \in [Subjects -> 0..NumUsers]
    /\ directory \in [Subjects -> 0..NumUsers]
    /\ stored \in [Accounts -> Subjects \cup {NoSubject}]
    /\ request \in [Callbacks ->
          [pc: {"idle", "exchange", "resolve", "register", "again", "issue", "link",
                "store", "unlink"},
           state: AuthStates \cup {0}, user: 0..NumUsers,
           subject: Subjects \cup {NoSubject}, holds: BOOLEAN]]
    /\ issued \subseteq LoginStates \X Subjects \X Accounts
    /\ linked \subseteq LinkStates \X Subjects \X Accounts
    /\ owners \in [Subjects -> SUBSET Accounts]

\* However often a callback is delivered, its state signs in or links once, and
\* a link is made for the user who started it.
StateUsedOnce ==
    /\ \A g, h \in issued \cup linked : g[1] = h[1] => g = h
    /\ \A g \in linked : g[3] = pending[g[1]].user

\* The directory, which sign-in reads before it knows a tenant, always names
\* the account that the tenant's own table names.
DirectoryMatches == directory = identity

\* Sessions and stored tokens only go to an account that the subject has or
\* had: never to a user whose identity was found with somebody else.
GrantsFollowOwners ==
    /\ \A g \in issued : g[3] \in owners[g[2]]
    /\ \A u \in Accounts : stored[u] # NoSubject => u \in owners[stored[u]]

\* Together: the directory, the sessions and the stored tokens agree with the
\* tenants' identities on who an external subject is.
OwnersAgree == DirectoryMatches /\ GrantsFollowOwners

\* An identity leaves an account only by that account's own disconnection, so
\* concurrent first sign-ins with one identity end in one account.
IdentityKeepsOwner ==
    [][\A s \in Subjects :
          identity[s] # 0 /\ identity'[s] # identity[s]
          => /\ identity'[s] = 0
             /\ \E k \in Callbacks : /\ Serving(k, "unlink")
                                     /\ request[k].user = identity[s]
                                     /\ request'[k].pc = "idle"]_oauthVars

\* production-oauth-api.js: the answer to a disconnection names 'stored_tokens'
\* and 'account_link' as deleted, so tokens do not outlive the link.
TokensHaveIdentity ==
    \A u \in Accounts : stored[u] # NoSubject => \E s \in Subjects : identity[s] = u
=============================================================================
