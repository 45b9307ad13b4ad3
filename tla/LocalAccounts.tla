---------------------------- MODULE LocalAccounts ----------------------------
(***************************************************************************)
(* A local account: its password, its sessions and its recovery tokens     *)
(* (auth-repo.js, auth-service.js).  Accounts share nothing, so one stands *)
(* for all.  A request awaits between its transactions, and                *)
(* createRecoveryToken counts and inserts in one transaction without a     *)
(* lock: both are divided here.  The other transactions claim a row and    *)
(* work on its account; each is one action.                                *)
(*                                                                         *)
(* A password is the number of passwords the account has had.              *)
(***************************************************************************)
EXTENDS Integers, FiniteSets

CONSTANTS
    AuthRequests,    \* requests being served
    SessionTokens,   \* tokens login may generate
    RecoveryTokens,  \* tokens of requestPasswordReset, requestEmailVerification
    MaxRecent        \* createRecoveryToken's maxRecent

ASSUME AccountConstants ==
    /\ IsFiniteSet(AuthRequests) /\ IsFiniteSet(RecoveryTokens)
    /\ MaxRecent \in Nat \ {0}

VARIABLES
    password,     \* local_auth_users: 0 before the registration
    verified,     \* email_verified
    sessions,     \* auth_sessions, with the password their login compared
    recovery,     \* auth_recovery_tokens
    authRequest   \* the progress of each request

accountVars == <<password, verified, sessions, recovery, authRequest>>

Purposes == {"password_reset", "email_verify"}
IdleAuth == [pc |-> "idle", purpose |-> "none", seen |-> 0]

AccountsInit ==
    /\ password = 0
    /\ verified = FALSE
    /\ sessions = [s \in SessionTokens |-> [state |-> "unused", seen |-> 0]]
    /\ recovery = [t \in RecoveryTokens |->
                     [purpose |-> "none", state |-> "unused", recent |-> FALSE]]
    /\ authRequest = [r \in AuthRequests |-> IdleAuth]

Awaits(r, pc) == authRequest[r].pc = pc
Settle(r) == authRequest' = [authRequest EXCEPT ![r] = IdleAuth]

\* createTenantOwner: a tenant of its own, so nothing can conflict.
register ==
    /\ password = 0
    /\ password' = 1
    /\ UNCHANGED <<verified, sessions, recovery, authRequest>>

\* The process dies, or the database throws: an open transaction is undone.
abandon(r) ==
    /\ ~Awaits(r, "idle")
    /\ Settle(r)
    /\ UNCHANGED <<password, verified, sessions, recovery>>

-----------------------------------------------------------------------------
(* Sessions.                                                               *)

\* findCredentialsByEmail; the password is compared outside a transaction.
findCredentials(r) ==
    /\ Awaits(r, "idle")
    /\ password > 0
    /\ authRequest' = [authRequest EXCEPT ![r] =
                         [pc |-> "login", purpose |-> "none", seen |-> password]]
    /\ UNCHANGED <<password, verified, sessions, recovery>>

createSession(r, s) ==
    /\ Awaits(r, "login")
    /\ sessions[s].state = "unused"
    /\ sessions' = [sessions EXCEPT ![s] = [state |-> "active", seen |-> authRequest[r].seen]]
    /\ Settle(r)
    /\ UNCHANGED <<password, verified, recovery>>

Ended(ss) == [s \in SessionTokens |->
                IF s \in ss THEN [state |-> "ended", seen |-> 0] ELSE sessions[s]]
Active == {s \in SessionTokens : sessions[s].state = "active"}

\* logout, or seven days.
endSession(s) ==
    /\ s \in Active
    /\ sessions' = Ended({s})
    /\ UNCHANGED <<password, verified, recovery, authRequest>>

-----------------------------------------------------------------------------
(* Recovery.                                                               *)

\* requestEmailVerification answers at once for a verified account.
requestRecovery(r, purpose) ==
    /\ Awaits(r, "idle")
    /\ password > 0
    /\ purpose = "email_verify" => ~verified
    /\ authRequest' = [authRequest EXCEPT ![r] =
                         [pc |-> "count", purpose |-> purpose, seen |-> 0]]
    /\ UNCHANGED <<password, verified, sessions, recovery>>

RecentTokens(purpose) ==
    {t \in RecoveryTokens : /\ recovery[t].purpose = purpose
                            /\ recovery[t].state = "open" /\ recovery[t].recent}

\* (mutation) The limit itself is let through.
countRecentInclusive(r) ==
    /\ Awaits(r, "count")
    /\ IF Cardinality(RecentTokens(authRequest[r].purpose)) <= MaxRecent
       THEN authRequest' = [authRequest EXCEPT ![r].pc = "insert"]
       ELSE Settle(r)
    /\ UNCHANGED <<password, verified, sessions, recovery>>
countRecent(r) ==
    /\ Awaits(r, "count")
    /\ IF Cardinality(RecentTokens(authRequest[r].purpose)) < MaxRecent
       THEN authRequest' = [authRequest EXCEPT ![r].pc = "insert"]
       ELSE Settle(r)
    /\ UNCHANGED <<password, verified, sessions, recovery>>

insertToken(r, t) ==
    /\ Awaits(r, "insert")
    /\ recovery[t].state = "unused"
    /\ recovery' = [recovery EXCEPT ![t] =
                      [purpose |-> authRequest[r].purpose, state |-> "open", recent |-> TRUE]]
    /\ Settle(r)
    /\ UNCHANGED <<password, verified, sessions>>

\* The rate window is shorter than the life of any token.
windowPasses(t) ==
    /\ recovery[t].recent
    /\ recovery' = [recovery EXCEPT ![t].recent = FALSE]
    /\ UNCHANGED <<password, verified, sessions, authRequest>>

tokenExpires(t) ==
    /\ recovery[t].state = "open" /\ ~recovery[t].recent
    /\ recovery' = [recovery EXCEPT ![t].state = "expired"]
    /\ UNCHANGED <<password, verified, sessions, authRequest>>

\* (mutation) used_at IS NULL is missing.
ClaimableAgain(t) == recovery[t].state \in {"open", "used"}
Claimable(t) == recovery[t].state = "open"

Claim(t, purpose) ==
    /\ Claimable(t)
    /\ recovery[t].purpose = purpose
    /\ recovery' = [recovery EXCEPT ![t].state = "used", ![t].recent = FALSE]

confirmEmailVerification(t) ==
    /\ Claim(t, "email_verify")
    /\ verified' = TRUE
    /\ UNCHANGED <<password, sessions, authRequest>>

\* (mutation) The sessions are left to run out.
resetPasswordOnly(t) ==
    /\ Claim(t, "password_reset")
    /\ password' = password + 1
    /\ UNCHANGED <<verified, sessions, authRequest>>
resetPassword(t) ==
    /\ Claim(t, "password_reset")
    /\ password' = password + 1
    /\ sessions' = Ended(Active)
    /\ UNCHANGED <<verified, authRequest>>

-----------------------------------------------------------------------------

SessionStep ==
    \/ \E r \in AuthRequests : findCredentials(r) \/ \E s \in SessionTokens : createSession(r, s)
    \/ \E s \in SessionTokens : endSession(s)

RecoveryStep ==
    \/ \E r \in AuthRequests :
          \/ \E purpose \in Purposes : requestRecovery(r, purpose)
          \/ countRecent(r)
          \/ \E t \in RecoveryTokens : insertToken(r, t)
    \/ \E t \in RecoveryTokens :
          windowPasses(t) \/ tokenExpires(t) \/ confirmEmailVerification(t) \/ resetPassword(t)

AccountsNext ==
    \/ register
    \/ SessionStep
    \/ RecoveryStep
    \/ \E r \in AuthRequests : abandon(r)

AccountsSpec == AccountsInit /\ [][AccountsNext]_accountVars

-----------------------------------------------------------------------------
(* Properties.                                                             *)

AccountsTypeOK ==
    /\ password \in 0..Cardinality(RecoveryTokens) + 1
    /\ verified \in BOOLEAN
    /\ sessions \in [SessionTokens ->
          [state: {"unused", "active", "ended"}, seen: 0..Cardinality(RecoveryTokens) + 1]]
    /\ recovery \in [RecoveryTokens ->
          [purpose: Purposes \cup {"none"}, state: {"unused", "open", "used", "expired"},
           recent: BOOLEAN]]
    /\ authRequest \in [AuthRequests ->
          [pc: {"idle", "login", "count", "insert"}, purpose: Purposes \cup {"none"},
           seen: 0..Cardinality(RecoveryTokens) + 1]]

\* After a reset, which revokes the sessions it finds, only logins that were on
\* their way when it happened can have a session under an older password: never
\* more of them than requests run at once.
OnlyLateLoginsRemain ==
    Cardinality({s \in Active : sessions[s].seen < password})
      + Cardinality({r \in AuthRequests : Awaits(r, "login") /\ authRequest[r].seen < password})
      <= Cardinality(AuthRequests)

\* createRecoveryToken counts without a lock, so requests that count together
\* exceed the limit, but by fewer than there are requests.
RecoveryIsBounded ==
    \A purpose \in Purposes :
        Cardinality(RecentTokens(purpose))
          + Cardinality({r \in AuthRequests : /\ Awaits(r, "insert")
                                              /\ authRequest[r].purpose = purpose})
          <= MaxRecent + Cardinality(AuthRequests) - 1

\* Every change of the password has spent a token of its own, and an address is
\* verified exactly when a token for it was spent.
TokensPayForChanges ==
    LET used(purpose) == {t \in RecoveryTokens :
                            recovery[t].purpose = purpose /\ recovery[t].state = "used"}
    IN  /\ password > 0 => password = 1 + Cardinality(used("password_reset"))
        /\ verified <=> used("email_verify") # {}

\* Together: an account only changes by a token of its own, few of which are
\* about at once, and a change leaves no more strangers in than were entering.
AccountsHold == OnlyLateLoginsRemain /\ RecoveryIsBounded /\ TokensPayForChanges
=============================================================================
