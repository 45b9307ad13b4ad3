----------------------------- MODULE TikTokTokens -----------------------------
(***************************************************************************)
(* The tokens of one TikTok account: linking (the OAuth callback of        *)
(* tiktok-api.js), reading and refreshing (token-service.js over           *)
(* refreshTokenWithLock) and disconnecting.  Database statements of one    *)
(* transaction are one action, except that refreshTokenWithLock keeps its  *)
(* row lock while it calls TikTok, so it is a sequence of actions under    *)
(* `lock`.  The provider rotates refresh tokens: a used one is replaced.   *)
(*                                                                         *)
(* A grant's number stands for its access token and for the refresh token  *)
(* that came with it, if one did; 0 is no token.  The provider is taken to *)
(* accept a refresh token until it is rotated or the consent is withdrawn, *)
(* whatever it issues meanwhile, and to issue access tokens for more than  *)
(* five minutes.                                                           *)
(*                                                                         *)
(* life is how long the stored access token still lives: 2 is more than    *)
(* the five minutes of refreshBufferMs, 1 is more than the minute of       *)
(* refreshTokenWithLock, 0 is less.                                        *)
(***************************************************************************)
EXTENDS Integers, FiniteSets

CONSTANTS
    Callers,       \* requests and workers that use the account
    MaxGrant,      \* grants the provider may issue
    SealedForRow,  \* whether the linker sealed the tokens for the row's id
    None

ASSUME TokenConstants == MaxGrant \in Nat /\ SealedForRow \in BOOLEAN /\ None \notin Callers

VARIABLES
    row,        \* the row of tiktok_accounts
    lock,       \* who holds the row lock
    calls,      \* the progress of each caller
    answer,     \* what getValidAccessToken returned last
    issued,     \* provider: grants issued so far
    valid,      \* provider: refresh tokens it accepts
    live,       \* provider: access tokens it accepts
    lost,       \* history: refresh tokens rotated away for an answer that was
                \* lost, or withdrawn
    brought,    \* history: a link since the last disconnection brought a
                \* refresh token
    herd        \* history: refreshes accepted and not lost since time last passed

vars == <<row, lock, calls, answer, issued, valid, live, lost, brought, herd>>
provider == <<issued, valid, live>>
history == <<lost, brought, herd>>

Grants == 1..MaxGrant
Statuses == {"absent", "connected", "reauth_required", "error", "disconnected"}
Lives == 0..2

Idle == [pc |-> "idle", grant |-> 0, refresh |-> 0]
PCs == {"idle", "wantLock", "calling", "granted", "revoking", "disconnecting",
        "linking"}

Init ==
    /\ row = [status |-> "absent", access |-> 0, refresh |-> 0, life |-> 0]
    /\ lock = None
    /\ calls = [c \in Callers |-> Idle]
    /\ answer = "none"
    /\ issued = 0
    /\ valid = {}
    /\ live = {}
    /\ lost = {}
    /\ brought = FALSE
    /\ herd = 0

Goto(c, pc, grant, refresh) ==
    calls' = [calls EXCEPT ![c] = [pc |-> pc, grant |-> grant,
                                   refresh |-> refresh]]
Return(c, a) ==
    /\ calls' = [calls EXCEPT ![c] = Idle]
    /\ answer' = a

\* (mutation) A SELECT without FOR UPDATE.
UnlockedAlways == TRUE
\* Any other statement on the row waits for the holder of its lock.
Unlocked == lock = None

\* decryptToken: null for a revoked token, an exception for a foreign envelope.
Opened(access) ==
    IF access = 0 THEN "null" ELSE IF SealedForRow THEN "token" ELSE "broken"

-----------------------------------------------------------------------------
(* Linking: the code is exchanged first, the row written afterwards.       *)

\* The answer may hold no refresh token.
exchange(c) ==
    /\ calls[c].pc = "idle"
    /\ issued < MaxGrant
    /\ issued' = issued + 1
    /\ live' = live \cup {issued'}
    /\ \/ /\ valid' = valid \cup {issued'}
          /\ Goto(c, "linking", issued', issued')
       \/ /\ Goto(c, "linking", issued', 0)
          /\ UNCHANGED valid
    /\ UNCHANGED <<row, lock, answer, history>>

\* COALESCE(EXCLUDED.refresh_token_ciphertext, ...)
Coalesced(new, old) == IF new # 0 THEN new ELSE old

\* A link that brought no refresh token keeps the one in the row.
upsertAccount(c) ==
    /\ calls[c].pc = "linking"
    /\ Unlocked
    /\ row' = [status |-> "connected", access |-> calls[c].grant,
               refresh |-> Coalesced(calls[c].refresh, row.refresh), life |-> 2]
    /\ brought' = (brought \/ calls[c].refresh # 0)
    /\ calls' = [calls EXCEPT ![c] = Idle]
    /\ UNCHANGED <<lock, answer, provider, lost, herd>>

-----------------------------------------------------------------------------
(* getValidAccessToken.                                                    *)

\* refreshBufferMs is five minutes, or Infinity when a refresh is forced.
NeedsRefresh(forced) == forced \/ row.life < 2

readUnusable(c) ==
    /\ calls[c].pc = "idle"
    /\ row.status # "connected"
    /\ Return(c, "refused")
    /\ UNCHANGED <<row, lock, provider, history>>

readFresh(c) ==
    /\ calls[c].pc = "idle"
    /\ row.status = "connected"
    /\ ~NeedsRefresh(FALSE)
    /\ Return(c, Opened(row.access))
    /\ UNCHANGED <<row, lock, provider, history>>

readStale(c) ==
    /\ calls[c].pc = "idle"
    /\ row.status = "connected"
    /\ \E forced \in BOOLEAN : NeedsRefresh(forced)
    /\ Goto(c, "wantLock", 0, 0)
    /\ UNCHANGED <<row, lock, answer, provider, history>>

\* (mutation) No second look under the lock.
RefreshedNever == FALSE
\* Someone refreshed while this caller waited: the transaction ends at once.
Refreshed == row.life > 0

lockAndReuse(c) ==
    /\ calls[c].pc = "wantLock"
    /\ Unlocked
    /\ Refreshed
    /\ Return(c, Opened(row.access))
    /\ UNCHANGED <<row, lock, provider, history>>

\* The catch of refreshTokenWithLock marks the row `status` and rethrows;
\* withTenant's transaction rolls that back with everything else.
RolledBack(status) == row

\* (mutation) The transaction of a failed refresh is never ended.
failsHolding(c, status) ==
    /\ row' = RolledBack(status)
    /\ lock' = c
    /\ Return(c, IF status = "reauth_required" THEN "reauth" ELSE "refused")
fails(c, status) ==
    /\ row' = RolledBack(status)
    /\ lock' = None
    /\ Return(c, IF status = "reauth_required" THEN "reauth" ELSE "refused")

\* No refresh token, or one this service cannot open: refreshFn throws.
lockAndFail(c) ==
    /\ calls[c].pc = "wantLock"
    /\ Unlocked
    /\ ~Refreshed
    /\ row.refresh = 0 \/ ~SealedForRow
    /\ fails(c, IF row.refresh = 0 THEN "reauth_required" ELSE "error")
    /\ UNCHANGED <<provider, history>>

lockAndCall(c) ==
    /\ calls[c].pc = "wantLock"
    /\ Unlocked
    /\ ~Refreshed
    /\ row.refresh # 0
    /\ SealedForRow
    /\ lock' = c
    /\ Goto(c, "calling", 0, row.refresh)
    /\ UNCHANGED <<row, answer, provider, history>>

\* The provider issues a grant for refresh token r: with a new refresh token,
\* or with the access token alone.
Issue(r, rotates) ==
    /\ r \in valid
    /\ issued < MaxGrant
    /\ issued' = issued + 1
    /\ live' = live \cup {issued'}
    /\ valid' = IF rotates THEN (valid \ {r}) \cup {issued'} ELSE valid

\* A response without a refresh token keeps the one that was sent.
KeptOrNew(c, rotates) == IF rotates THEN issued + 1 ELSE calls[c].refresh

refreshAccepted(c) ==
    /\ calls[c].pc = "calling"
    /\ \E rotates \in BOOLEAN :
          /\ Issue(calls[c].refresh, rotates)
          /\ Goto(c, "granted", issued + 1, KeptOrNew(c, rotates))
    /\ herd' = herd + 1
    /\ UNCHANGED <<row, lock, answer, lost, brought>>

\* A grant is lost, and with it the stored token if that was rotated away.
Lose == lost' = lost \cup ({row.refresh} \ valid')

refreshAnswerLost(c) ==
    /\ calls[c].pc = "calling"
    /\ \E rotates \in BOOLEAN : Issue(calls[c].refresh, rotates)
    /\ Lose
    /\ fails(c, "error")
    /\ UNCHANGED <<brought, herd>>

\* Refused by the provider, or no connection to it.
refreshRefused(c) ==
    /\ calls[c].pc = "calling"
    /\ \/ calls[c].refresh \notin valid /\ fails(c, "reauth_required")
       \/ fails(c, "error")
    /\ UNCHANGED <<provider, history>>

commitRefresh(c) ==
    /\ calls[c].pc = "granted"
    /\ row' = [status |-> "connected", access |-> calls[c].grant,
               refresh |-> calls[c].refresh, life |-> 2]
    /\ lock' = IF lock = c THEN None ELSE lock
    /\ Return(c, "token")
    /\ UNCHANGED <<provider, history>>

-----------------------------------------------------------------------------
(* disconnectAccount: read, revoke what was read, then write.              *)

disconnectRead(c) ==
    /\ calls[c].pc = "idle"
    /\ row.status # "absent"
    /\ Goto(c, IF row.access # 0 /\ SealedForRow THEN "revoking"
               ELSE "disconnecting", row.access, 0)
    /\ UNCHANGED <<row, lock, answer, provider, history>>

revoke(c) ==
    /\ calls[c].pc = "revoking"
    /\ live' = live \ {calls[c].grant}
    /\ Goto(c, "disconnecting", calls[c].grant, 0)
    /\ UNCHANGED <<row, lock, answer, issued, valid, history>>

\* revokeTikTokToken answers as if it had been done.
revokeFails(c) ==
    /\ calls[c].pc = "revoking"
    /\ Goto(c, "disconnecting", 0, 0)
    /\ UNCHANGED <<row, lock, answer, provider, history>>

\* (mutation) A status the table's CHECK does not list.
DisconnectedUnlisted ==
    [row EXCEPT !.status = "revoked", !.access = 0, !.refresh = 0]
\* (mutation) The refresh token stays in the row.
DisconnectedKeepsRefresh ==
    [row EXCEPT !.status = "disconnected", !.access = 0]
\* token_expires_at is left as it was.
Disconnected == [row EXCEPT !.status = "disconnected", !.access = 0,
                            !.refresh = 0]

disconnectWrite(c) ==
    /\ calls[c].pc = "disconnecting"
    /\ Unlocked
    /\ row' = Disconnected
    /\ brought' = FALSE
    /\ Goto(c, "idle", 0, 0)
    /\ UNCHANGED <<lock, answer, provider, lost, herd>>

-----------------------------------------------------------------------------
(* The environment.                                                        *)

\* A process dies: its transaction is rolled back and its lock released.
crash(c) ==
    /\ calls[c].pc # "idle"
    /\ calls' = [calls EXCEPT ![c] = Idle]
    /\ lock' = IF lock = c THEN None ELSE lock
    /\ UNCHANGED <<row, answer, provider, brought>>
    /\ IF calls[c].pc = "granted" THEN Lose /\ herd' = herd - 1
                                  ELSE UNCHANGED <<lost, herd>>

\* The user withdraws the consent at TikTok.
withdraw ==
    /\ valid # {}
    /\ valid' = {}
    /\ live' = {}
    /\ lost' = lost \cup valid
    /\ UNCHANGED <<row, lock, calls, answer, issued, brought, herd>>

\* A refresh is over long before a token it obtained runs out.
time ==
    /\ row.life > 0
    /\ \A c \in Callers : calls[c].pc \notin {"calling", "granted"}
    /\ row' = [row EXCEPT !.life = @ - 1]
    /\ herd' = 0
    /\ UNCHANGED <<lock, calls, answer, provider, lost, brought>>

Refresh(c) ==
    \/ lockAndReuse(c) \/ lockAndFail(c) \/ lockAndCall(c)
    \/ refreshAccepted(c) \/ refreshAnswerLost(c) \/ refreshRefused(c)
    \/ commitRefresh(c)

Next ==
    \/ \E c \in Callers :
          \/ exchange(c) \/ upsertAccount(c)
          \/ readUnusable(c) \/ readFresh(c) \/ readStale(c) \/ Refresh(c)
          \/ disconnectRead(c) \/ revoke(c) \/ revokeFails(c)
          \/ disconnectWrite(c) \/ crash(c)
    \/ withdraw
    \/ time

Spec == Init /\ [][Next]_vars

\* The lock is granted in order of arrival; a call to TikTok ends, if only
\* because the connection does.
FairSpec ==
    /\ Spec
    /\ \A c \in Callers :
          /\ SF_vars(lockAndReuse(c) \/ lockAndFail(c) \/ lockAndCall(c))
          /\ WF_vars(refreshAccepted(c) \/ refreshAnswerLost(c)
                     \/ refreshRefused(c))
          /\ WF_vars(commitRefresh(c))

-----------------------------------------------------------------------------
(* Properties.                                                             *)

\* The types of the account row, the calls and TikTok.
TokensTypeOK ==
    /\ row \in [status: Statuses, access: Grants \cup {0},
                refresh: Grants \cup {0}, life: Lives]
    /\ lock \in Callers \cup {None}
    /\ calls \in [Callers -> [pc: PCs, grant: Grants \cup {0},
                              refresh: Grants \cup {0}]]
    /\ answer \in {"none", "refused", "reauth", "token", "null", "broken"}
    /\ issued \in 0..MaxGrant
    /\ valid \subseteq Grants
    /\ live \subseteq Grants
    /\ lost \subseteq Grants
    /\ brought \in BOOLEAN
    /\ herd \in Nat

\* Once a link brought a refresh token, and until the account is disconnected,
\* the row holds one: one that TikTok accepts, unless that very token was lost
\* (rotated away for an answer that never reached the row, or withdrawn), or a
\* refresh under the row lock is between TikTok's answer and its commit.
\* Concurrent refreshes, links with and without a refresh token of their own
\* and disconnections never leave a token that another caller used up.
StoredRefreshIsCurrent ==
    brought =>
       \/ row.refresh \in valid \cup lost
       \/ \E c \in Callers : lock = c /\ calls[c].pc = "granted"

\* Only a new consent reconnects a disconnected account: no refresh that began
\* before the disconnection brings it back.
DisconnectStays ==
    [][row.status = "disconnected" /\ row'.status # "disconnected"
       => \E c \in Callers : calls[c].pc = "linking" /\ calls'[c].pc = "idle"]_vars

\* Of all the callers that find the token expired at one time, one obtains a
\* grant and keeps it; the others find its result under the lock.
HerdRefreshesOnce == herd <= 1

\* refreshTokenWithLock never keeps its row lock for good, so every caller that
\* waits for it is answered.
WaitersAnswered ==
    \A c \in Callers : calls[c].pc = "wantLock" ~> calls[c].pc = "idle"

\* token-service.js:45: getValidAccessToken "retrieves a valid, unexpired
\* access token", so it never answers with no token at all.
AnswersAreTokens == answer # "null"

\* token-service.js:45: it does so "for a connected TikTok account", so it can
\* open what the callback stored.
ConnectedIsUsable == answer # "broken"

\* A refresh refused as REAUTH_REQUIRED leaves the account marked
\* reauth_required (test/tiktok-accounts-repo.test.js:206).
RefusalIsRecorded ==
    [][\A c \in Callers :
          calls[c].pc = "calling" /\ calls'[c].pc = "idle" /\ answer' = "reauth"
          => row'.status = "reauth_required"]_vars

\* SECURITY.md:36 "Revoke on disconnect": when a revocation succeeded, the
\* access token the row loses by being disconnected is one TikTok has revoked.
DisconnectRevokes ==
    [][\A c \in Callers :
          /\ calls[c].pc = "disconnecting" /\ calls'[c].pc = "idle"
          /\ calls[c].grant # 0
          /\ row.status = "connected" /\ row'.status = "disconnected"
          => row.access \notin live]_vars

\* token-service.js:46: a token that is "expired or expiring soon (within 5
\* minutes)" is refreshed before it is handed out.
ExpiringSoonIsRefreshed ==
    [][\A c \in Callers :
          calls[c].pc = "wantLock" /\ calls'[c].pc = "idle"
          /\ answer' = "token" => row'.life = 2]_vars
=============================================================================
