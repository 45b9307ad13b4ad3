-------------------------- MODULE TikTokTokens_proofs --------------------------
(***************************************************************************)
(* What the row lock of refreshTokenWithLock guarantees for any number of  *)
(* callers and grants: the refresh token stored is one TikTok accepts,     *)
(* one caller of a herd refreshes, and a disconnected account stays so.    *)
(***************************************************************************)
EXTENDS TikTokTokens, TLAPS

\* Only the holder of the row lock calls TikTok or waits to commit.
LockInv == \A c \in Callers : calls[c].pc \in {"calling", "granted"} => lock = c

\* Only a connected row holds a refresh token, and it does when a link brought one.
RowInv ==
    /\ row.status \in {"absent", "connected", "disconnected"}
    /\ row.refresh # 0 => row.status = "connected"
    /\ brought <=> row.refresh # 0
    /\ row.refresh <= issued

\* Under the lock the row stays what the refresh began with.
RefreshInv ==
    \A c \in Callers :
       /\ calls[c].pc = "calling" => /\ row.life = 0
                                     /\ row.refresh # 0
                                     /\ row.refresh = calls[c].refresh
       /\ calls[c].pc = "granted" => /\ row.refresh # 0
                                     /\ calls[c].refresh # 0
                                     /\ calls[c].refresh <= issued
                                     /\ calls[c].refresh \in valid \cup lost

\* The refresh token a linker holds is its own: no refresh can have used it up.
LinkInv ==
    \A c \in Callers : calls[c].pc = "linking" =>
       /\ calls[c].refresh <= issued
       /\ calls[c].refresh # 0 =>
             /\ calls[c].refresh \in valid \cup lost
             /\ calls[c].refresh # row.refresh
             /\ \A d \in Callers \ {c} :
                   calls[d].pc \in {"linking", "granted"} =>
                      calls[d].refresh # calls[c].refresh

\* A refresh that was accepted is being committed, or has made the row fresh.
HerdInv ==
    /\ herd \in {0, 1}
    /\ herd = 1 => row.life > 0 \/ \E c \in Callers : calls[c].pc = "granted"
    /\ (\E c \in Callers : calls[c].pc = "granted") => herd = 1

TokensInv ==
    /\ TokensTypeOK
    /\ LockInv
    /\ RowInv
    /\ RefreshInv
    /\ LinkInv
    /\ HerdInv
    /\ StoredRefreshIsCurrent

Answers == {"none", "refused", "reauth", "token", "null", "broken"}
CallRecs == [pc : PCs, grant : Grants \cup {0}, refresh : Grants \cup {0}]

\* Nobody has linked the account yet.
THEOREM TokensInitInv == Init => TokensInv
  <1> SUFFICES ASSUME Init PROVE TokensInv
    OBVIOUS
  <1>1. \A c \in Callers : calls[c].pc = "idle"
    BY DEF Init, Idle
  <1>2. TokensTypeOK
    <2>1. /\ row \in [status : Statuses, access : Grants \cup {0},
                      refresh : Grants \cup {0}, life : Lives]
          /\ calls \in [Callers -> [pc : PCs, grant : Grants \cup {0},
                                    refresh : Grants \cup {0}]]
      BY DEF Init, Statuses, Lives, Idle, PCs
    <2>2. lost \subseteq Grants /\ brought \in BOOLEAN
      BY DEF Init
    <2>3. /\ lock \in Callers \cup {None}
          /\ answer \in {"none", "refused", "reauth", "token", "null", "broken"}
          /\ issued \in 0..MaxGrant /\ valid \subseteq Grants /\ live \subseteq Grants
          /\ herd \in Nat
      BY TokenConstants DEF Init
    <2>4. QED
      BY <2>1, <2>2, <2>3 DEF TokensTypeOK
  <1>3. LockInv /\ RefreshInv /\ LinkInv
    BY <1>1 DEF LockInv, RefreshInv, LinkInv
  <1>4. RowInv /\ HerdInv /\ StoredRefreshIsCurrent
    BY <1>1 DEF Init, RowInv, HerdInv, StoredRefreshIsCurrent
  <1>5. QED
    BY <1>2, <1>3, <1>4 DEF TokensInv

\* Grants and their numbers.
LEMMA GrantTypes ==
    ASSUME TokensInv
    PROVE  /\ issued \in Nat /\ row.refresh \in Nat /\ row.refresh \in Grants \cup {0}
           /\ row.life \in 0..2
           /\ calls \in [Callers -> CallRecs]
           /\ \A c \in Callers : calls[c] \in CallRecs /\ calls[c].refresh \in Nat
  BY TokenConstants DEF TokensInv, TokensTypeOK, Grants, CallRecs, Lives

\* A caller goes where it neither calls, commits nor links; of a grant it had,
\* the loss is noted.
LEMMA LeaveInv ==
    ASSUME TokensInv, NEW c \in Callers, NEW new \in CallRecs,
           calls' = [calls EXCEPT ![c] = new],
           new.pc \notin {"calling", "granted", "linking"},
           UNCHANGED <<row, issued, valid, brought>>,
           lock' = lock \/ (lock' = None /\ lock \in {c, None}),
           lost \subseteq lost', lost' \subseteq Grants,
           calls[c].pc = "granted" => row.refresh \in valid \cup lost' /\ herd' = herd - 1,
           calls[c].pc # "granted" => herd' = herd,
           live' \subseteq Grants, answer' \in Answers
    PROVE  TokensInv'
  <1>1. /\ calls'[c] = new
        /\ \A d \in Callers : d # c => calls'[d] = calls[d]
        /\ calls' \in [Callers -> CallRecs]
    BY GrantTypes
  <1>2. LockInv'
    BY <1>1, TokenConstants DEF TokensInv, LockInv
  <1>3. RowInv' /\ RefreshInv'
    BY <1>1 DEF TokensInv, RowInv, RefreshInv
  <1>4. LinkInv'
    BY <1>1 DEF TokensInv, LinkInv
  <1>5. HerdInv'
    <2>1. CASE calls[c].pc = "granted"
      <3>1. herd = 1 /\ herd' = 0
        BY <2>1 DEF TokensInv, HerdInv
      <3>2. \A d \in Callers : calls'[d].pc # "granted"
        BY <1>1, <2>1 DEF TokensInv, LockInv
      <3>3. QED
        BY <3>1, <3>2 DEF HerdInv
    <2>2. CASE calls[c].pc # "granted"
      <3>1. \A d \in Callers : calls'[d].pc = "granted" <=> calls[d].pc = "granted"
        BY <1>1, <2>2
      <3>2. QED
        BY <2>2, <3>1 DEF TokensInv, HerdInv
    <2>3. QED
      BY <2>1, <2>2
  <1>6. TokensTypeOK'
    <2>1. herd' \in Nat
      BY <1>5 DEF HerdInv
    <2>2. QED
      BY <1>1, <2>1 DEF TokensInv, TokensTypeOK, CallRecs, Answers
  <1>7. StoredRefreshIsCurrent'
    <2> SUFFICES ASSUME brought, row.refresh \notin valid \cup lost'
                 PROVE  \E d \in Callers : lock' = d /\ calls'[d].pc = "granted"
      BY DEF StoredRefreshIsCurrent
    <2>1. PICK d \in Callers : lock = d /\ calls[d].pc = "granted"
      BY DEF TokensInv, StoredRefreshIsCurrent
    <2>2. d # c
      BY <2>1
    <2>3. lock' = d /\ calls'[d].pc = "granted"
      BY <1>1, <2>1, <2>2, TokenConstants
    <2>4. QED
      BY <2>3
  <1>8. QED
    BY <1>2, <1>3, <1>4, <1>5, <1>6, <1>7 DEF TokensInv

\* Nobody calls TikTok or commits while the row is not locked.
LEMMA UnlockedIsQuiet ==
    ASSUME TokensInv, Unlocked
    PROVE  \A c \in Callers : calls[c].pc \notin {"calling", "granted"}
  BY TokenConstants DEF TokensInv, LockInv, Unlocked

-----------------------------------------------------------------------------
(* One lemma per operation or group of operations.                         *)

\* What Goto and Return make of a caller.
LEMMA CallTypes ==
    ASSUME NEW pc \in PCs, NEW g \in Grants \cup {0}, NEW r \in Grants \cup {0}
    PROVE  /\ [pc |-> pc, grant |-> g, refresh |-> r] \in CallRecs
           /\ Idle \in CallRecs /\ Idle.pc = "idle"
           /\ \A a : Opened(a) \in Answers
  BY DEF CallRecs, Idle, PCs, Opened, Answers

\* Reads, waiting, failures, revocations and deaths.
LEMMA QuietInv ==
    ASSUME TokensInv, NEW c \in Callers,
           \/ readUnusable(c) \/ readFresh(c) \/ readStale(c)
           \/ lockAndReuse(c) \/ lockAndFail(c) \/ refreshRefused(c)
           \/ disconnectRead(c) \/ revoke(c) \/ revokeFails(c) \/ crash(c)
    PROVE  TokensInv' /\ row' = row
  <1>1. /\ lock \in Callers \cup {None} /\ live \subseteq Grants /\ answer \in Answers
        /\ lost \subseteq Grants
        /\ row.access \in Grants \cup {0} /\ calls[c].grant \in Grants \cup {0}
        /\ row.refresh \in Grants \cup {0} /\ 0 \in Grants \cup {0}
    BY DEF TokensInv, TokensTypeOK, Answers
  <1>2. CASE readUnusable(c) \/ readFresh(c) \/ lockAndReuse(c)
    <2>1. /\ calls' = [calls EXCEPT ![c] = Idle]
          /\ UNCHANGED <<row, lock, issued, valid, live, lost, brought, herd>>
          /\ calls[c].pc # "granted"
      BY <1>2 DEF readUnusable, readFresh, lockAndReuse, Return, provider, history
    <2>2. answer' \in Answers
      BY <1>2, CallTypes DEF readUnusable, readFresh, lockAndReuse, Return, Answers, PCs
    <2>3. Idle \in CallRecs /\ Idle.pc \notin {"calling", "granted", "linking"}
      BY DEF CallRecs, Idle, PCs
    <2>4. QED
      BY <1>1, <2>1, <2>2, <2>3, LeaveInv
  <1>3. CASE readStale(c) \/ disconnectRead(c) \/ revoke(c) \/ revokeFails(c)
    <2>1. PICK pc \in {"wantLock", "revoking", "disconnecting"}, g \in Grants \cup {0} :
             /\ calls' = [calls EXCEPT ![c] = [pc |-> pc, grant |-> g, refresh |-> 0]]
             /\ UNCHANGED <<row, lock, answer, issued, valid, lost, brought, herd>>
      BY <1>1, <1>3 DEF readStale, disconnectRead, revoke, revokeFails, Goto, provider, history
    <2>2. pc \in PCs
      BY DEF PCs
    <2>3. live' \subseteq Grants /\ calls[c].pc # "granted"
      BY <1>1, <1>3 DEF readStale, disconnectRead, revoke, revokeFails, provider
    <2> DEFINE new == [pc |-> pc, grant |-> g, refresh |-> 0]
    <2>4. new \in CallRecs /\ new.pc \notin {"calling", "granted", "linking"}
      BY <1>1, <2>2, CallTypes
    <2>5. calls' = [calls EXCEPT ![c] = new] /\ row' = row
      BY <2>1
    <2> HIDE DEF new
    <2>6. UNCHANGED <<issued, valid, lost, brought, herd, lock>> /\ answer' \in Answers
      BY <1>1, <2>1
    <2>7. TokensInv'
      BY <1>1, <2>3, <2>4, <2>5, <2>6, LeaveInv
    <2>8. QED
      BY <2>5, <2>7
  <1>4. CASE lockAndFail(c) \/ refreshRefused(c)
    <2>1. /\ calls' = [calls EXCEPT ![c] = Idle]
          /\ lock' = None /\ answer' \in {"reauth", "refused"}
          /\ UNCHANGED <<row, issued, valid, live, lost, brought, herd>>
      BY <1>4 DEF lockAndFail, refreshRefused, fails, Return, RolledBack, provider, history
    <2>2. lock \in {c, None} /\ calls[c].pc # "granted"
      BY <1>4 DEF lockAndFail, refreshRefused, Unlocked, TokensInv, LockInv
    <2>3. QED
      BY <1>1, <2>1, <2>2, CallTypes, LeaveInv DEF Answers, PCs
  <1>5. CASE crash(c)
    <2>1. /\ calls' = [calls EXCEPT ![c] = Idle]
          /\ lock' = lock \/ (lock' = None /\ lock \in {c, None})
          /\ UNCHANGED <<row, issued, valid, live, answer, brought>>
      BY <1>5 DEF crash, provider
    <2>2. /\ calls[c].pc = "granted" => /\ herd' = herd - 1
                                        /\ lost' = lost \cup ({row.refresh} \ valid')
          /\ calls[c].pc # "granted" => UNCHANGED <<lost, herd>>
      BY <1>5 DEF crash, Lose
    <2>3. Idle \in CallRecs /\ Idle.pc \notin {"calling", "granted", "linking"}
      BY DEF CallRecs, Idle, PCs
    <2>4. /\ lost \subseteq lost' /\ lost' \subseteq Grants
          /\ calls[c].pc = "granted" => row.refresh \in valid \cup lost'
      <3>1. CASE calls[c].pc = "granted"
        <4>1. row.refresh \in Grants
          BY <1>1, <3>1 DEF TokensInv, RefreshInv
        <4>2. QED
          BY <1>1, <2>1, <2>2, <3>1, <4>1
      <3>2. CASE calls[c].pc # "granted"
        BY <1>1, <2>2, <3>2
      <3>3. QED
        BY <3>1, <3>2
    <2>5. live' \subseteq Grants /\ answer' \in Answers
      BY <1>1, <2>1
    <2>6. TokensInv'
      BY <2>1, <2>2, <2>3, <2>4, <2>5, LeaveInv
    <2>7. QED
      BY <2>1, <2>6
  <1>6. QED
    BY <1>2, <1>3, <1>4, <1>5

\* The code is exchanged: a grant that nothing else names, with or without a
\* refresh token.
LEMMA ExchangeInv ==
    ASSUME TokensInv, NEW c \in Callers, exchange(c)
    PROVE  TokensInv' /\ row' = row
  <1>1. PICK refresh \in {0, issued + 1} :
           /\ valid' = IF refresh = 0 THEN valid ELSE valid \cup {issued + 1}
           /\ calls' = [calls EXCEPT ![c] = [pc |-> "linking", grant |-> issued + 1,
                                             refresh |-> refresh]]
    BY GrantTypes DEF exchange, Goto
  <1> DEFINE new == [pc |-> "linking", grant |-> issued + 1, refresh |-> refresh]
  <1>2. /\ calls[c].pc = "idle" /\ issued < MaxGrant
        /\ issued' = issued + 1
        /\ live' = live \cup {issued + 1}
        /\ calls' = [calls EXCEPT ![c] = new]
        /\ UNCHANGED <<row, lock, answer, lost, brought, herd>>
    BY <1>1 DEF exchange, history
  <1>3. issued \in Nat /\ issued + 1 \in Grants /\ refresh \in Grants \cup {0}
        /\ refresh <= issued + 1
    BY <1>1, <1>2, GrantTypes, TokenConstants DEF Grants
  <1>4. new \in CallRecs /\ new.pc = "linking" /\ new.refresh = refresh
    BY <1>3 DEF CallRecs, PCs
  <1> HIDE DEF new
  <1>5. /\ calls'[c] = new
        /\ \A d \in Callers : d # c => calls'[d] = calls[d]
        /\ calls' \in [Callers -> CallRecs]
    BY <1>2, <1>4, GrantTypes
  <1>6. TokensTypeOK'
    <2>1. issued' \in 0..MaxGrant /\ valid' \subseteq Grants /\ live' \subseteq Grants
      BY <1>1, <1>2, <1>3, TokenConstants DEF TokensInv, TokensTypeOK
    <2>2. QED
      BY <1>2, <1>5, <2>1 DEF TokensInv, TokensTypeOK, CallRecs
  <1>7. LockInv'
    BY <1>2, <1>4, <1>5 DEF TokensInv, LockInv
  <1>8. RowInv'
    BY <1>2, GrantTypes DEF TokensInv, RowInv
  <1>9. valid \subseteq valid' /\ (refresh # 0 => refresh \in valid')
    BY <1>1
  <1>10. RefreshInv'
    BY <1>2, <1>3, <1>4, <1>5, <1>9, GrantTypes DEF TokensInv, RefreshInv
  <1>11. \A d \in Callers : calls[d].pc \in {"linking", "granted"} => calls[d].refresh <= issued
    BY DEF TokensInv, LinkInv, RefreshInv
  <1>12. LinkInv'
    <2> SUFFICES ASSUME NEW d \in Callers, calls'[d].pc = "linking"
                 PROVE  /\ calls'[d].refresh <= issued'
                        /\ calls'[d].refresh # 0 =>
                              /\ calls'[d].refresh \in valid' \cup lost'
                              /\ calls'[d].refresh # row'.refresh
                              /\ \A e \in Callers \ {d} :
                                    calls'[e].pc \in {"linking", "granted"} =>
                                       calls'[e].refresh # calls'[d].refresh
      BY DEF LinkInv
    <2>1. row.refresh <= issued
      BY DEF TokensInv, RowInv
    <2>2. CASE d = c
      <3>1. \A e \in Callers \ {c} : calls[e].pc \in {"linking", "granted"} =>
               calls[e].refresh # issued + 1
        BY <1>3, <1>11, GrantTypes
      <3>2. refresh # 0 => refresh # row.refresh
        BY <1>1, <1>3, <2>1, GrantTypes
      <3>3. QED
        BY <1>1, <1>2, <1>3, <1>4, <1>5, <1>9, <2>2, <3>1, <3>2
    <2>3. CASE d # c
      <3>1. /\ calls[d].refresh <= issued
            /\ calls[d].refresh # 0 =>
                  /\ calls[d].refresh \in valid \cup lost
                  /\ calls[d].refresh # row.refresh
                  /\ \A e \in Callers \ {d} :
                        calls[e].pc \in {"linking", "granted"} =>
                           calls[e].refresh # calls[d].refresh
        BY <1>5, <2>3 DEF TokensInv, LinkInv
      <3>2. calls[d].refresh # issued + 1 /\ calls[d].refresh <= issued + 1
        BY <1>3, <3>1, GrantTypes
      <3>3. calls[d].refresh # 0 => refresh # calls[d].refresh
        BY <1>1, <3>2
      <3>4. QED
        BY <1>2, <1>4, <1>5, <1>9, <2>3, <3>1, <3>2, <3>3
    <2>4. QED
      BY <2>2, <2>3
  <1>13. HerdInv'
    <2>1. \A d \in Callers : calls'[d].pc = "granted" <=> calls[d].pc = "granted"
      BY <1>2, <1>4, <1>5
    <2>2. QED
      BY <1>2, <2>1 DEF TokensInv, HerdInv
  <1>14. StoredRefreshIsCurrent'
    BY <1>2, <1>4, <1>5, <1>9 DEF TokensInv, StoredRefreshIsCurrent
  <1>15. QED
    BY <1>2, <1>6, <1>7, <1>8, <1>10, <1>12, <1>13, <1>14 DEF TokensInv

\* The linker writes the row, which nobody has locked; without a refresh token of
\* its own it leaves the stored one there.
LEMMA UpsertInv ==
    ASSUME TokensInv, NEW c \in Callers, upsertAccount(c)
    PROVE  TokensInv' /\ calls[c].pc = "linking" /\ calls'[c].pc = "idle"
  <1> PICK kept : kept = Coalesced(calls[c].refresh, row.refresh)
    OBVIOUS
  <1>1. /\ calls[c].pc = "linking" /\ lock = None
        /\ row' = [status |-> "connected", access |-> calls[c].grant,
                   refresh |-> kept, life |-> 2]
        /\ brought' = (brought \/ calls[c].refresh # 0)
        /\ calls' = [calls EXCEPT ![c] = Idle]
        /\ UNCHANGED <<lock, answer, issued, valid, live, lost, herd>>
    BY DEF upsertAccount, Unlocked, provider
  <1>2. /\ calls'[c] = Idle /\ Idle.pc = "idle"
        /\ \A d \in Callers : d # c => calls'[d] = calls[d]
        /\ calls' \in [Callers -> CallRecs]
    BY <1>1, GrantTypes, CallTypes DEF PCs, Idle, CallRecs
  <1>3. \A d \in Callers : calls[d].pc \notin {"calling", "granted"}
    BY <1>1, UnlockedIsQuiet DEF Unlocked
  <1>4. kept \in {calls[c].refresh, row.refresh}
        /\ (calls[c].refresh # 0 => kept = calls[c].refresh)
        /\ (calls[c].refresh = 0 => kept = row.refresh)
    BY DEF Coalesced
  <1>5. /\ row'.status = "connected" /\ row'.refresh = kept /\ row'.life = 2
        /\ row' \in [status : Statuses, access : Grants \cup {0},
                     refresh : Grants \cup {0}, life : Lives]
    <2>1. calls[c].grant \in Grants \cup {0} /\ kept \in Grants \cup {0}
      BY <1>4, GrantTypes DEF CallRecs
    <2>2. QED
      BY <1>1, <2>1 DEF Statuses, Lives
  <1>6. /\ calls[c].refresh <= issued /\ row.refresh <= issued
        /\ calls[c].refresh # 0 =>
              /\ calls[c].refresh \in valid \cup lost
              /\ \A d \in Callers \ {c} :
                    calls[d].pc \in {"linking", "granted"} =>
                       calls[d].refresh # calls[c].refresh
        /\ brought <=> row.refresh # 0
        /\ brought => row.refresh \in valid \cup lost
    BY <1>1, <1>3 DEF TokensInv, LinkInv, RowInv, StoredRefreshIsCurrent
  <1>7. TokensTypeOK'
    <2>1. brought' \in BOOLEAN
      BY <1>1
    <2>2. QED
      BY <1>1, <1>2, <1>5, <2>1 DEF TokensInv, TokensTypeOK, CallRecs
  <1>8. brought' <=> kept # 0
    BY <1>1, <1>4, <1>6
  <1>9. LockInv' /\ RefreshInv' /\ RowInv'
    BY <1>1, <1>2, <1>3, <1>4, <1>5, <1>6, <1>8 DEF LockInv, RefreshInv, RowInv
  <1>10. LinkInv'
    <2> SUFFICES ASSUME NEW d \in Callers, d # c, calls[d].pc = "linking"
                 PROVE  /\ calls[d].refresh <= issued
                        /\ calls[d].refresh # 0 =>
                              /\ calls[d].refresh \in valid \cup lost
                              /\ calls[d].refresh # kept
                              /\ \A e \in Callers \ {d} :
                                    calls'[e].pc \in {"linking", "granted"} =>
                                       calls'[e].refresh # calls[d].refresh
      BY <1>1, <1>2, <1>5 DEF LinkInv
    <2>1. /\ calls[d].refresh <= issued
          /\ calls[d].refresh # 0 =>
                /\ calls[d].refresh \in valid \cup lost
                /\ calls[d].refresh # row.refresh
                /\ \A e \in Callers \ {d} :
                      calls[e].pc \in {"linking", "granted"} =>
                         calls[e].refresh # calls[d].refresh
      BY DEF TokensInv, LinkInv
    <2>2. calls[d].refresh # 0 => calls[d].refresh # kept
      BY <1>1, <1>4, <2>1
    <2>3. QED
      BY <1>2, <2>1, <2>2
  <1>11. HerdInv'
    <2>1. \A d \in Callers : calls'[d].pc # "granted"
      BY <1>2, <1>3
    <2>2. QED
      BY <1>1, <1>5, <2>1 DEF TokensInv, HerdInv
  <1>12. StoredRefreshIsCurrent'
    BY <1>1, <1>4, <1>5, <1>6 DEF StoredRefreshIsCurrent
  <1>13. QED
    BY <1>1, <1>2, <1>7, <1>9, <1>10, <1>11, <1>12 DEF TokensInv

\* The row lock is taken, and TikTok is called with what the row says.
LEMMA LockAndCallInv ==
    ASSUME TokensInv, NEW c \in Callers, lockAndCall(c)
    PROVE  TokensInv' /\ row' = row
  <1> DEFINE new == [pc |-> "calling", grant |-> 0, refresh |-> row.refresh]
  <1>1. /\ lock = None /\ row.refresh # 0 /\ ~(row.life > 0)
        /\ calls[c].pc = "wantLock"
        /\ lock' = c
        /\ calls' = [calls EXCEPT ![c] = new]
        /\ UNCHANGED <<row, answer, issued, valid, live, lost, brought, herd>>
    BY DEF lockAndCall, Unlocked, Refreshed, Goto, provider, history
  <1>2. new \in CallRecs /\ new.pc = "calling" /\ new.refresh = row.refresh
    BY GrantTypes DEF CallRecs, PCs
  <1> HIDE DEF new
  <1>3. /\ calls'[c] = new
        /\ \A d \in Callers : d # c => calls'[d] = calls[d]
        /\ calls' \in [Callers -> CallRecs]
    BY <1>1, <1>2, GrantTypes
  <1>4. \A d \in Callers : calls[d].pc \notin {"calling", "granted"}
    BY <1>1, UnlockedIsQuiet DEF Unlocked
  <1>5. TokensTypeOK'
    BY <1>1, <1>3 DEF TokensInv, TokensTypeOK, CallRecs
  <1>6. LockInv' /\ RowInv' /\ LinkInv'
    BY <1>1, <1>2, <1>3, <1>4 DEF TokensInv, LockInv, RowInv, LinkInv
  <1>7. RefreshInv'
    <2>1. row.life = 0
      BY <1>1, GrantTypes
    <2>2. QED
      BY <1>1, <1>2, <1>3, <1>4, <2>1 DEF RefreshInv
  <1>8. HerdInv' /\ StoredRefreshIsCurrent'
    BY <1>1, <1>2, <1>3, <1>4 DEF TokensInv, HerdInv, StoredRefreshIsCurrent
  <1>9. QED
    BY <1>1, <1>5, <1>6, <1>7, <1>8 DEF TokensInv

\* TikTok issues a grant for the refresh token of the row, which it may replace.
LEMMA IssueFacts ==
    ASSUME TokensInv, NEW c \in Callers, calls[c].pc = "calling",
           NEW rotates \in BOOLEAN, Issue(calls[c].refresh, rotates)
    PROVE  /\ issued < MaxGrant /\ issued' = issued + 1 /\ issued + 1 \in Grants
           /\ issued' \in 0..MaxGrant
           /\ live' \subseteq Grants /\ valid' \subseteq Grants
           /\ KeptOrNew(c, rotates) \in valid' \cap Grants
           /\ KeptOrNew(c, rotates) <= issued'
           /\ \A r \in valid : r # row.refresh => r \in valid'
  <1>1. /\ calls[c].refresh \in valid /\ issued < MaxGrant
        /\ issued' = issued + 1 /\ live' = live \cup {issued + 1}
        /\ valid' = IF rotates THEN (valid \ {calls[c].refresh}) \cup {issued + 1} ELSE valid
    BY DEF Issue
  <1>2. /\ issued \in Nat /\ issued + 1 \in Grants /\ issued' \in 0..MaxGrant
        /\ valid \subseteq Grants /\ live \subseteq Grants
    BY <1>1, TokenConstants DEF TokensInv, TokensTypeOK, Grants
  <1>3. /\ calls[c].refresh = row.refresh /\ row.refresh <= issued /\ row.refresh \in Nat
    BY GrantTypes DEF TokensInv, RefreshInv, RowInv
  <1>4. CASE rotates
    BY <1>1, <1>2, <1>3, <1>4 DEF KeptOrNew
  <1>5. CASE ~rotates
    BY <1>1, <1>2, <1>3, <1>5 DEF KeptOrNew
  <1>6. QED
    BY <1>1, <1>4, <1>5

\* The holder of the lock got a grant: the old token may be gone, the new one is
\* with the holder.
LEMMA AcceptedInv ==
    ASSUME TokensInv, NEW c \in Callers, refreshAccepted(c)
    PROVE  TokensInv' /\ row' = row
  <1>1. /\ calls[c].pc = "calling"
        /\ herd' = herd + 1
        /\ UNCHANGED <<row, lock, answer, lost, brought>>
    BY DEF refreshAccepted
  <1>2. PICK rotates \in BOOLEAN :
           /\ Issue(calls[c].refresh, rotates)
           /\ Goto(c, "granted", issued + 1, KeptOrNew(c, rotates))
    BY DEF refreshAccepted
  <1> PICK kept : kept = KeptOrNew(c, rotates)
    OBVIOUS
  <1>3. /\ issued < MaxGrant /\ issued' = issued + 1 /\ issued + 1 \in Grants
        /\ issued' \in 0..MaxGrant
        /\ live' \subseteq Grants /\ valid' \subseteq Grants
        /\ kept \in valid' /\ kept \in Grants /\ kept <= issued'
        /\ \A r \in valid : r # row.refresh => r \in valid'
    BY <1>1, <1>2, IssueFacts
  <1> PICK new : new = [pc |-> "granted", grant |-> issued + 1, refresh |-> kept]
    OBVIOUS
  <1>4. new \in CallRecs /\ new.pc = "granted" /\ new.refresh = kept /\ kept # 0
    BY <1>3, TokenConstants DEF CallRecs, PCs, Grants
  <1>5. /\ calls'[c] = new
        /\ \A d \in Callers : d # c => calls'[d] = calls[d]
        /\ calls' \in [Callers -> CallRecs]
    BY <1>2, <1>4, GrantTypes DEF Goto
  <1>6. /\ lock = c
        /\ \A d \in Callers : d # c => calls[d].pc \notin {"calling", "granted"}
        /\ row.life = 0 /\ row.refresh # 0 /\ row.refresh = calls[c].refresh
        /\ row.refresh <= issued /\ row.refresh \in Nat /\ issued \in Nat
    BY <1>1, GrantTypes DEF TokensInv, LockInv, RefreshInv, RowInv
  <1>7. TokensTypeOK'
    BY <1>1, <1>3, <1>5 DEF TokensInv, TokensTypeOK, CallRecs
  <1>8. LockInv' /\ RefreshInv'
    BY <1>1, <1>3, <1>4, <1>5, <1>6 DEF LockInv, RefreshInv
  <1>9. RowInv'
    BY <1>1, <1>3, <1>6 DEF TokensInv, RowInv
  <1>10. LinkInv'
    <2> SUFFICES ASSUME NEW d \in Callers, calls'[d].pc = "linking"
                 PROVE  /\ calls'[d].refresh <= issued'
                        /\ calls'[d].refresh # 0 =>
                              /\ calls'[d].refresh \in valid' \cup lost'
                              /\ calls'[d].refresh # row'.refresh
                              /\ \A e \in Callers \ {d} :
                                    calls'[e].pc \in {"linking", "granted"} =>
                                       calls'[e].refresh # calls'[d].refresh
      BY DEF LinkInv
    <2>1. /\ d # c /\ calls'[d] = calls[d]
          /\ calls[d].refresh <= issued /\ calls[d].refresh \in Nat
          /\ calls[d].refresh # 0 =>
                /\ calls[d].refresh \in valid \cup lost
                /\ calls[d].refresh # row.refresh
                /\ \A e \in Callers \ {d} :
                      calls[e].pc \in {"linking", "granted"} =>
                         calls[e].refresh # calls[d].refresh
      BY <1>4, <1>5, GrantTypes DEF TokensInv, LinkInv
    <2>2. calls[d].refresh # 0 => kept # calls[d].refresh
      BY <1>2, <1>6, <2>1 DEF KeptOrNew
    <2>3. calls[d].refresh # 0 => calls'[d].refresh \in valid' \cup lost'
      BY <1>1, <1>3, <2>1
    <2>4. calls[d].refresh # 0 =>
             \A e \in Callers \ {d} : calls'[e].pc \in {"linking", "granted"} =>
                calls'[e].refresh # calls'[d].refresh
      BY <1>4, <1>5, <2>1, <2>2
    <2>5. QED
      BY <1>1, <1>3, <1>6, <2>1, <2>3, <2>4
  <1>11. HerdInv'
    <2>1. herd = 0
      BY <1>1, <1>6 DEF TokensInv, HerdInv
    <2>2. herd' = 1
      BY <1>1, <2>1
    <2>3. QED
      BY <1>4, <1>5, <2>2 DEF HerdInv
  <1>12. StoredRefreshIsCurrent'
    BY <1>1, <1>4, <1>5, <1>6 DEF StoredRefreshIsCurrent
  <1>13. QED
    BY <1>1, <1>7, <1>8, <1>9, <1>10, <1>11, <1>12 DEF TokensInv

\* The answer is lost: the grant with it.
LEMMA AnswerLostInv ==
    ASSUME TokensInv, NEW c \in Callers, refreshAnswerLost(c)
    PROVE  TokensInv' /\ row' = row
  <1>1. /\ calls[c].pc = "calling"
        /\ lost' = lost \cup ({row.refresh} \ valid')
        /\ row' = row /\ lock' = None /\ answer' = "refused"
        /\ calls' = [calls EXCEPT ![c] = Idle]
        /\ UNCHANGED <<brought, herd>>
    BY DEF refreshAnswerLost, fails, Return, RolledBack, Lose
  <1>2. PICK rotates \in BOOLEAN : Issue(calls[c].refresh, rotates)
    BY DEF refreshAnswerLost
  <1>3. /\ issued' = issued + 1 /\ issued' \in 0..MaxGrant
        /\ live' \subseteq Grants /\ valid' \subseteq Grants
        /\ \A r \in valid : r # row.refresh => r \in valid'
    BY <1>1, <1>2, IssueFacts
  <1>4. /\ calls'[c] = Idle /\ Idle.pc = "idle"
        /\ \A d \in Callers : d # c => calls'[d] = calls[d]
        /\ calls' \in [Callers -> CallRecs]
    BY <1>1, GrantTypes, CallTypes DEF PCs, Idle, CallRecs
  <1>5. /\ \A d \in Callers : d # c => calls[d].pc \notin {"calling", "granted"}
        /\ issued \in Nat /\ herd = 0
        /\ row.refresh \in Grants
        /\ \A d \in Callers : calls[d].refresh \in Nat
    <2>1. \A d \in Callers : d # c => calls[d].pc \notin {"calling", "granted"}
      BY <1>1 DEF TokensInv, LockInv
    <2>2. herd = 0
      BY <1>1, <2>1 DEF TokensInv, HerdInv, RefreshInv
    <2>3. row.refresh \in Grants
      BY <1>1, GrantTypes DEF TokensInv, RefreshInv
    <2>4. QED
      BY <2>1, <2>2, <2>3, GrantTypes
  <1>6. lost \subseteq lost' /\ lost' \subseteq Grants /\ row.refresh \in valid' \cup lost'
    BY <1>1, <1>5 DEF TokensInv, TokensTypeOK
  <1>7. TokensTypeOK'
    BY <1>1, <1>3, <1>4, <1>6 DEF TokensInv, TokensTypeOK, CallRecs
  <1>8. LockInv' /\ RefreshInv' /\ RowInv'
    BY <1>1, <1>3, <1>4, <1>5, GrantTypes DEF TokensInv, LockInv, RefreshInv, RowInv
  <1>9. LinkInv'
    BY <1>1, <1>3, <1>4, <1>5, <1>6 DEF TokensInv, LinkInv
  <1>10. HerdInv' /\ StoredRefreshIsCurrent'
    BY <1>1, <1>4, <1>5, <1>6 DEF HerdInv, StoredRefreshIsCurrent
  <1>11. QED
    BY <1>1, <1>7, <1>8, <1>9, <1>10 DEF TokensInv

\* The holder of the lock commits what it got.
LEMMA CommitInv ==
    ASSUME TokensInv, NEW c \in Callers, commitRefresh(c)
    PROVE  TokensInv' /\ row.status = "connected"
  <1>1. /\ calls[c].pc = "granted"
        /\ row' = [status |-> "connected", access |-> calls[c].grant,
                   refresh |-> calls[c].refresh, life |-> 2]
        /\ lock' \in {lock, None} /\ answer' = "token"
        /\ calls' = [calls EXCEPT ![c] = Idle]
        /\ UNCHANGED <<issued, valid, live, lost, brought, herd>>
    BY DEF commitRefresh, Return, provider, history
  <1>2. /\ calls'[c] = Idle /\ Idle.pc = "idle"
        /\ \A d \in Callers : d # c => calls'[d] = calls[d]
        /\ calls' \in [Callers -> CallRecs]
    BY <1>1, GrantTypes, CallTypes DEF PCs, Idle, CallRecs
  <1>3. \A d \in Callers : d # c => calls[d].pc \notin {"calling", "granted"}
    BY <1>1 DEF TokensInv, LockInv
  <1>4. /\ row'.status = "connected" /\ row'.refresh = calls[c].refresh /\ row'.life = 2
        /\ row' \in [status : Statuses, access : Grants \cup {0},
                     refresh : Grants \cup {0}, life : Lives]
    <2>1. calls[c].grant \in Grants \cup {0} /\ calls[c].refresh \in Grants \cup {0}
      BY GrantTypes DEF CallRecs
    <2>2. QED
      BY <1>1, <2>1 DEF Statuses, Lives
  <1>5. /\ calls[c].refresh # 0 /\ calls[c].refresh <= issued
        /\ calls[c].refresh \in valid \cup lost
        /\ row.refresh # 0 /\ brought
    BY <1>1 DEF TokensInv, RefreshInv, RowInv
  <1>6. TokensTypeOK'
    <2>1. lock' \in Callers \cup {None}
      BY <1>1 DEF TokensInv, TokensTypeOK
    <2>2. QED
      BY <1>1, <1>2, <1>4, <2>1 DEF TokensInv, TokensTypeOK, CallRecs
  <1>7. LockInv' /\ RefreshInv' /\ RowInv'
    BY <1>1, <1>2, <1>3, <1>4, <1>5 DEF LockInv, RefreshInv, RowInv
  <1>8. LinkInv'
    BY <1>1, <1>2, <1>4, <1>5 DEF TokensInv, LinkInv
  <1>9. HerdInv'
    BY <1>1, <1>2, <1>3, <1>4 DEF TokensInv, HerdInv
  <1>10. StoredRefreshIsCurrent'
    BY <1>1, <1>4, <1>5 DEF StoredRefreshIsCurrent
  <1>11. row.status = "connected"
    BY <1>5 DEF TokensInv, RowInv
  <1>12. QED
    BY <1>6, <1>7, <1>8, <1>9, <1>10, <1>11 DEF TokensInv

\* The row is emptied, when nobody has it locked.
LEMMA DisconnectInv ==
    ASSUME TokensInv, NEW c \in Callers, disconnectWrite(c)
    PROVE  TokensInv' /\ row'.status = "disconnected"
  <1> DEFINE new == [pc |-> "idle", grant |-> 0, refresh |-> 0]
  <1>1. /\ lock = None
        /\ row' = [row EXCEPT !.status = "disconnected", !.access = 0, !.refresh = 0]
        /\ calls' = [calls EXCEPT ![c] = new]
        /\ brought' = FALSE
        /\ UNCHANGED <<lock, answer, issued, valid, live, lost, herd>>
    BY DEF disconnectWrite, Unlocked, Disconnected, Goto, provider
  <1>2. new \in CallRecs /\ new.pc = "idle"
    BY DEF CallRecs, PCs
  <1> HIDE DEF new
  <1>3. /\ calls'[c] = new
        /\ \A d \in Callers : d # c => calls'[d] = calls[d]
        /\ calls' \in [Callers -> CallRecs]
    BY <1>1, <1>2, GrantTypes
  <1>4. \A d \in Callers : calls[d].pc \notin {"calling", "granted"}
    BY <1>1, UnlockedIsQuiet DEF Unlocked
  <1>5. /\ row'.status = "disconnected" /\ row'.refresh = 0 /\ row'.life = row.life
        /\ row' \in [status : Statuses, access : Grants \cup {0},
                     refresh : Grants \cup {0}, life : Lives]
    <2>1. row \in [status : Statuses, access : Grants \cup {0},
                   refresh : Grants \cup {0}, life : Lives]
      BY DEF TokensInv, TokensTypeOK
    <2>2. QED
      BY <1>1, <2>1 DEF Statuses
  <1>6. TokensTypeOK'
    <2>1. brought' \in BOOLEAN
      BY <1>1
    <2>2. QED
      BY <1>1, <1>3, <1>5, <2>1 DEF TokensInv, TokensTypeOK, CallRecs
  <1>7. LockInv' /\ RefreshInv'
    BY <1>2, <1>3, <1>4 DEF LockInv, RefreshInv
  <1>8. RowInv' /\ LinkInv'
    BY <1>1, <1>2, <1>3, <1>5, GrantTypes DEF TokensInv, RowInv, LinkInv
  <1>9. HerdInv'
    BY <1>1, <1>2, <1>3, <1>4, <1>5 DEF TokensInv, HerdInv
  <1>10. StoredRefreshIsCurrent'
    BY <1>1 DEF StoredRefreshIsCurrent
  <1>11. QED
    BY <1>5, <1>6, <1>7, <1>8, <1>9, <1>10 DEF TokensInv

\* The consent is withdrawn.
LEMMA WithdrawInv == TokensInv /\ withdraw => TokensInv' /\ row' = row
  <1> SUFFICES ASSUME TokensInv, withdraw PROVE TokensInv' /\ row' = row
    OBVIOUS
  <1>1. /\ valid' = {} /\ live' = {} /\ lost' = lost \cup valid
        /\ UNCHANGED <<row, lock, calls, answer, issued, brought, herd>>
    BY DEF withdraw
  <1>2. TokensTypeOK'
    <2>1. lost' \subseteq Grants
      BY <1>1 DEF TokensInv, TokensTypeOK
    <2>2. QED
      BY <1>1, <2>1 DEF TokensInv, TokensTypeOK
  <1>3. valid' \cup lost' = valid \cup lost
    BY <1>1
  <1>4. LockInv' /\ RowInv' /\ RefreshInv' /\ LinkInv'
    BY <1>1, <1>3 DEF TokensInv, LockInv, RowInv, RefreshInv, LinkInv
  <1>5. HerdInv' /\ StoredRefreshIsCurrent'
    BY <1>1, <1>3 DEF TokensInv, HerdInv, StoredRefreshIsCurrent
  <1>6. QED
    BY <1>1, <1>2, <1>4, <1>5 DEF TokensInv

\* The token grows older, and a new herd may gather.
LEMMA TimeInv == TokensInv /\ time => TokensInv' /\ row'.status = row.status
  <1> SUFFICES ASSUME TokensInv, time PROVE TokensInv' /\ row'.status = row.status
    OBVIOUS
  <1>1. /\ row.life > 0
        /\ \A c \in Callers : calls[c].pc \notin {"calling", "granted"}
        /\ row' = [row EXCEPT !.life = @ - 1]
        /\ herd' = 0
        /\ UNCHANGED <<lock, calls, answer, issued, valid, live, lost, brought>>
    BY DEF time, provider
  <1>2. /\ row'.status = row.status /\ row'.refresh = row.refresh
        /\ row' \in [status : Statuses, access : Grants \cup {0},
                     refresh : Grants \cup {0}, life : Lives]
    <2>1. row \in [status : Statuses, access : Grants \cup {0},
                   refresh : Grants \cup {0}, life : Lives]
      BY DEF TokensInv, TokensTypeOK
    <2>2. row.life - 1 \in Lives
      BY <1>1, <2>1 DEF Lives
    <2>3. QED
      BY <1>1, <2>1, <2>2
  <1>3. TokensTypeOK'
    BY <1>1, <1>2 DEF TokensInv, TokensTypeOK
  <1>4. LockInv' /\ RowInv' /\ RefreshInv' /\ LinkInv'
    BY <1>1, <1>2 DEF TokensInv, LockInv, RowInv, RefreshInv, LinkInv
  <1>5. HerdInv' /\ StoredRefreshIsCurrent'
    BY <1>1, <1>2 DEF TokensInv, HerdInv, StoredRefreshIsCurrent
  <1>6. QED
    BY <1>2, <1>3, <1>4, <1>5 DEF TokensInv

-----------------------------------------------------------------------------

\* What DisconnectStays says of one step.
StaysStep ==
    row.status = "disconnected" /\ row'.status # "disconnected"
    => \E c \in Callers : calls[c].pc = "linking" /\ calls'[c].pc = "idle"

\* Every step keeps the invariant, and only a linker reconnects.
LEMMA TokensNextInv == TokensInv /\ [Next]_vars => TokensInv' /\ StaysStep
  <1> SUFFICES ASSUME TokensInv, [Next]_vars PROVE TokensInv' /\ StaysStep
    OBVIOUS
  <1>1. ASSUME NEW c \in Callers,
               \/ readUnusable(c) \/ readFresh(c) \/ readStale(c)
               \/ lockAndReuse(c) \/ lockAndFail(c) \/ refreshRefused(c)
               \/ disconnectRead(c) \/ revoke(c) \/ revokeFails(c) \/ crash(c)
        PROVE  TokensInv' /\ StaysStep
    BY <1>1, QuietInv DEF StaysStep
  <1>2. ASSUME NEW c \in Callers,
               \/ exchange(c) \/ lockAndCall(c) \/ refreshAccepted(c) \/ refreshAnswerLost(c)
        PROVE  TokensInv' /\ StaysStep
    BY <1>2, ExchangeInv, LockAndCallInv, AcceptedInv, AnswerLostInv DEF StaysStep
  <1>3. ASSUME NEW c \in Callers,
               upsertAccount(c) \/ commitRefresh(c) \/ disconnectWrite(c)
        PROVE  TokensInv' /\ StaysStep
    BY <1>3, UpsertInv, CommitInv, DisconnectInv DEF StaysStep
  <1>4. CASE withdraw \/ time
    BY <1>4, WithdrawInv, TimeInv DEF StaysStep
  <1>5. CASE UNCHANGED vars
    BY <1>5 DEF vars, TokensInv, TokensTypeOK, LockInv, RowInv, RefreshInv, LinkInv,
       HerdInv, StoredRefreshIsCurrent, StaysStep
  <1>6. QED
    BY <1>1, <1>2, <1>3, <1>4, <1>5 DEF Next, Refresh

\* The inductive invariant holds in every reachable state.
THEOREM TokensInvariant == Spec => []TokensInv
  BY TokensInitInv, TokensNextInv, PTL DEF Spec

\* The account row, the calls and TikTok keep their types.
THEOREM TokensTypeCorrect == Spec => []TokensTypeOK
  <1>1. TokensInv => TokensTypeOK
    BY DEF TokensInv
  <1>2. QED
    BY <1>1, TokensInvariant, PTL

\* Once a link brought a refresh token, and until the account is disconnected, the
\* stored one is accepted by TikTok, or that very token was lost or withdrawn, or
\* its successor is about to be committed under the row lock.
THEOREM StoredRefreshStaysCurrent == Spec => []StoredRefreshIsCurrent
  <1>1. TokensInv => StoredRefreshIsCurrent
    BY DEF TokensInv
  <1>2. QED
    BY <1>1, TokensInvariant, PTL

\* However many callers find the token expired at one time, TikTok issues one
\* grant for them that is not lost.
THEOREM OneOfHerdRefreshes == Spec => []HerdRefreshesOnce
  <1>1. TokensInv => HerdRefreshesOnce
    BY DEF TokensInv, HerdInv, HerdRefreshesOnce
  <1>2. QED
    BY <1>1, TokensInvariant, PTL

\* No refresh that began before a disconnection brings the account back.
THEOREM DisconnectedStays == Spec => DisconnectStays
  <1>1. TokensInv /\ [Next]_vars => [StaysStep]_vars
    BY TokensNextInv
  <1>2. QED
    BY <1>1, TokensInvariant, PTL DEF Spec, DisconnectStays, StaysStep
==============================================================================
