---------------------------- MODULE AuditAndRoles ----------------------------
(***************************************************************************)
(* packages/contracts: the audit log of one tenant, each entry hashed over *)
(* the one before it (audit.js), and the roles of its actors with what     *)
(* they may do and how they may change (grants.js).  A hash is the value   *)
(* it is computed from: two are equal only when those are.                 *)
(***************************************************************************)
EXTENDS Integers, SequencesExt

CONSTANTS
    AuditBodies,    \* what an entry may say
    AuditLimit,     \* bound on the entries
    Actors,
    RoleRank,       \* roleRank: [role -> its rank]
    RolePrefixes,   \* ROLE_GRANTS: [role -> prefixes of the capabilities it has]
    RoleMoveLimit   \* bound on the assignments and attempts

\* The frozen tables: ranks are numbers, and of all roles owner and admin manage.
ASSUME RolesAssumption ==
    /\ AuditLimit \in Nat
    /\ RoleRank \in [DOMAIN RoleRank -> Int]
    /\ "none" \notin DOMAIN RoleRank
    /\ \A role \in DOMAIN RoleRank : "manage" \in RolePrefixes[role] => role \in {"owner", "admin"}

VARIABLES
    auditLog,        \* the tenant's log
    roleOf,          \* rolesByActor, or NoRole
    escalationAttempts, \* escalationAttempts: [actor, from, target, allowed]
    assigned         \* history: the roles assignRole gave each actor, in order

auditVars == <<auditLog, roleOf, escalationAttempts, assigned>>

NoRole == "none"
Genesis == <<>>

AuditInit ==
    /\ auditLog = <<>>
    /\ roleOf = [a \in Actors |-> NoRole]
    /\ escalationAttempts = <<>>
    /\ assigned = [a \in Actors |-> <<>>]

-----------------------------------------------------------------------------
(* The chain.                                                              *)

\* (mutation) The hash leaves out what the entry says.
EntryHashEmpty(prev, sequence, body) == <<prev, sequence, Genesis>>

EntryHash(prev, sequence, body) == <<prev, sequence, body>>

PreviousHash(log) == IF log = <<>> THEN Genesis ELSE Last(log).hash

append(body) ==
    LET prev == PreviousHash(auditLog)
        entry == [sequence |-> Len(auditLog) + 1, body |-> body, prev |-> prev,
                  hash |-> EntryHash(prev, Len(auditLog) + 1, body)]
    IN /\ Len(auditLog) < AuditLimit
       /\ auditLog' = Append(auditLog, entry)
       /\ UNCHANGED <<roleOf, escalationAttempts, assigned>>

\* (mutation) Only the links are checked, not what the hashes stand for.
VerifyLinks(log) ==
    \A i \in DOMAIN log : log[i].prev = IF i = 1 THEN Genesis ELSE log[i - 1].hash

\* verifyChain answers valid.
VerifyChain(log) ==
    \A i \in DOMAIN log :
       LET expected == IF i = 1 THEN Genesis ELSE log[i - 1].hash IN
       /\ log[i].prev = expected
       /\ log[i].hash = EntryHash(expected, log[i].sequence, log[i].body)

\* Whoever holds the log may change what it says, move entries and drop some.
TamperedLogs ==
    LET n == Len(auditLog) IN
    {[auditLog EXCEPT ![i].body = body] : i \in 1..n, body \in AuditBodies}
       \cup {[auditLog EXCEPT ![i] = auditLog[k], ![k] = auditLog[i]] : i, k \in 1..n}
       \cup {RemoveAt(auditLog, i) : i \in 1..n}
       \cup {InsertAt(auditLog, i, auditLog[k]) : i, k \in 1..n}

-----------------------------------------------------------------------------
(* Roles.                                                                  *)

assignRole(a, role) ==
    /\ roleOf' = [roleOf EXCEPT ![a] = role]
    /\ assigned' = [assigned EXCEPT ![a] = Append(@, role)]
    /\ UNCHANGED <<auditLog, escalationAttempts>>

\* (mutation) The target is compared with the highest role, whoever asks.
MayTakeAny(a, target) ==
    /\ roleOf[a] # NoRole
    /\ RoleRank[target] < RoleRank["owner"]

MayTake(a, target) ==
    /\ roleOf[a] \in {"owner", "admin"}
    /\ RoleRank[target] < RoleRank[roleOf[a]]

\* attemptEscalation: the role that is taken is the actor's own, and a lower one.
attemptEscalation(a, target) ==
    /\ escalationAttempts' = Append(escalationAttempts,
         [actor |-> a, from |-> roleOf[a], target |-> target, allowed |-> MayTake(a, target)])
    /\ roleOf' = IF MayTake(a, target) THEN [roleOf EXCEPT ![a] = target] ELSE roleOf
    /\ UNCHANGED <<auditLog, assigned>>

\* grant: the role's patterns against the capability's prefix.
GrantAllows(a, prefix) == roleOf[a] # NoRole /\ prefix \in RolePrefixes[roleOf[a]]

AuditNext ==
    \/ \E body \in AuditBodies : append(body)
    \/ \E a \in Actors, role \in DOMAIN RoleRank :
          Len(assigned[a]) + Len(escalationAttempts) < RoleMoveLimit
             /\ (assignRole(a, role) \/ attemptEscalation(a, role))

AuditSpec == AuditInit /\ [][AuditNext]_auditVars

-----------------------------------------------------------------------------
(* Properties.                                                             *)

AuditTypeOK ==
    /\ Len(auditLog) <= AuditLimit
    /\ roleOf \in [Actors -> DOMAIN RoleRank \cup {NoRole}]

\* The chain is valid as it was written, and a log that was changed passes only
\* as the beginning of what was written: nothing altered, moved or repeated in
\* it, and nothing missing but an end.
TamperingShows ==
    /\ VerifyChain(auditLog)
    /\ \A log \in TamperedLogs : VerifyChain(log) => IsPrefix(log, auditLog)

\* No actor ever works above what somebody assigned to it: its rank is at most
\* that of its last assignment, whatever was attempted; and whoever may manage
\* was made owner or admin.  The log of the attempts tells the difference.
RanksAreAssigned ==
    \A a \in Actors : roleOf[a] # NoRole =>
       /\ RoleRank[roleOf[a]] <= RoleRank[Last(assigned[a])]
       /\ GrantAllows(a, "manage") => Last(assigned[a]) \in {"owner", "admin"}
       /\ roleOf[a] # Last(assigned[a]) =>
             \E k \in DOMAIN escalationAttempts :
                escalationAttempts[k].actor = a /\ escalationAttempts[k].allowed
                   /\ escalationAttempts[k].target = roleOf[a]

\* The records of a tenant can be relied on: its log and its roles.
AccountsAreKept == TamperingShows /\ RanksAreAssigned
=============================================================================
