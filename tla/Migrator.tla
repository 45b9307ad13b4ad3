------------------------------ MODULE Migrator -------------------------------
(***************************************************************************)
(* packages/db/src/migrator.js run by several processes at once, each from *)
(* the release it was deployed with: read the records, then for each       *)
(* pending file BEGIN, the body, the record, COMMIT.  No lock is taken.    *)
(* Only a file whose first and last lines are BEGIN and COMMIT loses them; *)
(* another one's own COMMIT ends the migrator's transaction early.         *)
(***************************************************************************)
EXTENDS Integers

CONSTANTS
    Migrators,     \* processes that run applyAll
    Migrations,    \* numbers of migration files
    Releases,      \* releases: [numbers of its files -> checksum]
    Enclosed,      \* the files whose first and last lines are BEGIN and COMMIT
    Rerunnable,    \* the files whose body may run on its own result
    CrashLimit     \* bound on the crashes

\* Files are numbered, and no digest is the word for a file without a record.
ASSUME MigratorConstants ==
    /\ Migrations \subseteq Nat /\ CrashLimit \in Nat
    /\ \A r \in Releases : DOMAIN r \subseteq Migrations /\ \A m \in DOMAIN r : r[m] # "none"

VARIABLES
    recorded,      \* schema_migrations: the checksum of each, or "none"
    bodies,        \* how often each body took effect for good
    migrating,     \* [process -> [pc, release, todo]], the files still to apply
    crashes        \* bound

migratorVars == <<recorded, bodies, migrating, crashes>>

NotMigrating == [pc |-> "idle", release |-> <<>>, todo |-> {}]

MigratorInit ==
    /\ recorded = [m \in Migrations |-> "none"]
    /\ bodies = [m \in Migrations |-> 0]
    /\ migrating = [p \in Migrators |-> NotMigrating]
    /\ crashes = 0

\* plan: the files that are not recorded; a record whose checksum is
\* another one is drift and refuses everything.
Drifted(release) == {m \in DOMAIN release : recorded[m] \notin {"none", release[m]}}
PendingOf(release) == {m \in DOMAIN release : recorded[m] = "none"}

plan(p, release) ==
    /\ migrating[p].pc = "idle"
    /\ Drifted(release) = {}
    /\ PendingOf(release) # {}
    /\ migrating' = [migrating EXCEPT ![p] =
         [pc |-> "next", release |-> release, todo |-> PendingOf(release)]]
    /\ UNCHANGED <<recorded, bodies, crashes>>

\* They are applied in order.
IsNext(p, m) == m \in migrating[p].todo /\ \A n \in migrating[p].todo : m <= n

\* (mutation) The lines are never taken off.
UnwrappedNever(m) == FALSE

\* unwrapTransaction
Unwrapped(m) == m \in Enclosed

Holds(p, m) == migrating[p].pc = "body" /\ IsNext(p, m)

\* The body: it waits for another transaction that changes the same objects,
\* and fails on its own result unless it was written to be run again.
applyBody(p, m) ==
    /\ migrating[p].pc = "next" /\ IsNext(p, m)
    /\ ~\E q \in Migrators \ {p} : Unwrapped(m) /\ Holds(q, m)
    /\ IF bodies[m] > 0 /\ m \notin Rerunnable
       THEN migrating' = [migrating EXCEPT ![p] = NotMigrating] /\ UNCHANGED bodies
       ELSE /\ migrating' = [migrating EXCEPT ![p].pc = "body"]
            /\ bodies' = IF Unwrapped(m) THEN bodies ELSE [bodies EXCEPT ![m] = @ + 1]
    /\ UNCHANGED <<recorded, crashes>>

Committed(p, m) ==
    /\ bodies' = IF Unwrapped(m) THEN [bodies EXCEPT ![m] = @ + 1] ELSE bodies
    /\ migrating' = IF migrating[p].todo = {m} THEN [migrating EXCEPT ![p] = NotMigrating]
                    ELSE [migrating EXCEPT ![p].pc = "next", ![p].todo = @ \ {m}]

\* (mutation) A record that is there already is no reason to fail.
recordAnyhow(p, m) ==
    /\ Holds(p, m)
    /\ Committed(p, m)
    /\ recorded' = [recorded EXCEPT ![m] = migrating[p].release[m]]
    /\ UNCHANGED crashes

\* The record and the COMMIT.  A second record breaks the primary key: the
\* transaction is rolled back and the process stops.
record(p, m) ==
    /\ Holds(p, m)
    /\ IF recorded[m] = "none"
       THEN Committed(p, m) /\ recorded' = [recorded EXCEPT ![m] = migrating[p].release[m]]
       ELSE migrating' = [migrating EXCEPT ![p] = NotMigrating] /\ UNCHANGED <<recorded, bodies>>
    /\ UNCHANGED crashes

migratorCrash(p) ==
    /\ migrating[p].pc # "idle" /\ crashes < CrashLimit
    /\ migrating' = [migrating EXCEPT ![p] = NotMigrating]
    /\ crashes' = crashes + 1
    /\ UNCHANGED <<recorded, bodies>>

MigratorNext ==
    \E p \in Migrators :
       \/ \E release \in Releases : plan(p, release)
       \/ \E m \in Migrations : applyBody(p, m) \/ record(p, m)
       \/ migratorCrash(p)

MigratorSpec == MigratorInit /\ [][MigratorNext]_migratorVars

-----------------------------------------------------------------------------
(* Properties.                                                             *)

MigratorTypeOK ==
    /\ \A m \in Migrations :
          recorded[m] \in {"none"} \cup {r[m] : r \in {s \in Releases : m \in DOMAIN s}}
    /\ \A p \in Migrators : migrating[p].pc # "idle" => migrating[p].todo # {}

\* Whatever processes race or crash, an enclosed migration took effect exactly
\* when it is recorded, and once; another one took effect if it is recorded;
\* and what is recorded was applied in the order of some release.
MigrationsApplyOnce ==
    \A m \in Migrations :
       /\ m \in Enclosed => bodies[m] = (IF recorded[m] = "none" THEN 0 ELSE 1)
       /\ recorded[m] # "none" =>
             /\ bodies[m] > 0
             /\ \E r \in Releases : m \in DOMAIN r /\ \A k \in DOMAIN r : k < m => recorded[k] # "none"
=============================================================================
