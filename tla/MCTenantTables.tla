--------------------------- MODULE MCTenantTables ----------------------------
(***************************************************************************)
(* The tables of a tenant for TLC: affiliate rows, sign-in and accounts.   *)
(* They share no variable and no property relates them, so a behaviour     *)
(* moves only the part that it chose at its start: the state spaces add up *)
(* instead of multiplying.                                                 *)
(***************************************************************************)
EXTENDS AffiliateCore, OAuthLogin, LocalAccounts, TLC

VARIABLE part   \* the part that moves

TablesInit ==
    /\ Init /\ OAuthInit /\ AccountsInit
    /\ part \in {"affiliate", "sign-in", "accounts"}

TablesNext ==
    /\ part' = part
    /\ \/ part = "affiliate" /\ Next /\ UNCHANGED <<oauthVars, accountVars>>
       \/ part = "sign-in" /\ OAuthNext /\ UNCHANGED <<vars, accountVars>>
       \/ part = "accounts" /\ AccountsNext /\ UNCHANGED <<vars, oauthVars>>

TablesSpec == TablesInit /\ [][TablesNext]_<<vars, oauthVars, accountVars, part>>

\* The types of all three parts.
TablesTypeOK == AffiliateTypeOK /\ OAuthTypeOK /\ AccountsTypeOK

\* Callers are interchangeable, and so are report rows.  Callers, Callbacks and
\* AuthRequests are one set in the cfg.
MCSymmetry == Permutations(Callers) \cup Permutations(SourceRows)
=============================================================================
