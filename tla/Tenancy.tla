------------------------------ MODULE Tenancy ------------------------------
(***************************************************************************)
(* Access and Accounts, what a request of a tenant's passes and how tenants *)
(* come to be.  They share nothing: in each behaviour one of them runs, and *)
(* the other stands still.                                                  *)
(***************************************************************************)
EXTENDS Access

CONSTANTS Calls, People, Tenants, Groups, Null, Gone, MaxSlug, Operated, Overlap, Crashes    \* Accounts

VARIABLES
    scene,                                                                  \* never changes
    identity, user, company, group, call, overlap, dead, operated, astray   \* Accounts

accounts == <<identity, user, company, group, call, overlap, dead, operated, astray>>

A == INSTANCE Accounts WITH Companies <- Tenants

ASSUME TenancyAssumption == A!AccountsAssumption

\* A request that has come, and nothing else.
NoGuards ==
    /\ Init
    /\ member = [c \in Companies |-> None]
    /\ request.needs = Public /\ request.wanted = None /\ ~request.signed
NoAccounts ==
    /\ identity = Null /\ user = Null /\ company = Null /\ group = Null
    /\ call = Null /\ overlap = Null /\ dead = Null /\ operated = Null /\ astray = Null

TenancyInit ==
    \/ scene = "guards" /\ Init /\ NoAccounts
    \/ scene = "accounts" /\ A!Init /\ NoGuards

TenancyNext ==
    \/ scene = "guards" /\ Next /\ UNCHANGED <<scene, accounts>>
    \/ scene = "accounts" /\ A!Next /\ UNCHANGED <<scene, vars>>

TenancySpec == TenancyInit /\ [][TenancyNext]_<<vars, scene, accounts>>

Types == IF scene = "guards" THEN TypeOK ELSE A!TypeOK

\* A registered company that works has an owner who confirmed; who signed up has a
\* company; the group a company is in is there, unless its creator made it up.
TenantsStand ==
    scene = "accounts" => A!PendingUntilConfirmed /\ A!NobodyStranded /\ A!GroupsAreThere
=============================================================================
