------------------------------ MODULE MCAccess ------------------------------
(* Instances of Tenancy, that is of Access and of Accounts, for TLC. *)
EXTENDS Tenancy, TLC

CONSTANTS a, b, c1, c2, p1, p2, k1, k2, g1

\* One route of each kind, with and without a role, a module and a feature.
MCAsked ==
    {Public, Signed, Operator, Tenant(None, {"owner"}, None), Tenant("settings", Role, None),
     Tenant("employees", Admins, None), Tenant("stores", Role, "store.finances"),
     Tenant("recruiting", Role, "recruiting")}
MCHired == {[c \in Companies |-> None],
            [c \in Companies |-> IF c = a THEN "owner" ELSE "store_manager"]}
MCSubs == {[plan |-> "free", status |-> "trialing"], [plan |-> "business", status |-> "past_due"],
           [plan |-> "business", status |-> "canceled"]}

Same == Permutations(Calls) \cup Permutations(People)
=============================================================================
