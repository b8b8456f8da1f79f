---------------------------- MODULE Entitlements ----------------------------
(***************************************************************************)
(* What a company may use: EntitlementsService.getEffective, on the plans  *)
(* of plan-defs.ts.  A subscription's plan is laid over the base, an       *)
(* operator's override over both.                                          *)
(***************************************************************************)
EXTENDS Integers

Feature == {"stores", "employees", "scheduling", "attendance", "leave", "documents",
            "messaging", "store.finances", "employee.advanced", "scheduling.suggestions",
            "attendance.advanced", "leave.advanced", "onboarding", "transfers",
            "recruiting", "reports", "analytics", "permissions.overrides", "group.policies"}
Metric == {"employees", "stores"}
SubStatus == {"trialing", "active", "past_due", "canceled"}

\* One map laid over another.
f ++ g == [x \in DOMAIN f \cup DOMAIN g |-> IF x \in DOMAIN f THEN f[x] ELSE g[x]]

(* A feature map need not name every feature: the part it leaves out is the *)
(* base's.                                                                  *)
All(features) == [f \in features |-> TRUE]

DefaultFeatures ==
    [f \in Feature |-> f \notin {"store.finances", "analytics", "permissions.overrides",
                                 "group.policies"}]
DefaultLimits == [employees |-> 10, stores |-> 1]

Unlimited == -1
AtMost(m, n) == n = Unlimited \/ (m # Unlimited /\ m <= n)

StarterFeatures == {"messaging", "leave.advanced", "employee.advanced", "attendance.advanced"}
ProFeatures == StarterFeatures \cup {"scheduling.suggestions", "analytics", "recruiting", "reports"}

BusinessFeatures == ProFeatures \cup {"store.finances", "permissions.overrides", "group.policies"}

PlanDefs ==
    [free     |-> [tier |-> 0, features |-> All({"messaging"}), limits |-> [employees |-> 20, stores |-> 2]],
     starter  |-> [tier |-> 1, features |-> All(StarterFeatures), limits |-> [employees |-> 80, stores |-> 4]],
     pro      |-> [tier |-> 2, features |-> All(ProFeatures), limits |-> [employees |-> 120, stores |-> 9]],
     business |-> [tier |-> 3, features |-> All(BusinessFeatures),
                   limits |-> [employees |-> Unlimited, stores |-> Unlimited]]]
Plan == DOMAIN PlanDefs

\* A company without a row in subscriptions is on no plan at all.
NoSub == [plan |-> "none", status |-> "none"]
Sub == {NoSub} \cup [plan : Plan, status : SubStatus]

OnPlan(s) == s # NoSub /\ s.status # "canceled"

\* (mutant of Effective: the plan is laid over what operators set)
PlanOverOverride(s, override) ==
    IF OnPlan(s) THEN PlanDefs[s.plan].features ++ (override ++ DefaultFeatures)
                 ELSE override ++ DefaultFeatures

Effective(s, override) ==
    override ++ IF OnPlan(s) THEN PlanDefs[s.plan].features ++ DefaultFeatures
                             ELSE DefaultFeatures

EffectiveLimits(s, override) ==
    override ++ IF OnPlan(s) THEN PlanDefs[s.plan].limits ELSE DefaultLimits

\* PlanGuard: no feature is asked for, or the company has it.
Has(s, override, feature) == Effective(s, override)[feature]
=============================================================================
