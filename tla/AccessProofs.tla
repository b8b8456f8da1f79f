---------------------------- MODULE AccessProofs ----------------------------
(***************************************************************************)
(* For any number of companies, any routes of the controllers and any      *)
(* changes between two guards: the types, the membership and permission    *)
(* that a request got through with, and the word of operators and plans    *)
(* about features.  For any accounts, tenants and handlers at once: what a *)
(* request for a company leaves behind, owners and groups.                 *)
(***************************************************************************)
EXTENDS Tenancy, WellFoundedInduction, TLAPS

\* Nothing holds that has not been seen.
NowSeen ==
    /\ \A c \in Companies : <<c, member[c]>> \in seen.member
    /\ \A c \in Companies, r \in Role : <<c, r, matrix[c][r]>> \in seen.row
    /\ \A c \in Companies : <<c, sub[c]>> \in seen.sub
    /\ \A c \in Companies : <<c, override[c]>> \in seen.override

\* A request has no company before it is authenticated, and then one of the
\* person's; beyond the guards' first step it is of a tenant's route.
Begun == request.pc = "auth" => request.company = None
ActsAsMember ==
    request.company # None =>
        request.role \in Role /\ <<request.company, request.role>> \in seen.member
Within(pcs) == request.pc \in pcs /\ request.needs.kind = "tenant"
OnItsWay ==
    /\ request.pc = "guards" => request.needs.kind # "public"
    /\ request.pc \in {"permission", "plan", "override"} => request.needs.kind = "tenant"
    /\ Within({"permission", "plan", "override", "handled"}) => request.company # None
    /\ request.pc = "plan" \/ request.pc = "override" => request.needs.feature # None

\* Past the second guard the matrix has allowed the module, the route the role.
MatrixAllowed ==
    \E row \in Rows : /\ <<request.company, request.role, row>> \in seen.row
                      /\ row # "deny"
                      /\ row = "default" => request.needs.module \in
                            DefaultModuleAccess[request.role]
Permitted ==
    Within({"plan", "override", "handled"}) =>
        /\ request.role \in request.needs.roles
        /\ request.needs.module # None => MatrixAllowed

\* What was read of the subscription was so.
ReadIsSeen ==
    /\ request.pc \in {"auth", "guards", "permission", "plan"} => request.read = NoSub
    /\ request.pc = "override" => <<request.company, request.read>> \in seen.sub

Safe ==
    /\ TypeOK /\ NowSeen /\ Begun /\ ActsAsMember /\ OnItsWay /\ Permitted /\ ReadIsSeen
    /\ OperatorsDecide

-----------------------------------------------------------------------------
(* What the routes need *)

\* They are of a kind that guards know; the feature, if there is one, plans know.
Known(needs) ==
    /\ needs.kind \in {"public", "signed", "platform", "tenant"}
    /\ needs.feature \in Feature \cup {None}
AsksKnown(c) == \A h \in DOMAIN c : Known(c[h])

LEMMA RouteAsks ==
    ASSUME NEW hs, NEW needs, Known(needs)
    PROVE  AsksKnown(Route(hs, needs))
  BY DEF AsksKnown, Route

LEMMA BothAsk ==
    ASSUME NEW c, NEW d, AsksKnown(c), AsksKnown(d)
    PROVE  AsksKnown(c ++ d)
  BY DEF AsksKnown, ++

LEMMA NeedsKnown ==
    /\ Known(Public) /\ Known(Signed) /\ Known(Operator)
    /\ \A m, rs : \A f \in Feature \cup {None} : Known(Tenant(m, rs, f))
  BY DEF Known, Public, Signed, Operator, Tenant, Needs

LEMMA RoutesAskKnown == \A n \in AllNeeds : Known(n)
<1> USE RouteAsks, BothAsk, NeedsKnown
<1> DEFINE F == {"attendance.advanced", "leave.advanced", "documents", "scheduling.suggestions",
                 "employee.advanced", "store.finances", "recruiting", "messaging", "reports", None}
<1>1. F \subseteq Feature \cup {None}
  BY DEF Feature
<1>2. \A m, rs : \A f \in F : Known(Tenant(m, rs, f))
  BY <1>1
<1>3. /\ AsksKnown(AttendanceRoutes) /\ AsksKnown(TerminalRoutes) /\ AsksKnown(DeviceRoutes)
      /\ AsksKnown(DeviceRegistrationRoutes) /\ AsksKnown(LeaveRoutes) /\ AsksKnown(DocumentRoutes)
  BY <1>2 DEF AttendanceRoutes, TerminalRoutes, DeviceRoutes, DeviceRegistrationRoutes,
              LeaveRoutes, DocumentRoutes
<1>4. /\ AsksKnown(SchedulingRoutes) /\ AsksKnown(TransferRoutes) /\ AsksKnown(EmployeeRoutes)
      /\ AsksKnown(EmployeeRecordRoutes) /\ AsksKnown(OnboardingRoutes) /\ AsksKnown(StoreRoutes)
  BY <1>2 DEF SchedulingRoutes, TransferRoutes, EmployeeRoutes, EmployeeRecordRoutes,
              OnboardingRoutes, StoreRoutes
<1>5. /\ AsksKnown(RecruitingRoutes) /\ AsksKnown(CareersRoutes) /\ AsksKnown(MessagingRoutes)
      /\ AsksKnown(NotificationRoutes) /\ AsksKnown(ReportRoutes) /\ AsksKnown(PermissionRoutes)
      /\ AsksKnown(AuditRoutes) /\ AsksKnown(BillingRoutes)
  BY <1>2 DEF RecruitingRoutes, CareersRoutes, MessagingRoutes, NotificationRoutes,
              ReportRoutes, PermissionRoutes, AuditRoutes, BillingRoutes
<1>6. /\ AsksKnown(CompanyRoutes) /\ AsksKnown(GroupRoutes) /\ AsksKnown(AdminRoutes)
      /\ AsksKnown(DesignRoutes) /\ AsksKnown(MeRoutes) /\ AsksKnown(RegistrationRoutes)
      /\ AsksKnown(PlanRoutes)
  BY <1>2 DEF CompanyRoutes, GroupRoutes, AdminRoutes, DesignRoutes, MeRoutes,
              RegistrationRoutes, PlanRoutes
<1>7. /\ AsksKnown(KioskRoutes) /\ AsksKnown(SearchRoutes) /\ AsksKnown(EntitlementRoutes)
      /\ AsksKnown(WebhookRoutes)
  BY <1>2 DEF KioskRoutes, SearchRoutes, EntitlementRoutes, WebhookRoutes
<1>8. \A c \in Controllers : AsksKnown(c)
  BY <1>3, <1>4, <1>5, <1>6, <1>7 DEF Controllers
<1>9. QED
  BY <1>8 DEF AllNeeds, AsksKnown

-----------------------------------------------------------------------------
(* What companies have *)

LEMMA PlansGive ==
    ASSUME NEW s \in Sub, OnPlan(s)
    PROVE  /\ s.plan \in Plan
           /\ DOMAIN PlanDefs[s.plan].features \subseteq Feature
           /\ \A f \in DOMAIN PlanDefs[s.plan].features : PlanDefs[s.plan].features[f] = TRUE
  BY DEF Sub, OnPlan, Plan, PlanDefs, All, BusinessFeatures, ProFeatures, StarterFeatures, Feature

\* A company has a feature by the operators' word or, where they say nothing,
\* by the base or its plan.
LEMMA HasBecause ==
    ASSUME NEW s \in Sub, NEW o \in OverrideMaps, NEW f \in Feature
    PROVE  Has(s, o, f) =
              IF f \in DOMAIN o THEN o[f]
              ELSE \/ DefaultFeatures[f]
                   \/ OnPlan(s) /\ f \in DOMAIN PlanDefs[s.plan].features
<1>1. f \in DOMAIN DefaultFeatures /\ DefaultFeatures[f] \in BOOLEAN
  BY DEF DefaultFeatures
<1>2. CASE f \in DOMAIN o
  BY <1>2 DEF Has, Effective, ++
<1>3. CASE f \notin DOMAIN o /\ ~OnPlan(s)
  BY <1>1, <1>3 DEF Has, Effective, ++
<1>4. CASE f \notin DOMAIN o /\ OnPlan(s)
  <2> DEFINE g == PlanDefs[s.plan].features
  <2>1. \A x \in DOMAIN g : g[x] = TRUE
    BY <1>4, PlansGive
  <2>2. Has(s, o, f) = IF f \in DOMAIN g THEN g[f] ELSE DefaultFeatures[f]
    <3> HIDE DEF g
    <3>1. Effective(s, o) = o ++ (g ++ DefaultFeatures)
      BY <1>4 DEF Effective, g
    <3>2. QED
      BY <1>1, <1>4, <3>1 DEF Has, ++
  <2> HIDE DEF g
  <2>3. QED
    BY <1>1, <1>4, <2>1, <2>2 DEF g
<1>5. QED
  BY <1>2, <1>3, <1>4

-----------------------------------------------------------------------------
(* The steps *)

LEMMA SafeInit == Init => Safe
<1> SUFFICES ASSUME Init PROVE Safe
  OBVIOUS
<1> USE AccessAssumption DEF AccessAssumption
<1>1. request \in RequestState /\ request.pc = "auth" /\ request.company = None
      /\ request.read = NoSub
  BY DEF Init, RequestState, Sub
<1>2. NowSeen /\ DOMAIN seen = DOMAIN Facts
  BY DEF Init, NowSeen, Facts
<1>3. /\ member \in [Companies -> Role \cup {None}]
      /\ matrix \in [Companies -> [Role -> Rows]]
      /\ sub \in [Companies -> Sub]
      /\ status \in [Companies -> CompanyStatus]
      /\ changes \in 0..MaxChanges
  BY DEF Init, Rows, Sub, CompanyStatus
<1>4. \A c \in Companies : override[c] \in UNION {[fs -> BOOLEAN] : fs \in SUBSET Touched}
  <2>1. NoOverride \in [{} -> BOOLEAN] /\ {} \in SUBSET Touched
    BY DEF NoOverride
  <2>2. NoOverride \in UNION {[fs -> BOOLEAN] : fs \in SUBSET Touched}
    BY <2>1
  <2>3. QED
    BY <2>2 DEF Init
<1>5. TypeOK
  BY <1>1, <1>2, <1>3, <1>4 DEF TypeOK
<1>6. QED
  BY <1>1, <1>2, <1>5
  DEF Safe, Begun, ActsAsMember, OnItsWay, Permitted, ReadIsSeen, Within, OperatorsDecide, TenantCall

\* A guard is passed, the request refused or told its company: the world stays as it is,
\* but for the status of companies.
LEMMA RequestMoves ==
    ASSUME Safe, UNCHANGED <<member, matrix, sub, override, changes, seen>>,
           status' \in [Companies -> CompanyStatus],
           request' \in RequestState, request'.needs = request.needs,
           Begun', ActsAsMember', OnItsWay', Permitted', ReadIsSeen', OperatorsDecide'
    PROVE  Safe'
<1>1. TypeOK'
  BY DEF Safe, TypeOK, Facts
<1>2. NowSeen'
  BY DEF Safe, NowSeen
<1>3. QED
  BY <1>1, <1>2 DEF Safe

\* What every step of the guards that only moves the request keeps.
LEMMA PassSafe ==
    ASSUME Safe, NEW pc, UNCHANGED <<member, matrix, sub, override, status, changes, seen>>,
           pc \in {"guards", "permission", "plan", "override", "handled", "refused"},
           request' = [request EXCEPT !.pc = pc],
           OnItsWay', Permitted', ReadIsSeen', OperatorsDecide'
    PROVE  Safe'
<1>1. request \in RequestState
  BY DEF Safe, TypeOK
<1>2. /\ request' \in RequestState /\ request'.pc = pc /\ request'.needs = request.needs
      /\ request'.company = request.company /\ request'.role = request.role
  BY <1>1 DEF RequestState
<1>3. Begun' /\ ActsAsMember'
  BY <1>2 DEF Safe, Begun, ActsAsMember
<1>4. QED
  BY <1>2, <1>3, RequestMoves DEF Safe, TypeOK

\* What anybody changes meanwhile: what holds then has been seen, and what was
\* seen since the guards began still counts.
LEMMA WorldMoves ==
    ASSUME Safe, Changed,
           member' \in [Companies -> Role \cup {None}],
           matrix' \in [Companies -> [Role -> Rows]],
           sub' \in [Companies -> Sub],
           \A c \in Companies : override'[c] \in OverrideMaps,
           status' \in [Companies -> CompanyStatus]
    PROVE  Safe'
<1>1. /\ request' = request /\ request.pc \notin {"handled", "refused"}
      /\ changes' \in 0..MaxChanges
      /\ seen' = IF request.pc = "auth" THEN Facts' ELSE Saw(seen, Facts')
  BY AccessAssumption DEF AccessAssumption, Changed, Safe, TypeOK
<1>2. DOMAIN seen = {"member", "row", "sub", "override"}
  BY DEF Safe, TypeOK, Facts
<1>3. /\ DOMAIN seen' = DOMAIN Facts'
      /\ Facts'.member \subseteq seen'.member /\ Facts'.row \subseteq seen'.row
      /\ Facts'.sub \subseteq seen'.sub /\ Facts'.override \subseteq seen'.override
  BY <1>1, <1>2 DEF Saw, Facts
<1>4. NowSeen'
  BY <1>3 DEF NowSeen, Facts
<1>5. TypeOK'
  BY <1>1, <1>3 DEF Safe, TypeOK, OverrideMaps
<1>6. request.pc # "auth" =>
        /\ seen.member \subseteq seen'.member /\ seen.row \subseteq seen'.row
        /\ seen.sub \subseteq seen'.sub /\ seen.override \subseteq seen'.override
  BY <1>1, <1>2 DEF Saw, Facts
<1>7. Begun' /\ OnItsWay'
  BY <1>1 DEF Safe, Begun, OnItsWay, Within
<1>8. ActsAsMember' /\ ReadIsSeen'
  BY <1>1, <1>6 DEF Safe, Begun, ActsAsMember, ReadIsSeen
<1>9. Permitted'
  BY <1>1, <1>6 DEF Safe, Permitted, Within, MatrixAllowed
<1>10. OperatorsDecide'
  BY <1>1 DEF OperatorsDecide, TenantCall
<1>11. QED
  BY <1>4, <1>5, <1>7, <1>8, <1>9, <1>10 DEF Safe

LEMMA AuthenticateSafe ==
    ASSUME Safe, Authenticate
    PROVE  Safe'
<1>1. /\ request \in RequestState /\ request.pc = "auth" /\ request.company = None
      /\ request.read = NoSub
      /\ member \in [Companies -> Role \cup {None}]
  BY DEF Authenticate, Safe, TypeOK, Begun, ReadIsSeen
<1>2. status' \in [Companies -> CompanyStatus]
  BY DEF Authenticate, Promoted, Safe, TypeOK, CompanyStatus
<1>3. ASSUME NEW c \in Picked,
             request' = [request EXCEPT !.pc = "guards", !.company = c, !.role = member[c]]
      PROVE  Safe'
  <2>1. c \in Companies /\ member[c] \in Role /\ <<c, member[c]>> \in seen.member
    BY <1>1 DEF Picked, Safe, NowSeen
  <2>2. /\ request' \in RequestState /\ request'.pc = "guards" /\ request'.needs = request.needs
        /\ request'.company = c /\ request'.role = member[c] /\ request'.read = NoSub
    BY <1>1, <1>3, <2>1 DEF RequestState
  <2>3. /\ Begun' /\ ActsAsMember' /\ OnItsWay' /\ Permitted' /\ ReadIsSeen'
    BY <2>1, <2>2
    DEF Authenticate, Begun, ActsAsMember, OnItsWay, Permitted, ReadIsSeen, Within
  <2>4. OperatorsDecide'
    BY <2>2 DEF OperatorsDecide, TenantCall
  <2>5. QED
    BY <1>2, <2>2, <2>3, <2>4, RequestMoves DEF Authenticate
<1>4. CASE Goes("guards")
  <2>1. /\ request' \in RequestState /\ request'.pc = "guards" /\ request'.needs = request.needs
        /\ request'.company = None /\ request'.read = NoSub
    BY <1>1, <1>4 DEF Goes, RequestState
  <2>2. Begun' /\ ActsAsMember' /\ OnItsWay' /\ Permitted' /\ ReadIsSeen'
    BY <2>1
    DEF Authenticate, Begun, ActsAsMember, OnItsWay, Permitted, ReadIsSeen, Within
  <2>3. OperatorsDecide'
    BY <2>1 DEF OperatorsDecide, TenantCall
  <2>4. QED
    BY <1>2, <2>1, <2>2, <2>3, RequestMoves DEF Authenticate
<1>5. QED
  BY <1>3, <1>4 DEF Authenticate

\* A request that is refused before its subscription was read.
LEMMA RefuseSafe ==
    ASSUME Safe, Refuse, request.pc \in {"auth", "guards", "permission"}
    PROVE  Safe'
<1>1. request \in RequestState /\ request.read = NoSub
  BY DEF Safe, TypeOK, ReadIsSeen
<1>2. /\ request'.pc = "refused" /\ request'.needs = request.needs /\ request'.read = NoSub
  BY <1>1 DEF Refuse, Goes, RequestState
<1>3. OnItsWay' /\ Permitted' /\ ReadIsSeen' /\ OperatorsDecide'
  BY <1>2 DEF OnItsWay, Permitted, ReadIsSeen, OperatorsDecide, Within, TenantCall
<1>4. QED
  BY <1>3, PassSafe DEF Refuse, Goes, World

LEMMA GuardsSafe ==
    ASSUME Safe, Guards
    PROVE  Safe'
<1>1. /\ request \in RequestState /\ request.pc = "guards" /\ request.read = NoSub
  BY DEF Guards, Safe, TypeOK, ReadIsSeen
<1>2. CASE request.needs.kind # "tenant" /\ Pass("handled")
  <2>1. /\ request'.pc = "handled" /\ request'.needs = request.needs
    BY <1>1, <1>2 DEF Pass, Goes, RequestState
  <2>2. OnItsWay' /\ Permitted' /\ ReadIsSeen' /\ OperatorsDecide'
    BY <1>2, <2>1 DEF OnItsWay, Permitted, ReadIsSeen, OperatorsDecide, Within, TenantCall
  <2>3. QED
    BY <1>2, <2>2, PassSafe DEF Pass, Goes, World
<1>3. CASE request.needs.kind = "tenant" /\ request.company # None /\ Pass("permission")
  <2>1. /\ request'.pc = "permission" /\ request'.needs = request.needs
        /\ request'.company = request.company /\ request'.read = NoSub
    BY <1>1, <1>3 DEF Pass, Goes, RequestState
  <2>2. OnItsWay' /\ Permitted' /\ ReadIsSeen' /\ OperatorsDecide'
    BY <1>3, <2>1 DEF OnItsWay, Permitted, ReadIsSeen, OperatorsDecide, Within, TenantCall
  <2>3. QED
    BY <1>3, <2>2, PassSafe DEF Pass, Goes, World
<1>4. CASE Refuse
  BY <1>1, <1>4, RefuseSafe
<1>5. request.needs.kind \in {"signed", "platform", "tenant"}
  BY <1>1, RoutesAskKnown DEF Safe, OnItsWay, RequestState, Known
<1>6. QED
  BY <1>2, <1>3, <1>4, <1>5 DEF Guards

LEMMA CheckPermissionSafe ==
    ASSUME Safe, CheckPermission
    PROVE  Safe'
<1>1. /\ request \in RequestState /\ request.pc = "permission" /\ request.read = NoSub
      /\ request.needs.kind = "tenant"
      /\ request.company \in Companies /\ request.role \in Role
      /\ matrix \in [Companies -> [Role -> Rows]]
  BY DEF CheckPermission, Safe, TypeOK, ReadIsSeen, OnItsWay, Within, ActsAsMember, RequestState
<1> DEFINE needs == request.needs
           row == matrix[request.company][request.role]
           next == IF needs.feature = None THEN "handled" ELSE "plan"
<1>2. CASE /\ needs.module # None => Can(row, request.role, needs.module)
           /\ request.role \in needs.roles
           /\ Pass(next)
  <2>1. /\ request'.pc = next /\ request'.needs = needs /\ request'.company = request.company
        /\ request'.role = request.role /\ request'.read = NoSub
    BY <1>1, <1>2 DEF Pass, Goes, RequestState
  <2>2. row \in Rows /\ <<request.company, request.role, row>> \in seen.row
    BY <1>1 DEF Safe, NowSeen
  <2>3. needs.module # None => MatrixAllowed
    BY <1>2, <2>2 DEF MatrixAllowed, Can, DefaultAllows, Rows
  <2>4. Permitted'
    BY <1>2, <2>1, <2>3 DEF Permitted, Within, MatrixAllowed, Pass
  <2>5. OnItsWay' /\ ReadIsSeen'
    BY <1>1, <2>1, AccessAssumption DEF OnItsWay, ReadIsSeen, Within, AccessAssumption
  <2>6. OperatorsDecide'
    BY <2>1 DEF OperatorsDecide, TenantCall
  <2>7. QED
    BY <1>2, <2>4, <2>5, <2>6, PassSafe DEF Pass, Goes, World
<1>3. CASE Refuse
  BY <1>1, <1>3, RefuseSafe
<1>4. QED
  BY <1>2, <1>3 DEF CheckPermission
LEMMA AdmitPublicSafe ==
    ASSUME Safe, AdmitPublic
    PROVE  Safe'
<1>1. request \in RequestState
  BY DEF Safe, TypeOK
<1>2. request'.pc = "handled" /\ request'.needs = request.needs /\ request.needs.kind = "public"
  BY <1>1 DEF AdmitPublic, Pass, Goes, RequestState
<1>3. OnItsWay' /\ Permitted' /\ ReadIsSeen' /\ OperatorsDecide'
  BY <1>2 DEF OnItsWay, Permitted, ReadIsSeen, OperatorsDecide, Within, TenantCall
<1>4. QED
  BY <1>3, PassSafe DEF AdmitPublic, Pass, Goes, World

LEMMA ReadSubscriptionSafe ==
    ASSUME Safe, ReadSubscription
    PROVE  Safe'
<1>1. /\ request \in RequestState /\ request.pc = "plan" /\ request.needs.kind = "tenant"
      /\ request.company \in Companies /\ sub \in [Companies -> Sub]
  BY DEF ReadSubscription, Safe, TypeOK, OnItsWay, Within, RequestState
<1>2. /\ request' \in RequestState /\ request'.pc = "override" /\ request'.needs = request.needs
      /\ request'.company = request.company /\ request'.role = request.role
      /\ request'.read = sub[request.company]
  BY <1>1 DEF ReadSubscription, RequestState
<1>3. UNCHANGED <<member, matrix, sub, override, status, changes, seen>>
  BY DEF ReadSubscription, World
<1>4. Begun' /\ ActsAsMember' /\ OnItsWay'
  BY <1>1, <1>2, <1>3 DEF Safe, Begun, ActsAsMember, OnItsWay, Within
<1>5. Permitted'
  BY <1>1, <1>2, <1>3 DEF Safe, Permitted, Within, MatrixAllowed
<1>6. ReadIsSeen'
  BY <1>1, <1>2, <1>3 DEF Safe, NowSeen, ReadIsSeen
<1>7. OperatorsDecide'
  BY <1>2 DEF OperatorsDecide, TenantCall
<1>8. QED
  BY <1>2, <1>3, <1>4, <1>5, <1>6, <1>7, RequestMoves DEF Safe, TypeOK

LEMMA ReadOverrideSafe ==
    ASSUME Safe, ReadOverride
    PROVE  Safe'
<1>1. /\ request \in RequestState /\ request.pc = "override" /\ request.needs.kind = "tenant"
      /\ request.company \in Companies /\ request.needs.feature # None
  BY DEF ReadOverride, Safe, TypeOK, OnItsWay, Within, RequestState
<1> DEFINE f == request.needs.feature
           o == override[request.company]
           s == request.read
<1>2. f \in Feature
  BY <1>1, RoutesAskKnown DEF RequestState, Known
<1>3. o \in OverrideMaps /\ <<request.company, o>> \in seen.override
  BY <1>1 DEF Safe, TypeOK, NowSeen, OverrideMaps
<1>4. s \in Sub /\ <<request.company, s>> \in seen.sub
  BY <1>1 DEF Safe, ReadIsSeen, RequestState
<1>5. Has(s, o, f) = IF f \in DOMAIN o THEN o[f]
                     ELSE DefaultFeatures[f] \/ (OnPlan(s) /\ f \in DOMAIN PlanDefs[s.plan].features)
  BY <1>2, <1>3, <1>4, HasBecause
<1>6. CASE Has(s, o, f) /\ Pass("handled")
  <2>1. /\ request'.pc = "handled" /\ request'.needs = request.needs /\ seen' = seen
        /\ request'.company = request.company /\ request'.role = request.role
    BY <1>1, <1>6 DEF Pass, Goes, RequestState
  <2>2. OperatorsDecide'
    <3> HIDE DEF o, s
    <3>1. IF f \in DOMAIN o THEN o[f]
          ELSE DefaultFeatures[f] \/ (OnPlan(s) /\ f \in DOMAIN PlanDefs[s.plan].features)
      BY <1>5, <1>6
    <3>2. QED
      BY <1>3, <1>4, <2>1, <3>1 DEF OperatorsDecide, TenantCall
  <2>3. OnItsWay' /\ ReadIsSeen'
    BY <1>1, <2>1 DEF Safe, OnItsWay, ReadIsSeen, Within
  <2>4. Permitted'
    BY <1>1, <2>1 DEF Safe, Permitted, Within, MatrixAllowed
  <2>5. QED
    BY <1>6, <2>2, <2>3, <2>4, PassSafe DEF Pass, Goes, World
<1>7. CASE ~Has(s, o, f) /\ Refuse
  <2>1. /\ request'.pc = "refused" /\ request'.needs = request.needs /\ seen' = seen
        /\ request'.company = request.company
    BY <1>1, <1>7 DEF Refuse, Goes, RequestState
  <2>2. OperatorsDecide'
    BY <1>3, <1>5, <1>7, <2>1 DEF OperatorsDecide, TenantCall
  <2>3. OnItsWay' /\ ReadIsSeen' /\ Permitted'
    BY <2>1 DEF OnItsWay, ReadIsSeen, Permitted, Within
  <2>4. QED
    BY <1>7, <2>2, <2>3, PassSafe DEF Refuse, Goes, World
<1>8. QED
  BY <1>6, <1>7 DEF ReadOverride

\* Memberships, permissions, plans, overrides and the status of companies change.
LEMMA ChangesSafe ==
    ASSUME Safe, NEW c \in Companies,
           \/ \E r \in Roles \cup {None} : ChangeMember(c, r)
           \/ \E r \in Roles, row \in Rows : SetOverrides(c, r, row)
           \/ \E s \in Subs : ChangeSub(c, s)
           \/ \E f \in OverrideMaps : SetOverride(c, f)
           \/ \E s \in Statuses : SetStatus(c, s)
    PROVE  Safe'
<1>1. /\ member \in [Companies -> Role \cup {None}]
      /\ matrix \in [Companies -> [Role -> Rows]]
      /\ sub \in [Companies -> Sub]
      /\ \A d \in Companies : override[d] \in OverrideMaps
      /\ status \in [Companies -> CompanyStatus]
  BY DEF Safe, TypeOK, OverrideMaps
<1>2. Roles \subseteq Role /\ Subs \subseteq Sub /\ Statuses \subseteq CompanyStatus
  BY AccessAssumption DEF AccessAssumption
<1>3. ASSUME NEW r \in Roles \cup {None}, ChangeMember(c, r)
      PROVE  Safe'
  <2>1. member' \in [Companies -> Role \cup {None}]
    BY <1>1, <1>2, <1>3 DEF ChangeMember
  <2>2. QED
    BY <1>1, <1>3, <2>1, WorldMoves DEF ChangeMember
<1>4. ASSUME NEW r \in Roles, NEW row \in Rows, SetOverrides(c, r, row)
      PROVE  Safe'
  <2>1. matrix' \in [Companies -> [Role -> Rows]]
    BY <1>1, <1>2, <1>4 DEF SetOverrides
  <2>2. QED
    BY <1>1, <1>4, <2>1, WorldMoves DEF SetOverrides
<1>5. ASSUME NEW s \in Subs, ChangeSub(c, s)
      PROVE  Safe'
  <2>1. sub' \in [Companies -> Sub]
    BY <1>1, <1>2, <1>5 DEF ChangeSub
  <2>2. QED
    BY <1>1, <1>5, <2>1, WorldMoves DEF ChangeSub
<1>6. ASSUME NEW f \in OverrideMaps, SetOverride(c, f)
      PROVE  Safe'
  <2>1. \A d \in Companies : override'[d] \in OverrideMaps
    BY <1>1, <1>6 DEF SetOverride
  <2>2. QED
    BY <1>1, <1>6, <2>1, WorldMoves DEF SetOverride
<1>7. ASSUME NEW s \in Statuses, SetStatus(c, s)
      PROVE  Safe'
  <2>1. status' \in [Companies -> CompanyStatus]
    BY <1>1, <1>2, <1>7 DEF SetStatus
  <2>2. QED
    BY <1>1, <1>7, <2>1, WorldMoves DEF SetStatus
<1>8. QED
  BY <1>3, <1>4, <1>5, <1>6, <1>7

LEMMA StepSafe == Safe /\ [Next]_vars => Safe'
<1> SUFFICES ASSUME Safe, [Next]_vars PROVE Safe'
  OBVIOUS
<1>1. CASE Authenticate
  BY <1>1, AuthenticateSafe
<1>2. CASE AdmitPublic
  BY <1>2, AdmitPublicSafe
<1>3. CASE RefuseUnsigned
  BY <1>3, RefuseSafe DEF RefuseUnsigned
<1>4. CASE Guards
  BY <1>4, GuardsSafe
<1>5. CASE CheckPermission
  BY <1>5, CheckPermissionSafe
<1>6. CASE ReadSubscription
  BY <1>6, ReadSubscriptionSafe
<1>7. CASE ReadOverride
  BY <1>7, ReadOverrideSafe
<1>8. CASE \E c \in Companies :
              \/ \E r \in Roles \cup {None} : ChangeMember(c, r)
              \/ \E r \in Roles, row \in Rows : SetOverrides(c, r, row)
              \/ \E s \in Subs : ChangeSub(c, s)
              \/ \E f \in OverrideMaps : SetOverride(c, f)
              \/ \E s \in Statuses : SetStatus(c, s)
  BY <1>8, ChangesSafe
<1>9. CASE UNCHANGED vars
  <2>1. UNCHANGED <<member, matrix, sub, override, status, request, changes, seen>>
    BY <1>9 DEF vars
  <2>2. Begun' /\ ActsAsMember' /\ OnItsWay' /\ ReadIsSeen'
    BY <2>1 DEF Safe, Begun, ActsAsMember, OnItsWay, ReadIsSeen, Within
  <2>3. Permitted'
    BY <2>1 DEF Safe, Permitted, Within, MatrixAllowed
  <2>4. OperatorsDecide'
    BY <2>1 DEF Safe, OperatorsDecide, TenantCall
  <2>5. status' \in [Companies -> CompanyStatus] /\ request' \in RequestState
    BY <2>1 DEF Safe, TypeOK
  <2>6. QED
    BY <2>1, <2>2, <2>3, <2>4, <2>5, RequestMoves
<1>10. QED
  BY <1>1, <1>2, <1>3, <1>4, <1>5, <1>6, <1>7, <1>8, <1>9 DEF Next

LEMMA SafeAlways == Spec => []Safe
  BY SafeInit, StepSafe, PTL DEF Spec
-----------------------------------------------------------------------------
(* Tiers *)

LEMMA TiersGrow ==
    ASSUME NEW p \in Plan, NEW q \in Plan, PlanDefs[p].tier < PlanDefs[q].tier
    PROVE  /\ DOMAIN PlanDefs[p].features \subseteq DOMAIN PlanDefs[q].features
           /\ \A m \in Metric : AtMost(PlanDefs[p].limits[m], PlanDefs[q].limits[m])
<1>1. Plan = {"free", "starter", "pro", "business"}
  BY DEF Plan, PlanDefs
<1>2. DOMAIN PlanDefs[p].features \subseteq DOMAIN PlanDefs[q].features
  BY <1>1 DEF PlanDefs, All, BusinessFeatures, ProFeatures, StarterFeatures
<1>3. \A m \in Metric : AtMost(PlanDefs[p].limits[m], PlanDefs[q].limits[m])
  BY <1>1 DEF PlanDefs, Metric, AtMost, Unlimited
<1>4. QED
  BY <1>2, <1>3

LEMMA LimitsOfPlan ==
    ASSUME NEW p \in Plan, NEW m \in Metric
    PROVE  EffectiveLimits([plan |-> p, status |-> "active"], NoOverride)[m] = PlanDefs[p].limits[m]
<1> DEFINE s == [plan |-> p, status |-> "active"]
<1>1. OnPlan(s) /\ s.plan = p
  BY DEF OnPlan, NoSub
<1>2. m \in DOMAIN PlanDefs[p].limits
  BY DEF Plan, PlanDefs, Metric
<1>3. EffectiveLimits(s, NoOverride) = NoOverride ++ PlanDefs[p].limits
  BY <1>1 DEF EffectiveLimits
<1>4. QED
  BY <1>2, <1>3 DEF NoOverride, ++

LEMMA UpgradesAdd == Safe => UpgradeOnlyAdds
<1> DEFINE o == override[request.company]
<1> SUFFICES ASSUME Safe, TenantCall,
                    NEW p \in Plan, NEW q \in Plan, PlanDefs[p].tier < PlanDefs[q].tier
             PROVE  LET s == [plan |-> p, status |-> "active"]
                        t == [plan |-> q, status |-> "active"]
                    IN  /\ \A f \in Feature : Has(s, o, f) => Has(t, o, f)
                        /\ \A m \in Metric : AtMost(EffectiveLimits(s, NoOverride)[m],
                                                    EffectiveLimits(t, NoOverride)[m])
  BY DEF UpgradeOnlyAdds, Has
<1> DEFINE s == [plan |-> p, status |-> "active"]
           t == [plan |-> q, status |-> "active"]
<1>1. /\ s \in Sub /\ OnPlan(s) /\ s.plan = p
      /\ t \in Sub /\ OnPlan(t) /\ t.plan = q
  BY DEF Sub, OnPlan, NoSub, SubStatus
<1>2. o \in OverrideMaps
  BY DEF Safe, TypeOK, OnItsWay, Within, TenantCall, OverrideMaps, RequestState
<1> HIDE DEF o, s, t
<1>3. \A f \in Feature : Has(s, o, f) => Has(t, o, f)
  BY <1>1, <1>2, HasBecause, TiersGrow
<1>4. \A m \in Metric : AtMost(EffectiveLimits(s, NoOverride)[m], EffectiveLimits(t, NoOverride)[m])
  BY LimitsOfPlan, TiersGrow DEF s, t
<1>5. QED
  BY <1>3, <1>4 DEF s, t

-----------------------------------------------------------------------------

\* Between any two guards memberships, roles and the matrix may change, for any number
\* of companies and of changes: a tenant's handler still runs only for a company and
\* with a role that the person had, which the route allows and the matrix, at some moment
\* of the request (AuthService.authenticate, TenantGuard, PermissionGuard, RolesGuard).
THEOREM GuardsCorrect == Spec => []GuardsHold
<1>1. Safe => GuardsHold
  <2> SUFFICES ASSUME Safe, TenantCall PROVE NeverWidens /\ PermissionBites
    BY DEF GuardsHold, NeverWidens, PermissionBites
  <2>1. Within({"permission", "plan", "override", "handled"}) /\ Within({"plan", "override", "handled"})
    BY DEF TenantCall, Within
  <2>2. NeverWidens
    BY <2>1 DEF Safe, OnItsWay, ActsAsMember, NeverWidens
  <2>3. PermissionBites
    BY <2>1 DEF Safe, Permitted, MatrixAllowed, PermissionBites
  <2>4. QED
    BY <2>2, <2>3
<1>2. QED
  BY <1>1, SafeAlways, PTL

\* PlanGuard reads the subscription and then the override, with changes in between; what
\* operators grant or deny all the time decides, else the base and a plan of that time;
\* and on every tier a company has what it had on the lower ones (plan-defs.ts).
THEOREM PlansCorrect == Spec => []PlansDecide
<1>1. Safe => PlansDecide
  BY UpgradesAdd DEF Safe, PlansDecide
<1>2. QED
  BY <1>1, SafeAlways, PTL
-----------------------------------------------------------------------------
(* Accounts *)

Registering(c) == call[c].pc \in {"signup", "slug", "provision"}

\* What a handler with the locals p relies on.
HandlerKnows(p) ==
    /\ p.pc \in {"signup", "slug", "provision"} => p.person \in People
    /\ p.pc = "attach" => p.company \in Tenants /\ A!Exists(p.company)
    /\ p.pc \in {"attach", "delete"} => p.group \in Groups

\* Of handlers that do not overlap one is at work at a time ...
OneAtWork == \A c, d \in Calls : ~A!At(c, "idle") /\ ~A!At(d, "idle") => c = d

\* ... so that nobody becomes a user, and no slug is taken, behind a registration's back.
StillFree ==
    \A c \in Calls :
        /\ Registering(c) => call[c].person \notin user
        /\ A!At(c, "provision") => call[c].slug > 0 /\ call[c].slug \notin A!Slugs

\* Who has an identity and no company yet is waited for by the call that made it.
OwnsOne(p) == \E k \in Tenants : A!Exists(k) /\ company[k].owner = p
OnTheWay(p) == \E c \in Calls : call[c].pc \in {"slug", "provision"} /\ call[c].person = p
NobodyForgotten == \A p \in People \ dead : identity[p] # "none" => OwnsOne(p) \/ OnTheWay(p)

\* A company is put into a group that is there, and a group goes that nobody is in.
GroupsKept ==
    /\ \A k \in Tenants \ astray :
          A!Exists(k) /\ company[k].group # Null => A!GroupExists(company[k].group)
    /\ \A c \in Calls : A!At(c, "attach") => A!GroupExists(call[c].group)
    /\ \A c \in Calls, k \in Tenants :
          A!At(c, "delete") /\ A!Exists(k) => company[k].group # call[c].group

AccountsSafe ==
    /\ A!TypeOK /\ (\A c \in Calls : HandlerKnows(call[c]))
    /\ A!PendingUntilConfirmed
    /\ ~overlap => OneAtWork /\ StillFree /\ NobodyForgotten /\ GroupsKept

LEMMA IdleHandler == A!Idle \in A!CallState /\ HandlerKnows(A!Idle) /\ HandlerKnows(A!Idle)'
<1>1. 0 \in 0..MaxSlug
  BY TenancyAssumption DEF A!AccountsAssumption
<1>2. QED
  BY <1>1 DEF A!Idle, A!CallState, HandlerKnows

LEMMA AccountsInit == A!Init => AccountsSafe
<1> SUFFICES ASSUME A!Init PROVE AccountsSafe
  OBVIOUS
<1>1. A!TypeOK
  BY IdleHandler DEF A!Init, A!TypeOK, A!Identity, A!Group
<1>2. \A c \in Calls : call[c] = A!Idle
  BY DEF A!Init
<1>3. QED
  BY <1>1, <1>2, IdleHandler
  DEF A!Init, A!Idle, A!At, A!Exists, AccountsSafe, A!PendingUntilConfirmed, OneAtWork, StillFree,
      Registering, NobodyForgotten, GroupsKept

\* Where none was there, the next free number is one that no slug has.
LEMMA FreeSlugIsFree ==
    ASSUME A!TypeOK PROVE A!FreeSlug \in Nat /\ A!FreeSlug > 0 /\ A!FreeSlug \notin A!Slugs
<1> DEFINE S == 1..(MaxSlug + 1) \ A!Slugs
<1>1. MaxSlug \in Nat
  BY TenancyAssumption DEF A!AccountsAssumption
<1>2. \A k \in Tenants : A!Exists(k) => company[k].slug \in 0..MaxSlug
  BY DEF A!TypeOK, A!Exists, A!Company
<1>3. MaxSlug + 1 \in S
  BY <1>1, <1>2 DEF A!Slugs
<1>4. S \subseteq Nat /\ S # {}
  BY <1>1, <1>3
<1>5. PICK m \in S : \A n \in S : ~(<<n, m>> \in OpToRel(<, Nat))
  <2> HIDE DEF S
  <2>1. QED
    BY <1>4, WFMin, NatLessThanWellFounded
<1>6. m \in S /\ \A n \in S : m <= n
  <2>1. \A n \in S : n \in Nat /\ m \in Nat /\ ~(n < m)
    <3> HIDE DEF S
    <3>1. QED
      BY <1>4, <1>5 DEF OpToRel
  <2>2. QED
    BY <2>1
<1>7. A!FreeSlug = CHOOSE x \in S : \A y \in S : x <= y
  BY DEF A!FreeSlug, A!Min
<1>8. A!FreeSlug \in S
  BY <1>6, <1>7
<1>9. QED
  BY <1>1, <1>8

\* A step of the handler c, which does not begin while another is at work.
LEMMA HandlerMoves ==
    ASSUME AccountsSafe, NEW c \in Calls, NEW q \in A!CallState,
           call' = [call EXCEPT ![c] = q], UNCHANGED overlap,
           A!At(c, "idle") => A!Alone
    PROVE  /\ call' \in [Calls -> A!CallState] /\ call'[c] = q
           /\ \A d \in Calls : d # c => call'[d] = call[d]
           /\ ~overlap => OneAtWork' /\ \A d \in Calls : d # c => A!At(d, "idle")
<1>1. call \in [Calls -> A!CallState]
  BY DEF AccountsSafe, A!TypeOK
<1>2. /\ call' \in [Calls -> A!CallState] /\ call'[c] = q
      /\ \A d \in Calls : d # c => call'[d] = call[d]
  BY <1>1
<1>3. ~overlap => \A d \in Calls : d # c => A!At(d, "idle")
  BY DEF AccountsSafe, OneAtWork, A!Alone
<1>4. QED
  BY <1>2, <1>3 DEF OneAtWork, A!At

\* A step of the handler c that changes nothing else, and what it has to say of itself.
LEMMA HandlerOnly ==
    ASSUME AccountsSafe, NEW c \in Calls, NEW q \in A!CallState,
           call' = [call EXCEPT ![c] = q],
           UNCHANGED <<identity, user, company, group, overlap, operated, astray>>,
           dead \subseteq dead', dead' \subseteq People,
           A!At(c, "idle") => A!Alone,
           HandlerKnows(q),
           ~overlap =>
              /\ q.pc \in {"signup", "slug", "provision"} => q.person \notin user
              /\ q.pc = "provision" => q.slug > 0 /\ q.slug \notin A!Slugs
              /\ q.pc = "attach" => A!GroupExists(q.group)
              /\ q.pc = "delete" => \A k \in Tenants : A!Exists(k) => company[k].group # q.group
              /\ \A p \in People \ dead' :
                    call[c].pc \in {"slug", "provision"} /\ call[c].person = p /\ ~OwnsOne(p)
                    => q.pc \in {"slug", "provision"} /\ q.person = p
    PROVE  AccountsSafe'
<1>1. /\ call' \in [Calls -> A!CallState] /\ call'[c] = q
      /\ \A d \in Calls : d # c => call'[d] = call[d]
      /\ ~overlap => OneAtWork' /\ \A d \in Calls : d # c => A!At(d, "idle")
  BY HandlerMoves
<1>2. A!TypeOK'
  BY <1>1 DEF AccountsSafe, A!TypeOK
<1>3. ASSUME NEW d \in Calls PROVE HandlerKnows(call[d])'
  BY <1>1 DEF AccountsSafe, HandlerKnows, A!Exists
<1>4. A!PendingUntilConfirmed'
  BY DEF AccountsSafe, A!PendingUntilConfirmed, A!Exists
<1>5. ~overlap => StillFree'
  BY <1>1 DEF AccountsSafe, StillFree, Registering, A!At, A!Slugs, A!Exists
<1>6. ASSUME ~overlap, NEW p \in People \ dead', identity[p] # "none", ~OwnsOne(p) PROVE OnTheWay(p)'
  <2>1. PICK d \in Calls : call[d].pc \in {"slug", "provision"} /\ call[d].person = p
    BY <1>6 DEF AccountsSafe, NobodyForgotten, OnTheWay
  <2>2. call'[d].pc \in {"slug", "provision"} /\ call'[d].person = p
    BY <1>1, <1>6, <2>1
  <2>3. QED
    BY <2>2 DEF OnTheWay
<1>7. ~overlap => NobodyForgotten'
  BY <1>6 DEF NobodyForgotten, OwnsOne, A!Exists
<1>8. ~overlap => GroupsKept'
  BY <1>1 DEF AccountsSafe, GroupsKept, A!At, A!Exists, A!GroupExists
<1>9. QED
  BY <1>1, <1>2, <1>3, <1>4, <1>5, <1>7, <1>8 DEF AccountsSafe

LEMMA RegisterStep == ASSUME AccountsSafe, NEW c \in Calls, NEW p \in People, A!Register(c, p) PROVE AccountsSafe'
<1>1. PICK q : q = [A!Idle EXCEPT !.pc = "signup", !.person = p]
  OBVIOUS
<1>2. q \in A!CallState /\ q.pc = "signup" /\ q.person = p
  BY <1>1, IdleHandler DEF A!CallState, A!Idle
<1>3. call' = [call EXCEPT ![c] = q] /\ call[c].pc = "idle"
  BY <1>1 DEF A!Register, A!At
<1>4. HandlerKnows(q) /\ (p \notin user) /\ (dead' = dead) /\ dead \subseteq People
  BY <1>2 DEF HandlerKnows, A!Register, A!Rest, AccountsSafe, A!TypeOK
<1>5. A!Alone /\ UNCHANGED <<identity, user, company, group, overlap, operated, astray>>
  BY DEF A!Register, A!Rows, A!Rest
<1>6. QED
  BY <1>2, <1>3, <1>4, <1>5, HandlerOnly

LEMMA ReturnKeeps ==
    ASSUME AccountsSafe, NEW c \in Calls, A!Return(c), ~A!At(c, "idle"),
           UNCHANGED <<identity, user, company, group, overlap, operated, astray>>,
           dead \subseteq dead', dead' \subseteq People,
           \A p \in People \ dead' :
              call[c].pc \in {"slug", "provision"} /\ call[c].person = p => OwnsOne(p) \/ overlap
    PROVE  AccountsSafe'
<1>1. PICK q : q = A!Idle
  OBVIOUS
<1>2. q \in A!CallState /\ HandlerKnows(q) /\ q.pc = "idle"
  BY <1>1, IdleHandler DEF A!Idle
<1>3. call' = [call EXCEPT ![c] = q]
  BY <1>1 DEF A!Return
<1>4. QED
  BY <1>2, <1>3, HandlerOnly

LEMMA SignUpStep == ASSUME AccountsSafe, NEW c \in Calls, A!SignUp(c) PROVE AccountsSafe'
<1> DEFINE p == call[c].person
<1>1. call[c] \in A!CallState /\ p \in People /\ call[c].pc = "signup" /\ ~A!At(c, "idle")
  BY DEF AccountsSafe, A!TypeOK, A!SignUp, A!At, HandlerKnows
<1>2. CASE identity[p] # "confirmed" /\ identity' = [identity EXCEPT ![p] = "unconfirmed"] /\ A!Goto(c, "slug")
  <2>1. PICK q : q = [call[c] EXCEPT !.pc = "slug"]
    OBVIOUS
  <2>2. q \in A!CallState /\ q.pc = "slug" /\ q.person = p
    BY <1>1, <2>1 DEF A!CallState
  <2>3. call' = [call EXCEPT ![c] = q]
    BY <1>2, <2>1 DEF A!Goto
  <2>4. UNCHANGED <<user, company, group, overlap, dead, operated, astray>>
    BY DEF A!SignUp, A!Rows, A!Rest
  <2>5. /\ call' \in [Calls -> A!CallState] /\ call'[c] = q
        /\ \A d \in Calls : d # c => call'[d] = call[d]
        /\ ~overlap => OneAtWork' /\ \A d \in Calls : d # c => A!At(d, "idle")
    BY <1>1, <2>2, <2>3, <2>4, HandlerMoves
  <2>6. identity' \in [People -> A!Identity] /\ \A x \in People : x # p => identity'[x] = identity[x]
    BY <1>2 DEF AccountsSafe, A!TypeOK, A!Identity
  <2>7. A!TypeOK'
    BY <2>4, <2>5, <2>6 DEF AccountsSafe, A!TypeOK
  <2>8. ASSUME NEW d \in Calls PROVE HandlerKnows(call[d])'
    BY <1>1, <2>2, <2>4, <2>5 DEF AccountsSafe, HandlerKnows, A!Exists
  <2>9. A!PendingUntilConfirmed'
    <3>1. \A k \in Tenants : A!Exists(k) => company[k].owner \in People
      BY DEF AccountsSafe, A!TypeOK, A!Exists, A!Company
    <3>2. QED
      BY <1>2, <2>4, <2>6, <3>1 DEF AccountsSafe, A!PendingUntilConfirmed, A!Exists
  <2>10. ~overlap => StillFree'
    BY <1>1, <2>2, <2>4, <2>5 DEF AccountsSafe, StillFree, Registering, A!At, A!Slugs, A!Exists
  <2>11. ASSUME ~overlap, NEW x \in People \ dead', identity'[x] # "none", ~OwnsOne(x) PROVE OnTheWay(x)'
    <3>1. CASE x = p
      BY <2>2, <2>5, <3>1 DEF OnTheWay
    <3>2. CASE x # p
      <4>1. OnTheWay(x)
        BY <2>4, <2>6, <2>11, <3>2 DEF AccountsSafe, NobodyForgotten
      <4>2. QED
        BY <1>1, <2>5, <4>1 DEF OnTheWay
    <3>3. QED
      BY <3>1, <3>2
  <2>12. ~overlap => NobodyForgotten'
    BY <2>4, <2>11 DEF NobodyForgotten, OwnsOne, A!Exists
  <2>13. ~overlap => GroupsKept'
    BY <2>2, <2>4, <2>5 DEF AccountsSafe, GroupsKept, A!At, A!Exists, A!GroupExists
  <2>14. QED
    BY <2>4, <2>5, <2>7, <2>8, <2>9, <2>10, <2>12, <2>13 DEF AccountsSafe
<1>3. CASE A!Return(c) /\ UNCHANGED identity
  <2>1. UNCHANGED <<identity, user, company, group, overlap, operated, astray>> /\ dead' = dead /\ dead \subseteq People
    BY <1>3 DEF A!SignUp, A!Rows, A!Rest, AccountsSafe, A!TypeOK
  <2>2. QED
    BY <1>1, <1>3, <2>1, ReturnKeeps
<1>4. QED
  BY <1>2, <1>3 DEF A!SignUp

LEMMA UniqueSlugStep == ASSUME AccountsSafe, NEW c \in Calls, A!UniqueSlug(c) PROVE AccountsSafe'
<1>1. call[c] \in A!CallState /\ call[c].person \in People /\ call[c].pc = "slug"
  BY DEF AccountsSafe, A!TypeOK, A!UniqueSlug, A!At, HandlerKnows
<1>2. PICK f : f = A!FreeSlug
  OBVIOUS
<1>3. f \in 0..MaxSlug /\ f > 0 /\ f \notin A!Slugs
  BY <1>2, FreeSlugIsFree, TenancyAssumption DEF A!AccountsAssumption, A!UniqueSlug, AccountsSafe
<1>4. PICK q : q = [call[c] EXCEPT !.pc = "provision", !.slug = f]
  OBVIOUS
<1>5. q \in A!CallState /\ q.pc = "provision" /\ q.person = call[c].person /\ q.slug = f
  BY <1>1, <1>3, <1>4 DEF A!CallState
<1>6. call \in [Calls -> A!CallState]
  BY DEF AccountsSafe, A!TypeOK
<1>7. call' = [call EXCEPT ![c] = q]
  BY <1>2, <1>4, <1>6 DEF A!UniqueSlug
<1>8. UNCHANGED <<identity, user, company, group, overlap, operated, astray>> /\ dead' = dead /\ dead \subseteq People
  BY DEF A!UniqueSlug, A!Rows, A!Rest, AccountsSafe, A!TypeOK
<1>9. HandlerKnows(q) /\ ~A!At(c, "idle")
  BY <1>1, <1>5 DEF HandlerKnows, A!At
<1>10. ~overlap => q.person \notin user
  BY <1>1, <1>5 DEF AccountsSafe, StillFree, Registering
<1>11. QED
  BY <1>3, <1>5, <1>7, <1>8, <1>9, <1>10, HandlerOnly

\* A step that no handler of Calls takes: companies keep their owners and lose no slug,
\* groups stay, and nobody becomes a user while a registration is alone.
LEMMA RowsOnly ==
    ASSUME AccountsSafe, UNCHANGED <<call, overlap, dead>>,
           astray \subseteq astray', astray' \subseteq Tenants,
           identity' \in [People -> A!Identity],
           \A p \in People : /\ identity[p] = "confirmed" => identity'[p] = "confirmed"
                             /\ identity'[p] # "none" => identity[p] # "none",
           user' \subseteq People, user' = user \/ A!Alone,
           company' \in [Tenants -> A!Company \cup {Null}],
           operated \subseteq operated', operated' \subseteq Tenants,
           \A k \in Tenants : A!Exists(k) => A!Exists(k)' /\ company'[k].owner = company[k].owner,
           \A k \in Tenants : A!Exists(k)' =>
              /\ company'[k].slug = 0 \/ (A!Exists(k) /\ company'[k].slug = company[k].slug)
              /\ \/ company'[k].group = Null \/ (A!Exists(k) /\ company'[k].group = company[k].group)
                 \/ A!Alone /\ (k \in astray' \/ A!GroupExists(company'[k].group))
              /\ \/ company'[k].status = "pending" \/ identity'[company'[k].owner] = "confirmed"
                 \/ company'[k].slug = 0
                 \/ (A!Exists(k) /\ company'[k].status = company[k].status)
                 \/ k \in operated',
           group' \in [Groups -> A!Group],
           \A g \in Groups : A!GroupExists(g) => A!GroupExists(g)'
    PROVE  AccountsSafe'
<1>1. A!TypeOK'
  BY DEF AccountsSafe, A!TypeOK
<1>2. ASSUME NEW d \in Calls PROVE HandlerKnows(call[d])'
  BY DEF AccountsSafe, HandlerKnows
<1>3. A!PendingUntilConfirmed'
  <2> SUFFICES ASSUME NEW k \in Tenants \ operated', A!Exists(k)', company'[k].slug # 0,
                      company'[k].status # "pending"
               PROVE  identity'[company'[k].owner] = "confirmed"
    BY DEF A!PendingUntilConfirmed, A!Exists
  <2>1. CASE A!Exists(k) /\ company'[k].status = company[k].status
    <3>1. company[k].owner \in People /\ company'[k].slug = company[k].slug
      BY <2>1 DEF AccountsSafe, A!TypeOK, A!Exists, A!Company
    <3>2. QED
      BY <2>1, <3>1 DEF AccountsSafe, A!PendingUntilConfirmed
  <2>2. QED
    BY <2>1
<1>4. ~overlap => OneAtWork'
  BY DEF AccountsSafe, OneAtWork, A!At
<1>5. ~overlap => StillFree'
  <2> SUFFICES ASSUME ~overlap, NEW c \in Calls
               PROVE  /\ Registering(c) => call[c].person \notin user'
                      /\ A!At(c, "provision") => call[c].slug > 0 /\ call[c].slug \notin A!Slugs'
    BY DEF StillFree, Registering, A!At
  <2>1. Registering(c) => call[c].person \notin user'
    BY DEF AccountsSafe, StillFree, Registering, A!Alone, A!At
  <2>2. A!At(c, "provision") => call[c].slug > 0 /\ call[c].slug \notin A!Slugs'
    BY DEF AccountsSafe, StillFree, A!Slugs
  <2>3. QED
    BY <2>1, <2>2
<1>6. ~overlap => NobodyForgotten'
  <2> SUFFICES ASSUME ~overlap, NEW p \in People \ dead, identity'[p] # "none"
               PROVE  OwnsOne(p)' \/ OnTheWay(p)'
    BY DEF NobodyForgotten
  <2>1. OwnsOne(p) \/ OnTheWay(p)
    BY DEF AccountsSafe, NobodyForgotten
  <2>2. OwnsOne(p) => OwnsOne(p)'
    BY DEF OwnsOne
  <2>3. QED
    BY <2>1, <2>2 DEF OnTheWay
<1>7. ~overlap => GroupsKept'
  <2> SUFFICES ASSUME ~overlap PROVE GroupsKept'
    OBVIOUS
  <2>1. \A k \in Tenants \ astray' : A!Exists(k)' /\ company'[k].group # Null =>
           company'[k].group \in Groups /\ A!GroupExists(company'[k].group)
    BY <1>1 DEF AccountsSafe, GroupsKept, A!TypeOK, A!Company, A!Exists
  <2>2. \A c \in Calls : A!At(c, "attach") => call[c].group \in Groups /\ A!GroupExists(call[c].group)
    BY DEF AccountsSafe, GroupsKept, HandlerKnows, A!At
  <2>3. \A c \in Calls, k \in Tenants : A!At(c, "delete") /\ A!Exists(k)' => company'[k].group # call[c].group
    <3>1. \A c \in Calls : A!At(c, "delete") => call[c].group \in Groups /\ call[c].group # Null
      BY TenancyAssumption DEF AccountsSafe, HandlerKnows, A!At, A!AccountsAssumption
    <3>2. A!Alone => \A c \in Calls : ~A!At(c, "delete")
      BY DEF A!Alone, A!At
    <3>3. QED
      BY <3>1, <3>2 DEF AccountsSafe, GroupsKept
  <2>4. QED
    BY <2>1, <2>2, <2>3 DEF GroupsKept, A!At, A!Exists, A!GroupExists
<1>8. QED
  BY <1>1, <1>2, <1>3, <1>4, <1>5, <1>6, <1>7 DEF AccountsSafe

LEMMA NothingIsNull ==
    ASSUME A!TypeOK
    PROVE  /\ \A x \in A!Company : x # Null
           /\ \A k \in Tenants : A!Exists(k) => company[k] \in A!Company
           /\ \A g \in Groups : A!GroupExists(g) <=> group[g] \in SUBSET People
           /\ \A owners \in SUBSET People : owners # Null /\ owners # Gone
  BY TenancyAssumption
  DEF A!AccountsAssumption, A!TypeOK, A!Exists, A!GroupExists, A!Group

LEMMA ConfirmStep == ASSUME AccountsSafe, NEW p \in People, A!Confirm(p) PROVE AccountsSafe'
<1>1. identity' \in [People -> A!Identity] /\ \A x \in People : x # p => identity'[x] = identity[x]
  BY DEF A!Confirm, AccountsSafe, A!TypeOK, A!Identity
<1>2. \A x \in People : /\ identity[x] = "confirmed" => identity'[x] = "confirmed"
                        /\ identity'[x] # "none" => identity[x] # "none"
  BY <1>1 DEF A!Confirm, AccountsSafe, A!TypeOK, A!Identity
<1>3. UNCHANGED <<user, company, group, call, overlap, dead, operated, astray>>
  BY DEF A!Confirm, A!Rows, A!Rest
<1>4. /\ user' \subseteq People /\ company' \in [Tenants -> A!Company \cup {Null}]
      /\ operated' \subseteq Tenants /\ astray' \subseteq Tenants /\ group' \in [Groups -> A!Group]
  BY <1>3 DEF AccountsSafe, A!TypeOK
<1>5. QED
  BY <1>1, <1>2, <1>3, <1>4, RowsOnly DEF A!Exists, A!GroupExists

\* A step that changes a company's status, or its group to none.
LEMMA CompanyOnly ==
    ASSUME AccountsSafe, NEW k \in Tenants, NEW x \in A!Company, company' = [company EXCEPT ![k] = x],
           A!Exists(k) => x.owner = company[k].owner,
           x.slug = 0 \/ (A!Exists(k) /\ x.slug = company[k].slug),
           \/ x.group = Null \/ (A!Exists(k) /\ x.group = company[k].group)
           \/ A!Alone /\ (k \in astray' \/ A!GroupExists(x.group)),
           \/ x.status = "pending" \/ identity[x.owner] = "confirmed" \/ x.slug = 0
           \/ (A!Exists(k) /\ x.status = company[k].status)
           \/ k \in operated',
           operated \subseteq operated', operated' \subseteq Tenants,
           astray \subseteq astray', astray' \subseteq Tenants,
           UNCHANGED <<identity, user, group, call, overlap, dead>>
    PROVE  AccountsSafe'
<1>1. /\ company' \in [Tenants -> A!Company \cup {Null}] /\ company'[k] = x
      /\ \A j \in Tenants : j # k => company'[j] = company[j]
      /\ identity' \in [People -> A!Identity] /\ user' \subseteq People /\ group' \in [Groups -> A!Group]
  BY DEF AccountsSafe, A!TypeOK
<1>2. x # Null
  BY NothingIsNull DEF AccountsSafe
<1>3. \A j \in Tenants : A!Exists(j) => A!Exists(j)' /\ company'[j].owner = company[j].owner
  BY <1>1, <1>2 DEF A!Exists
<1>4. ASSUME NEW j \in Tenants, A!Exists(j)'
      PROVE  /\ company'[j].slug = 0 \/ (A!Exists(j) /\ company'[j].slug = company[j].slug)
             /\ \/ company'[j].group = Null \/ (A!Exists(j) /\ company'[j].group = company[j].group)
                \/ A!Alone /\ (j \in astray' \/ A!GroupExists(company'[j].group))
             /\ \/ company'[j].status = "pending" \/ identity'[company'[j].owner] = "confirmed"
                \/ company'[j].slug = 0
                \/ (A!Exists(j) /\ company'[j].status = company[j].status)
                \/ j \in operated'
  BY <1>1, <1>4 DEF A!Exists
<1>5. \A p \in People : /\ identity[p] = "confirmed" => identity'[p] = "confirmed"
                        /\ identity'[p] # "none" => identity[p] # "none"
  OBVIOUS
<1>6. \A g \in Groups : A!GroupExists(g) => A!GroupExists(g)'
  BY DEF A!GroupExists
<1>7. QED
  BY <1>1, <1>3, <1>4, <1>5, <1>6, RowsOnly

LEMMA SignInStep == ASSUME AccountsSafe, NEW p \in People, A!SignIn(p) PROVE AccountsSafe'
<1>1. UNCHANGED <<identity, group, call, overlap, dead, operated, astray>>
  BY DEF A!SignIn, A!Rest
<1>2. user' \subseteq People /\ A!Alone /\ identity[p] = "confirmed"
  BY DEF A!SignIn, AccountsSafe, A!TypeOK
<1>3. ASSUME NEW k \in Tenants, A!Exists(k)
      PROVE  /\ A!Exists(k)' /\ company'[k] \in A!Company /\ company'[k].owner = company[k].owner
             /\ company'[k].slug = company[k].slug /\ company'[k].group = company[k].group
             /\ company'[k].status = company[k].status \/ identity[company'[k].owner] = "confirmed"
  <2>1. company[k] \in A!Company
    BY <1>3, NothingIsNull DEF AccountsSafe
  <2>2. CASE company[k].owner = p /\ company[k].status = "pending"
    <3>1. PICK x : x = [company[k] EXCEPT !.status = "active"]
      OBVIOUS
    <3>2. x \in A!Company /\ x.owner = p /\ x.slug = company[k].slug /\ x.group = company[k].group
      BY <2>1, <2>2, <3>1 DEF A!Company, A!CompanyStatus
    <3>3. company'[k] = x
      BY <1>3, <2>2, <3>1 DEF A!SignIn
    <3>4. QED
      BY <1>2, <2>2, <3>2, <3>3, NothingIsNull DEF A!Exists, AccountsSafe
  <2>3. CASE ~(company[k].owner = p /\ company[k].status = "pending")
    <3>1. company'[k] = company[k]
      BY <2>3 DEF A!SignIn
    <3>2. QED
      BY <1>3, <2>1, <3>1 DEF A!Exists
  <2>4. QED
    BY <2>2, <2>3
<1>4. ASSUME NEW k \in Tenants, ~A!Exists(k) PROVE company'[k] = Null
  BY <1>4 DEF A!SignIn, A!Exists
<1>5. company' \in [Tenants -> A!Company \cup {Null}]
  <2>1. company' = [k \in Tenants |-> company'[k]]
    BY DEF A!SignIn
  <2>2. QED
    BY <1>3, <1>4, <2>1
<1>6. ASSUME NEW k \in Tenants, A!Exists(k)'
      PROVE  /\ company'[k].slug = 0 \/ (A!Exists(k) /\ company'[k].slug = company[k].slug)
             /\ company'[k].group = Null \/ (A!Exists(k) /\ company'[k].group = company[k].group)
             /\ \/ company'[k].status = "pending" \/ identity'[company'[k].owner] = "confirmed"
                \/ (A!Exists(k) /\ company'[k].status = company[k].status)
                \/ k \in operated'
  <2>1. A!Exists(k)
    BY <1>4, <1>6 DEF A!Exists
  <2>2. QED
    BY <1>1, <1>3, <2>1
<1>7. /\ identity' \in [People -> A!Identity] /\ group' \in [Groups -> A!Group]
      /\ operated' \subseteq Tenants /\ astray' \subseteq Tenants
  BY <1>1 DEF AccountsSafe, A!TypeOK
<1>8. \A x \in People : /\ identity[x] = "confirmed" => identity'[x] = "confirmed"
                        /\ identity'[x] # "none" => identity[x] # "none"
  BY <1>1
<1>9. \A g \in Groups : A!GroupExists(g) => A!GroupExists(g)'
  BY <1>1 DEF A!GroupExists
<1>10. QED
  BY <1>1, <1>2, <1>3, <1>5, <1>6, <1>7, <1>8, <1>9, RowsOnly

LEMMA CreateWithOwnerStep ==
    ASSUME AccountsSafe, NEW p \in People, NEW k \in Tenants, NEW o \in People, NEW g \in Groups \cup {Null},
           A!CreateWithOwner(p, k, o, g)
    PROVE  AccountsSafe'
<1>1. PICK x : x = [status |-> "active", owner |-> o, slug |-> 0, group |-> g]
  OBVIOUS
<1>2. x \in A!Company
  BY <1>1, TenancyAssumption DEF A!Company, A!CompanyStatus, A!AccountsAssumption
<1>3. x.slug = 0 /\ x.group = g /\ ~A!Exists(k) /\ A!Alone
  BY <1>1 DEF A!CreateWithOwner, A!Fresh
<1>4. /\ company' = [company EXCEPT ![k] = x] /\ UNCHANGED <<identity, user, group, call, overlap, dead>>
      /\ operated \subseteq operated' /\ operated' \subseteq Tenants
  BY <1>1 DEF A!CreateWithOwner, AccountsSafe, A!TypeOK
<1>5. /\ astray \subseteq astray' /\ astray' \subseteq Tenants
      /\ g = Null \/ k \in astray' \/ A!GroupExists(g)
  BY DEF A!CreateWithOwner, AccountsSafe, A!TypeOK
<1>6. /\ x.slug = 0 \/ (A!Exists(k) /\ x.slug = company[k].slug)
      /\ \/ x.group = Null \/ (A!Exists(k) /\ x.group = company[k].group)
         \/ A!Alone /\ (k \in astray' \/ A!GroupExists(x.group))
      /\ \/ x.status = "pending" \/ identity[x.owner] = "confirmed" \/ x.slug = 0
         \/ (A!Exists(k) /\ x.status = company[k].status)
         \/ k \in operated'
      /\ (A!Exists(k) => x.owner = company[k].owner)
  BY <1>3, <1>5
<1>7. QED
  BY <1>2, <1>4, <1>5, <1>6, CompanyOnly, Zenon

LEMMA StatusStep ==
    ASSUME AccountsSafe, NEW k \in Tenants, NEW s \in A!CompanyStatus, A!Exists(k),
           company' = [company EXCEPT ![k].status = s],
           identity[company[k].owner] = "confirmed" \/ k \in operated',
           operated \subseteq operated', operated' \subseteq Tenants,
           UNCHANGED <<identity, user, group, call, overlap, dead, astray>>
    PROVE  AccountsSafe'
<1>1. company[k] \in A!Company
  BY NothingIsNull DEF AccountsSafe
<1>2. PICK x : x = [company[k] EXCEPT !.status = s]
  OBVIOUS
<1>3. /\ x \in A!Company /\ x.owner = company[k].owner /\ x.slug = company[k].slug
      /\ x.group = company[k].group
  BY <1>1, <1>2 DEF A!Company
<1>4. company' = [company EXCEPT ![k] = x] /\ astray' = astray /\ astray \subseteq Tenants
  BY <1>2 DEF AccountsSafe, A!TypeOK
<1>5. QED
  BY <1>3, <1>4, CompanyOnly

LEMMA DeactivateStep ==
    ASSUME AccountsSafe, NEW p \in People, NEW k \in Tenants, A!Deactivate(p, k) PROVE AccountsSafe'
<1>1. /\ A!Exists(k) /\ identity[company[k].owner] = "confirmed"
      /\ company' = [company EXCEPT ![k].status = "inactive"]
      /\ operated' = operated /\ operated \subseteq Tenants
      /\ UNCHANGED <<identity, user, group, call, overlap, dead, astray>>
  BY DEF A!Deactivate, A!SignedIn, A!Rest, AccountsSafe, A!TypeOK
<1>2. "inactive" \in A!CompanyStatus
  BY DEF A!CompanyStatus
<1>3. QED
  BY <1>1, <1>2, StatusStep

LEMMA OperatorStep ==
    ASSUME AccountsSafe, NEW k \in Tenants, NEW s \in Operated, A!OperatorSets(k, s) PROVE AccountsSafe'
<1>1. /\ A!Exists(k) /\ company' = [company EXCEPT ![k].status = s]
      /\ operated \subseteq operated' /\ operated' \subseteq Tenants /\ k \in operated'
      /\ UNCHANGED <<identity, user, group, call, overlap, dead, astray>>
  BY DEF A!OperatorSets, AccountsSafe, A!TypeOK
<1>2. s \in A!CompanyStatus
  BY TenancyAssumption DEF A!AccountsAssumption
<1>3. QED
  BY <1>1, <1>2, StatusStep

LEMMA OwnersStep ==
    ASSUME AccountsSafe, NEW g \in Groups, NEW owners \in SUBSET People,
           group' = [group EXCEPT ![g] = owners],
           UNCHANGED <<identity, user, company, call, overlap, dead, operated, astray>>
    PROVE  AccountsSafe'
<1>1. group' \in [Groups -> A!Group] /\ \A h \in Groups : A!GroupExists(h) => A!GroupExists(h)'
  BY NothingIsNull DEF AccountsSafe, A!TypeOK, A!Group, A!GroupExists
<1>2. /\ identity' \in [People -> A!Identity] /\ user' \subseteq People
      /\ company' \in [Tenants -> A!Company \cup {Null}]
      /\ operated' \subseteq Tenants /\ astray' \subseteq Tenants
  BY DEF AccountsSafe, A!TypeOK
<1>3. QED
  BY <1>1, <1>2, RowsOnly DEF A!Exists

LEMMA DetachStep ==
    ASSUME AccountsSafe, NEW p \in People, NEW g \in Groups, NEW k \in Tenants, A!Detach(p, g, k)
    PROVE  AccountsSafe'
<1>1. /\ A!Exists(k) /\ company' = [company EXCEPT ![k].group = Null]
      /\ operated \subseteq operated' /\ operated' \subseteq Tenants
      /\ astray \subseteq astray' /\ astray' \subseteq Tenants
      /\ UNCHANGED <<identity, user, group, call, overlap, dead>>
  BY DEF A!Detach, A!Rest, AccountsSafe, A!TypeOK
<1>2. company[k] \in A!Company
  BY <1>1, NothingIsNull DEF AccountsSafe
<1>3. PICK x : x = [company[k] EXCEPT !.group = Null]
  OBVIOUS
<1>4. /\ x \in A!Company /\ x.owner = company[k].owner /\ x.slug = company[k].slug
      /\ x.group = Null /\ x.status = company[k].status
  BY <1>2, <1>3 DEF A!Company
<1>5. company' = [company EXCEPT ![k] = x]
  BY <1>1, <1>3
<1>6. /\ x.slug = 0 \/ (A!Exists(k) /\ x.slug = company[k].slug)
      /\ \/ x.group = Null \/ (A!Exists(k) /\ x.group = company[k].group)
         \/ A!Alone /\ (k \in astray' \/ A!GroupExists(x.group))
      /\ \/ x.status = "pending" \/ identity[x.owner] = "confirmed" \/ x.slug = 0
         \/ (A!Exists(k) /\ x.status = company[k].status)
         \/ k \in operated'
      /\ (A!Exists(k) => x.owner = company[k].owner)
  BY <1>1, <1>4
<1>7. QED
  BY <1>1, <1>4, <1>5, <1>6, CompanyOnly, Zenon

LEMMA ProvisionStep ==
    ASSUME AccountsSafe, NEW c \in Calls, NEW k \in Tenants, A!Provision(c, k) PROVE AccountsSafe'
<1> DEFINE p == call[c].person
<1>1. /\ call[c] \in A!CallState /\ p \in People /\ call[c].pc = "provision" /\ ~A!At(c, "idle")
      /\ ~A!Exists(k) /\ A!Return(c) /\ UNCHANGED <<identity, group, overlap, dead, operated, astray>>
  BY DEF AccountsSafe, A!TypeOK, A!Provision, A!At, HandlerKnows, A!Fresh, A!Rest
<1>2. CASE p \notin user /\ call[c].slug \notin A!Slugs
  <2>1. PICK x : x = [status |-> "pending", owner |-> p, slug |-> call[c].slug, group |-> Null]
    OBVIOUS
  <2>2. x \in A!Company /\ x # Null
    <3>1. x \in A!Company
      BY <1>1, <2>1 DEF A!Company, A!CompanyStatus, A!CallState
    <3>2. QED
      BY <3>1, NothingIsNull DEF AccountsSafe
  <2>3. user' = user \cup {p} /\ company' = [company EXCEPT ![k] = x]
    BY <1>2, <2>1 DEF A!Provision, A!FirstStatus
  <2>4. /\ company' \in [Tenants -> A!Company \cup {Null}] /\ company'[k] = x
        /\ \A j \in Tenants : j # k => company'[j] = company[j]
    BY <2>2, <2>3 DEF AccountsSafe, A!TypeOK
  <2>5. /\ call' \in [Calls -> A!CallState] /\ call'[c] = A!Idle
        /\ \A d \in Calls : d # c => call'[d] = call[d]
        /\ ~overlap => OneAtWork' /\ \A d \in Calls : d # c => A!At(d, "idle")
    BY <1>1, IdleHandler, HandlerMoves DEF A!Return
  <2>6. A!TypeOK'
    BY <1>1, <2>3, <2>4, <2>5 DEF AccountsSafe, A!TypeOK
  <2>7. ASSUME NEW d \in Calls PROVE HandlerKnows(call[d])'
    <3>1. CASE d = c
      BY <2>5, <3>1 DEF HandlerKnows, A!Idle
    <3>2. CASE d # c
      BY <1>1, <2>4, <2>5, <3>2 DEF AccountsSafe, HandlerKnows, A!Exists
    <3>3. QED
      BY <3>1, <3>2
  <2>8. A!PendingUntilConfirmed'
    BY <1>1, <2>1, <2>4 DEF AccountsSafe, A!PendingUntilConfirmed, A!Exists
  <2>9. ~overlap => \A d \in Calls : call'[d].pc = "idle"
    BY <2>5 DEF A!Idle, A!At
  <2>10. ~overlap => StillFree' /\ GroupsKept'
    <3>1. ~overlap => StillFree'
      BY <2>9 DEF StillFree, Registering, A!At
    <3>2. ~overlap => GroupsKept'
      BY <1>1, <2>1, <2>4, <2>9 DEF AccountsSafe, GroupsKept, A!At, A!Exists, A!GroupExists
    <3>3. QED
      BY <3>1, <3>2
  <2>11. ASSUME ~overlap, NEW y \in People \ dead, identity[y] # "none" PROVE OwnsOne(y)'
    <3>1. CASE y = p
      BY <2>1, <2>2, <2>4, <3>1 DEF OwnsOne, A!Exists
    <3>2. CASE y # p
      <4>1. OwnsOne(y) \/ OnTheWay(y)
        BY <2>11 DEF AccountsSafe, NobodyForgotten
      <4>2. ~OnTheWay(y)
        BY <1>1, <2>5, <2>11, <3>2 DEF OnTheWay, A!At
      <4>3. QED
        BY <1>1, <2>4, <4>1, <4>2 DEF OwnsOne, A!Exists
    <3>3. QED
      BY <3>1, <3>2
  <2>12. ~overlap => NobodyForgotten'
    BY <1>1, <2>11 DEF NobodyForgotten
  <2>13. QED
    BY <1>1, <2>5, <2>6, <2>7, <2>8, <2>10, <2>12 DEF AccountsSafe
<1>3. CASE ~(p \notin user /\ call[c].slug \notin A!Slugs)
  <2>1. UNCHANGED <<user, company>>
    BY <1>3 DEF A!Provision
  <2>2. overlap
    BY <1>1, <1>3 DEF AccountsSafe, StillFree, Registering, A!At
  <2>3. dead \subseteq dead' /\ dead' \subseteq People
    BY <1>1 DEF AccountsSafe, A!TypeOK
  <2>4. QED
    BY <1>1, <2>1, <2>2, <2>3, ReturnKeeps
<1>4. QED
  BY <1>2, <1>3

LEMMA MayAttachStep ==
    ASSUME AccountsSafe, NEW c \in Calls, NEW p \in People, NEW g \in Groups, NEW k \in Tenants,
           A!MayAttach(c, p, g, k)
    PROVE  AccountsSafe'
<1>1. PICK q : q = [A!Idle EXCEPT !.pc = "attach", !.group = g, !.company = k]
  OBVIOUS
<1>2. q \in A!CallState /\ q.pc = "attach" /\ q.group = g /\ q.company = k
  BY <1>1, IdleHandler DEF A!CallState, A!Idle
<1>3. call' = [call EXCEPT ![c] = q] /\ call[c].pc = "idle"
  BY <1>1 DEF A!MayAttach, A!At
<1>4. HandlerKnows(q) /\ A!GroupExists(q.group)
  BY <1>2 DEF HandlerKnows, A!MayAttach, A!Owns
<1>5. A!Alone /\ UNCHANGED <<identity, user, company, group, overlap, operated, astray>>
  BY DEF A!MayAttach, A!Rows, A!Rest
<1>6. dead' = dead /\ dead \subseteq People
  BY DEF A!MayAttach, A!Rest, AccountsSafe, A!TypeOK
<1>7. QED
  BY <1>2, <1>3, <1>4, <1>5, <1>6, HandlerOnly

\* A handler that ends with a step that changes companies or groups; what it says of
\* the companies is for the case that it was alone.
LEMMA LastStep ==
    ASSUME AccountsSafe, NEW c \in Calls, NEW q \in A!CallState, call' = [call EXCEPT ![c] = q],
           q.pc \in {"idle", "delete"}, q.pc = "delete" => q.group \in Groups,
           call[c].pc \in {"attach", "delete", "idle"}, A!At(c, "idle") => A!Alone,
           UNCHANGED <<identity, user, overlap, dead, operated>>, astray' \subseteq Tenants,
           company' \in [Tenants -> A!Company \cup {Null}],
           \A k \in Tenants : A!Exists(k) <=> A!Exists(k)',
           \A k \in Tenants : A!Exists(k) =>
              /\ company'[k].owner = company[k].owner
              /\ company'[k].status = company[k].status
              /\ company'[k].slug = company[k].slug,
           group' \in [Groups -> A!Group],
           ~overlap => /\ \A k \in Tenants : A!Exists(k) /\ company'[k].group # Null =>
                             /\ k \notin astray' => group'[company'[k].group] \notin {Null, Gone}
                             /\ q.pc = "delete" => company'[k].group # q.group
                       /\ q.pc = "delete" => q.group # Null
    PROVE  AccountsSafe'
<1>1. /\ call' \in [Calls -> A!CallState] /\ call'[c] = q
      /\ \A d \in Calls : d # c => call'[d] = call[d]
      /\ ~overlap => OneAtWork' /\ \A d \in Calls : d # c => A!At(d, "idle")
  BY HandlerMoves
<1>2. A!TypeOK'
  BY <1>1 DEF AccountsSafe, A!TypeOK
<1>3. ASSUME NEW d \in Calls PROVE HandlerKnows(call[d])'
  BY <1>1 DEF AccountsSafe, HandlerKnows
<1>4. A!PendingUntilConfirmed'
  BY DEF AccountsSafe, A!PendingUntilConfirmed
<1>5. ~overlap => \A d \in Calls : d = c \/ call'[d].pc = "idle"
  BY <1>1 DEF A!At
<1>6. ~overlap => StillFree'
  BY <1>1, <1>5 DEF StillFree, Registering, A!At
<1>7. ~overlap => NobodyForgotten'
  <2> SUFFICES ASSUME ~overlap, NEW y \in People \ dead, identity[y] # "none" PROVE OwnsOne(y)'
    BY DEF NobodyForgotten
  <2>1. ~OnTheWay(y)
    BY <1>1 DEF OnTheWay, A!At
  <2>2. OwnsOne(y)
    BY <2>1 DEF AccountsSafe, NobodyForgotten
  <2>3. QED
    BY <2>2 DEF OwnsOne
<1>8. ~overlap => GroupsKept'
  <2> SUFFICES ASSUME ~overlap PROVE GroupsKept'
    OBVIOUS
  <2>1. \A k \in Tenants \ astray' : A!Exists(k)' /\ company'[k].group # Null => group'[company'[k].group] \notin {Null, Gone}
    OBVIOUS
  <2>2. \A d \in Calls : call'[d].pc # "attach"
    BY <1>1, <1>5
  <2>3. \A d \in Calls, k \in Tenants : call'[d].pc = "delete" /\ A!Exists(k)' => company'[k].group # call'[d].group
    BY <1>1, <1>5
  <2>4. QED
    BY <2>1, <2>2, <2>3 DEF GroupsKept, A!At, A!Exists, A!GroupExists
<1>9. QED
  BY <1>1, <1>2, <1>3, <1>4, <1>6, <1>7, <1>8 DEF AccountsSafe

LEMMA AttachStep == ASSUME AccountsSafe, NEW c \in Calls, A!Attach(c) PROVE AccountsSafe'
<1> DEFINE k == call[c].company
           g == call[c].group
<1>1. k \in Tenants /\ g \in Groups /\ A!Exists(k) /\ call[c].pc = "attach"
  BY DEF A!Attach, A!At, AccountsSafe, HandlerKnows
<1>2. company[k] \in A!Company
  BY <1>1, NothingIsNull DEF AccountsSafe
<1>3. PICK x : x = [company[k] EXCEPT !.group = g]
  OBVIOUS
<1>4. /\ x \in A!Company /\ x.owner = company[k].owner /\ x.group = g /\ x.status = company[k].status
      /\ x.slug = company[k].slug /\ x # Null
  <2>1. /\ x \in A!Company /\ x.owner = company[k].owner /\ x.group = g /\ x.status = company[k].status
        /\ x.slug = company[k].slug
    BY <1>1, <1>2, <1>3 DEF A!Company
  <2>2. QED
    BY <2>1, NothingIsNull DEF AccountsSafe
<1>5. /\ company' = [company EXCEPT ![k] = x]
      /\ UNCHANGED <<identity, user, group, overlap, dead, operated>>
      /\ call' = [call EXCEPT ![c] = A!Idle] /\ astray' = astray \ {k} /\ astray' \subseteq Tenants
  BY <1>3 DEF A!Attach, A!Return, AccountsSafe, A!TypeOK
<1>6. /\ company' \in [Tenants -> A!Company \cup {Null}] /\ company'[k] = x
      /\ \A j \in Tenants : j # k => company'[j] = company[j]
      /\ group' \in [Groups -> A!Group]
  <2>1. company \in [Tenants -> A!Company \cup {Null}] /\ group \in [Groups -> A!Group]
    BY DEF AccountsSafe, A!TypeOK
  <2>2. QED
    BY <1>1, <1>4, <1>5, <2>1
<1>7. \A j \in Tenants : A!Exists(j) <=> A!Exists(j)'
  BY <1>1, <1>4, <1>6 DEF A!Exists
<1>8. \A j \in Tenants : A!Exists(j) => /\ company'[j].owner = company[j].owner
                                       /\ company'[j].status = company[j].status
                                       /\ company'[j].slug = company[j].slug
  BY <1>4, <1>6
<1>9. ASSUME ~overlap, NEW j \in Tenants \ astray', A!Exists(j), company'[j].group # Null
      PROVE  group'[company'[j].group] \notin {Null, Gone}
  <2>1. A!GroupExists(company'[j].group)
    BY <1>1, <1>4, <1>5, <1>6, <1>9 DEF AccountsSafe, GroupsKept, A!At
  <2>2. QED
    BY <1>5, <2>1 DEF A!GroupExists
<1>10. PICK q : q = A!Idle
  OBVIOUS
<1>11. q \in A!CallState /\ q.pc = "idle" /\ call' = [call EXCEPT ![c] = q] /\ ~A!At(c, "idle")
  BY <1>1, <1>5, <1>10, IdleHandler DEF A!Idle, A!At
<1>12. QED
  BY <1>1, <1>5, <1>6, <1>7, <1>8, <1>9, <1>11, LastStep

LEMMA EmptyGroupStep ==
    ASSUME AccountsSafe, NEW c \in Calls, NEW p \in People, NEW g \in Groups, A!EmptyGroup(c, p, g)
    PROVE  AccountsSafe'
<1>1. PICK q : q = [A!Idle EXCEPT !.pc = "delete", !.group = g]
  OBVIOUS
<1>2. q \in A!CallState /\ q.pc = "delete" /\ q.group = g
  BY <1>1, IdleHandler DEF A!CallState, A!Idle
<1>3. /\ call' = [call EXCEPT ![c] = q] /\ call[c].pc = "idle" /\ A!Alone
      /\ UNCHANGED <<identity, user, group, overlap, dead, operated, astray>>
      /\ company' = A!Emptied(g)
  BY <1>1 DEF A!EmptyGroup, A!At, A!Rest
<1>4. ASSUME NEW k \in Tenants, A!Exists(k)
      PROVE  /\ A!Exists(k)' /\ company'[k] \in A!Company /\ company'[k].owner = company[k].owner
             /\ company'[k].status = company[k].status /\ company'[k].slug = company[k].slug
             /\ company'[k].group = IF company[k].group = g THEN Null ELSE company[k].group
  <2>1. company[k] \in A!Company
    BY <1>4, NothingIsNull DEF AccountsSafe
  <2>2. CASE company[k].group = g
    <3>1. PICK x : x = [company[k] EXCEPT !.group = Null]
      OBVIOUS
    <3>2. /\ x \in A!Company /\ x.owner = company[k].owner /\ x.status = company[k].status
          /\ x.group = Null /\ x.slug = company[k].slug
      BY <2>1, <3>1 DEF A!Company
    <3>3. company'[k] = x
      BY <1>3, <1>4, <2>2, <3>1 DEF A!Emptied
    <3>4. QED
      BY <2>2, <3>2, <3>3, NothingIsNull DEF A!Exists, AccountsSafe
  <2>3. CASE company[k].group # g
    <3>1. company'[k] = company[k]
      BY <1>3, <2>3 DEF A!Emptied
    <3>2. QED
      BY <1>4, <2>1, <2>3, <3>1 DEF A!Exists
  <2>4. QED
    BY <2>2, <2>3
<1>5. ASSUME NEW k \in Tenants, ~A!Exists(k) PROVE company'[k] = Null
  BY <1>3, <1>5 DEF A!Emptied, A!Exists
<1>6. company' \in [Tenants -> A!Company \cup {Null}]
  <2>1. company' = [k \in Tenants |-> company'[k]]
    BY <1>3 DEF A!Emptied
  <2>2. QED
    BY <1>4, <1>5, <2>1
<1>7. \A k \in Tenants : A!Exists(k) <=> A!Exists(k)'
  BY <1>4, <1>5 DEF A!Exists
<1>8. \A k \in Tenants : A!Exists(k) => /\ company'[k].owner = company[k].owner
                                       /\ company'[k].status = company[k].status
                                       /\ company'[k].slug = company[k].slug
  BY <1>4
<1>9. g # Null /\ group' \in [Groups -> A!Group] /\ astray' \subseteq Tenants
  BY <1>3, TenancyAssumption DEF A!AccountsAssumption, AccountsSafe, A!TypeOK
<1>10. ASSUME ~overlap, NEW j \in Tenants, A!Exists(j), company'[j].group # Null
       PROVE  /\ j \notin astray' => group'[company'[j].group] \notin {Null, Gone}
              /\ company'[j].group # g
  <2>1. /\ j \notin astray => A!GroupExists(company[j].group)
        /\ company'[j].group = company[j].group /\ company[j].group # g
    BY <1>4, <1>9, <1>10 DEF AccountsSafe, GroupsKept
  <2>2. QED
    BY <1>3, <2>1 DEF A!GroupExists
<1>11. QED
  BY <1>2, <1>3, <1>6, <1>7, <1>8, <1>9, <1>10, LastStep

LEMMA DeleteGroupStep == ASSUME AccountsSafe, NEW c \in Calls, A!DeleteGroup(c) PROVE AccountsSafe'
<1> DEFINE g == call[c].group
<1>1. g \in Groups /\ call[c].pc = "delete"
  BY DEF A!DeleteGroup, A!At, AccountsSafe, HandlerKnows
<1>2. PICK q : q = A!Idle
  OBVIOUS
<1>3. q \in A!CallState /\ q.pc = "idle" /\ call' = [call EXCEPT ![c] = q] /\ ~A!At(c, "idle")
  BY <1>1, <1>2, IdleHandler DEF A!Idle, A!At, A!DeleteGroup, A!Return
<1>4. UNCHANGED <<identity, user, company, overlap, dead, operated, astray>> /\ group' = [group EXCEPT ![g] = Gone]
  BY DEF A!DeleteGroup, A!Rest
<1>5. /\ group' \in [Groups -> A!Group] /\ company' \in [Tenants -> A!Company \cup {Null}]
      /\ astray' \subseteq Tenants
  BY <1>4 DEF AccountsSafe, A!TypeOK, A!Group
<1>6. \A j \in Tenants : /\ A!Exists(j) <=> A!Exists(j)'
                         /\ company'[j].owner = company[j].owner
                         /\ company'[j].status = company[j].status
                         /\ company'[j].slug = company[j].slug
  BY <1>4 DEF A!Exists
<1>7. ASSUME ~overlap, NEW j \in Tenants \ astray', A!Exists(j), company'[j].group # Null
      PROVE  group'[company'[j].group] \notin {Null, Gone}
  <2>1. company[j].group \in Groups /\ A!GroupExists(company[j].group) /\ company[j].group # g
    BY <1>1, <1>4, <1>7, NothingIsNull DEF AccountsSafe, GroupsKept, A!At, A!Company
  <2>2. group'[company[j].group] = group[company[j].group]
    BY <1>4, <2>1 DEF AccountsSafe, A!TypeOK
  <2>3. QED
    BY <1>4, <2>1, <2>2 DEF A!GroupExists
<1>8. QED
  BY <1>1, <1>3, <1>4, <1>5, <1>6, <1>7, LastStep

LEMMA HandlerDies == ASSUME AccountsSafe, NEW c \in Calls, A!Crash(c) PROVE AccountsSafe'
<1>1. /\ A!Return(c) /\ ~A!At(c, "idle") /\ UNCHANGED <<identity, user, company, group, overlap, operated, astray>>
      /\ dead' = dead \cup ({call[c].person} \ {Null})
  BY DEF A!Crash, A!Rows
<1>2. call[c].person \in People \cup {Null}
  BY DEF AccountsSafe, A!TypeOK, A!CallState
<1>3. dead \subseteq dead' /\ dead' \subseteq People
  BY <1>1, <1>2 DEF AccountsSafe, A!TypeOK
<1>4. \A p \in People \ dead' : call[c].person # p
  BY <1>1, TenancyAssumption DEF A!AccountsAssumption
<1>5. QED
  BY <1>1, <1>3, <1>4, ReturnKeeps

LEMMA AccountsStep == AccountsSafe /\ [A!Next]_A!vars => AccountsSafe'
<1> SUFFICES ASSUME AccountsSafe, [A!Next]_A!vars PROVE AccountsSafe'
  OBVIOUS
<1>1. ASSUME NEW c \in Calls, \E p \in People : A!Register(c, p) PROVE AccountsSafe'
  BY <1>1, RegisterStep
<1>2. ASSUME NEW c \in Calls, \E k \in Tenants : A!Provision(c, k) PROVE AccountsSafe'
  BY <1>2, ProvisionStep
<1>3. ASSUME NEW c \in Calls, NEW p \in People, NEW g \in Groups,
             \/ A!EmptyGroup(c, p, g)
             \/ \E k \in Tenants : A!MayAttach(c, p, g, k)
      PROVE  AccountsSafe'
  BY <1>3, EmptyGroupStep, MayAttachStep
<1>4. ASSUME NEW c \in Calls, A!SignUp(c) \/ A!UniqueSlug(c) \/ A!Attach(c) \/ A!DeleteGroup(c) \/ A!Crash(c)
      PROVE  AccountsSafe'
  BY <1>4, SignUpStep, UniqueSlugStep, AttachStep, DeleteGroupStep, HandlerDies
<1>5. ASSUME NEW p \in People, A!Confirm(p) \/ A!SignIn(p) PROVE AccountsSafe'
  BY <1>5, ConfirmStep, SignInStep
<1>6. ASSUME NEW p \in People, NEW k \in Tenants,
             \/ A!Deactivate(p, k)
             \/ \E o \in People, g \in Groups \cup {Null} : A!CreateWithOwner(p, k, o, g)
      PROVE  AccountsSafe'
  BY <1>6, CreateWithOwnerStep, DeactivateStep
<1>7. ASSUME NEW p \in People, NEW g \in Groups, A!CreateGroup(p, g) PROVE AccountsSafe'
  <2>1. /\ group' = [group EXCEPT ![g] = {p}] /\ {p} \in SUBSET People
        /\ UNCHANGED <<identity, user, company, call, overlap, dead, operated, astray>>
    BY <1>7 DEF A!CreateGroup, A!Rest
  <2>2. QED
    BY <2>1, OwnersStep
<1>8. ASSUME NEW p \in People, NEW g \in Groups,
             NEW owners \in (SUBSET People) \ {{}}, A!UpdateOwners(p, g, owners)
      PROVE  AccountsSafe'
  <2>1. /\ group' = [group EXCEPT ![g] = owners] /\ owners \in SUBSET People
        /\ UNCHANGED <<identity, user, company, call, overlap, dead, operated, astray>>
    BY <1>8 DEF A!UpdateOwners, A!Rest
  <2>2. QED
    BY <2>1, OwnersStep
<1>9. ASSUME NEW p \in People, NEW g \in Groups, NEW k \in Tenants, A!Detach(p, g, k) PROVE AccountsSafe'
  BY <1>9, DetachStep
<1>10. ASSUME NEW k \in Tenants, NEW s \in Operated, A!OperatorSets(k, s) PROVE AccountsSafe'
  BY <1>10, OperatorStep
<1>11. CASE UNCHANGED A!vars
  <2>1. UNCHANGED <<identity, user, company, group, call, overlap, dead, operated, astray>>
    BY <1>11 DEF A!vars
  <2>2. /\ identity' \in [People -> A!Identity] /\ user' \subseteq People
        /\ company' \in [Tenants -> A!Company \cup {Null}] /\ operated' \subseteq Tenants
        /\ group' \in [Groups -> A!Group] /\ astray' \subseteq Tenants
    BY <2>1 DEF AccountsSafe, A!TypeOK
  <2>3. QED
    BY <2>1, <2>2, RowsOnly DEF A!Exists, A!GroupExists
<1>12. QED
  BY <1>1, <1>2, <1>3, <1>4, <1>5, <1>6, <1>7, <1>8, <1>9, <1>10, <1>11 DEF A!Next

-----------------------------------------------------------------------------
\* Of the two, each keeps what it relies on while the other stands still.
TenancySafe == Safe /\ scene \in {"guards", "accounts"} /\ (scene = "accounts" => AccountsSafe)

LEMMA TenancyAlways == TenancySpec => []TenancySafe
<1>1. TenancyInit => TenancySafe
  BY SafeInit, AccountsInit DEF TenancyInit, NoGuards, TenancySafe
<1>2. TenancySafe /\ [TenancyNext]_<<vars, scene, accounts>> => TenancySafe'
  <2> SUFFICES ASSUME TenancySafe, [TenancyNext]_<<vars, scene, accounts>> PROVE TenancySafe'
    OBVIOUS
  <2>1. [Next]_vars /\ UNCHANGED scene
    BY DEF TenancyNext
  <2>2. scene = "accounts" => [A!Next]_A!vars
    BY DEF TenancyNext, accounts, A!vars
  <2>3. QED
    BY <2>1, <2>2, StepSafe, AccountsStep DEF TenancySafe
<1>3. QED
  BY <1>1, <1>2, PTL DEF TenancySpec

\* The state of requests, of companies and of what guards have read, and that of
\* registrations and groups, has its types throughout (the guards of the controllers'
\* routes; RegistrationService, AuthService, CompaniesService and GroupsService).
THEOREM TypeCorrect ==
    /\ Spec => []TypeOK
    /\ A!Spec => []A!TypeOK
    /\ TenancySpec => []Types
<1>1. /\ Safe => TypeOK
      /\ AccountsSafe => A!TypeOK
  BY DEF Safe, AccountsSafe
<1>2. TenancySafe => Types
  BY <1>1 DEF TenancySafe, Types
<1>3. A!Spec => []AccountsSafe
  BY AccountsInit, AccountsStep, PTL DEF A!Spec
<1>4. QED
  BY <1>1, <1>2, <1>3, SafeAlways, TenancyAlways, PTL

\* However handlers overlap, a registered company that works has an owner whose e-mail was
\* confirmed, but for operators; where they do not, who has signed up has a company unless
\* the call died, and no company is in a group that is gone, but for one whose creator named
\* a group that was not there (RegistrationService.register, AuthService.findOrProvisionUser,
\* CompaniesService.createWithOwner, GroupsService.remove).
THEOREM TenantsCorrect ==
    /\ A!Spec => [](A!PendingUntilConfirmed /\ A!NobodyStranded /\ A!GroupsAreThere)
    /\ TenancySpec => []TenantsStand
<1>1. ASSUME AccountsSafe PROVE A!NobodyStranded
  <2> SUFFICES ASSUME ~overlap, NEW p \in People \ dead, identity[p] # "none",
                      \A c \in Calls : call[c].person # p
               PROVE  \E k \in Tenants : A!Exists(k) /\ company[k].owner = p
    BY DEF A!NobodyStranded
  <2>1. OwnsOne(p) \/ OnTheWay(p)
    BY <1>1 DEF AccountsSafe, NobodyForgotten
  <2>2. QED
    BY <2>1 DEF OwnsOne, OnTheWay
<1>2. AccountsSafe => A!PendingUntilConfirmed /\ A!NobodyStranded /\ A!GroupsAreThere
  BY <1>1 DEF AccountsSafe, GroupsKept, A!GroupsAreThere
<1>3. A!Spec => []AccountsSafe
  BY AccountsInit, AccountsStep, PTL DEF A!Spec
<1>4. TenancySafe => TenantsStand
  BY <1>2 DEF TenancySafe, TenantsStand
<1>5. QED
  BY <1>2, <1>3, <1>4, TenancyAlways, PTL
=============================================================================
