------------------------------- MODULE Access -------------------------------
(***************************************************************************)
(* What a request passes before its handler runs: SupabaseAuthGuard,       *)
(* TenantGuard, PermissionGuard, RolesGuard, PlanGuard and PlatformGuard,  *)
(* as the controllers put them on their routes.  A request is made by one  *)
(* person, who may belong to several companies; each guard reads what it   *)
(* needs in a transaction of its own, while memberships, permissions,      *)
(* plans and overrides change.                                             *)
(***************************************************************************)
EXTENDS Entitlements, FiniteSets

CONSTANTS
    Companies,
    None,
    Asked,           \* the routes' needs that are tried
    Hired,           \* the memberships the person has at first
    Roles,           \* the roles that are given to the person, and touched in the matrix,
    Subs,            \* the subscriptions that companies come to have,
    Touched,         \* the features that operators override, and
    Statuses,        \* the statuses that they set: bounds on what changes
    MaxChanges       \* bound on the changes that anybody makes

Role == {"owner", "hr", "area_manager", "store_manager", "employee"}
Managers == Role \ {"employee"}
Admins == {"owner", "hr"}
Approvers == Managers \ {"store_manager"}

-----------------------------------------------------------------------------
(* The routes.  What one needs: who may call it at all ("public", "signed" *)
(* in, as a member of a "tenant", as a "platform" operator), the module     *)
(* that the permission matrix must allow, the roles, the feature.  Handlers *)
(* that a controller does not restrict any further are left to its first    *)
(* line.                                                                    *)

Needs(kind, module, roles, feature) ==
    [kind |-> kind, module |-> module, roles |-> roles, feature |-> feature]
Route(handlers, needs) == [h \in handlers |-> needs]
Tenant(module, roles, feature) == Needs("tenant", module, roles, feature)
Signed == Needs("signed", None, Role, None)
Public == Needs("public", None, Role, None)
Operator == Needs("platform", None, Role, None)

AttendanceRoutes ==
    Route({"logs", "log", "clockIn", "clockOut", "breakStart", "breakEnd", "sync", "anomalies",
           "corrections", "requestCorrection"}, Tenant("attendance", Role, None))
    ++ Route({"deleteLog", "resolveAnomaly", "approveCorrection", "rejectCorrection"},
             Tenant("attendance", Managers, None))
    ++ Route({"export"}, Tenant("attendance", Role, "attendance.advanced"))

TerminalRoutes ==
    Route({"list", "qr"}, Tenant("attendance", Role, None))
    ++ Route({"create", "authorize", "block"}, Tenant("attendance", Managers, None))
    ++ Route({"deactivate", "reactivate", "remove"}, Tenant("attendance", {"owner"}, None))

DeviceRoutes ==
    Route({"list"}, Tenant("attendance", Role, None))
    ++ Route({"register", "reset", "block"}, Tenant("attendance", Managers, None))

DeviceRegistrationRoutes ==
    Route({"myStatus", "registerMine"}, Tenant(None, Role, None))
    ++ Route({"list", "history", "adminRegister", "revoke", "disable", "enable"},
             Tenant(None, Managers, None))

LeaveRoutes ==
    Route({"listRequests", "createRequest", "conflicts", "cancel", "balances", "types",
           "holidays", "blackouts"}, Tenant("leave", Role, None))
    ++ Route({"approve", "reject"}, Tenant("leave", Managers, None))
    ++ Route({"setBalance", "createType", "updateType", "createHoliday", "deleteHoliday"},
             Tenant("leave", Admins, None))
    ++ Route({"createBlackout"}, Tenant("leave", Admins, "leave.advanced"))

DocumentRoutes ==
    Route({"listFolders", "createFolder", "updateFolder", "deleteFolder", "listTrash", "restore",
           "purge", "list", "requestUpload", "create", "url", "update", "softDelete", "sign",
           "expiryScan"}, Tenant("documents", Role, None))
    ++ Route({"bulk", "requestSignatures"}, Tenant("documents", Role, "documents"))

SchedulingRoutes ==
    Route({"list", "get", "templates", "coverage"}, Tenant("shifts", Role, None))
    ++ Route({"create", "update", "assign", "cancel", "createTemplate", "applyTemplate",
              "copyWeek", "setCoverageTargets"}, Tenant("shifts", Managers, None))
    ++ Route({"approve", "remove", "publish"}, Tenant("shifts", Approvers, None))
    ++ Route({"suggestions"}, Tenant("shifts", Role, "scheduling.suggestions"))

TransferApproval == Approvers

TransferRoutes ==
    Route({"list", "get"}, Tenant("employees", Role, None))
    ++ Route({"create", "cancel"}, Tenant("employees", Managers, None))
    ++ Route({"approve", "reject"}, Tenant("employees", TransferApproval, None))

EmployeeRoutes ==
    Route({"list", "supervisors", "get", "listStores"}, Tenant("employees", Role, None))
    ++ Route({"create", "update", "addStore", "removeStore"}, Tenant("employees", Managers, None))
    ++ Route({"activationRequests", "approveActivation", "rejectActivation", "archive", "remove",
              "invite"}, Tenant("employees", Admins, None))
    ++ Route({"export", "import"}, Tenant("employees", Admins, "employee.advanced"))

EmployeeRecordRoutes ==
    Route({"preferences"}, Tenant("employees", Role, None))
    ++ Route({"setPreferences"}, Tenant("employees", Managers, None))
    ++ Route({"bankAccounts", "addBankAccount", "removeBankAccount", "contracts", "addContract",
              "extendContract", "cancelContract", "deleteContract"}, Tenant("employees", Admins, None))
    ++ Route({"qualifications", "medicals"}, Tenant("employees", Role, "employee.advanced"))
    ++ Route({"addQualification"}, Tenant("employees", Managers, "employee.advanced"))
    ++ Route({"addMedical"}, Tenant("employees", Admins, "employee.advanced"))

OnboardingRoutes ==
    Route({"overview", "assignments", "groups"}, Tenant("onboarding", Role, None))
    ++ Route({"assign", "setAssignment"}, Tenant("onboarding", Managers, None))
    ++ Route({"createGroup", "updateGroup", "deleteGroup", "createTask", "reorder", "updateTask",
              "deleteTask"}, Tenant("onboarding", Admins, None))

StoreRoutes ==
    Route({"list", "get", "getHours", "activities"}, Tenant("stores", Role, None))
    ++ Route({"create", "update", "archive"}, Tenant("stores", Admins, None))
    ++ Route({"setHours", "createActivity"}, Tenant("stores", Managers, None))
    ++ Route({"finances"}, Tenant("stores", Role, "store.finances"))

RecruitingRoutes ==
    Route({"listJobs", "createJob", "getJob", "updateJob", "publish", "unpublish",
           "listCandidates", "getCandidate", "resume", "move", "updateCandidate", "score",
           "schedule", "ics", "draftJd", "insights"}, Tenant("recruiting", Role, "recruiting"))

CareersRoutes == Route({"listJobs", "jobDetail", "resumeUpload", "apply"}, Public)

MessagingRoutes ==
    Route({"listConversations", "createConversation", "getConversation", "addMembers",
           "listMessages", "sendMessage", "markRead", "search", "emailThreads", "emailThread",
           "sendEmail"}, Tenant("messaging", Role, "messaging"))

NotificationRoutes ==
    Route({"list", "unreadCount", "markRead", "markAllRead", "preferences", "updatePreference"},
          Tenant("notifications", Role, None))
    ++ Route({"broadcast"}, Tenant("notifications", Admins, None))

ReportRoutes ==
    Route({"dashboard", "insights", "listDefs", "createDef", "listRuns", "run", "exportRun"},
          Tenant("reports", Role, "reports"))

PermissionRoutes ==
    Route({"modules", "matrix", "update", "visibility", "setVisibility"},
          Tenant("settings", Role, None))

AuditRoutes == Route({"list"}, Tenant("settings", Role, None))

BillingRoutes ==
    Route({"plans", "subscription", "effective", "usage", "invoices", "invoicePdf", "checkout",
           "changePlan", "portal", "syncUsage", "trialReminders"}, Tenant(None, {"owner"}, None))

CompanyRoutes ==
    Route({"create", "list", "getById", "usage"}, Signed)
    ++ Route({"current"}, Tenant(None, Role, None))
    ++ Route({"update"}, Tenant(None, {"owner"}, None))
    ++ Route({"patch", "deactivate"}, Tenant("companies", Role, None))

GroupRoutes ==
    Route({"create", "list", "get", "companies", "update", "remove", "attach", "detach"}, Signed)

AdminRoutes ==
    Route({"tenants", "tenant", "setStatus", "assignPlan", "setOverride", "permissionModules",
           "tenantPermissions", "setTenantPermissions", "plans", "createPlan", "updatePlan",
           "flags", "setFlag", "audit", "startImpersonate", "stopImpersonate"}, Operator)

\* The RolesGuard asks for a role, which only a member has.
DesignRoutes == Route({"get"}, Signed) ++ Route({"update", "reset"}, Tenant(None, {"owner"}, None))

MeRoutes == Route({"me", "logout"}, Signed)
RegistrationRoutes == Route({"register"}, Public)
PlanRoutes == Route({"list"}, Public)
KioskRoutes == Route({"punch"}, Tenant(None, Role, None))
SearchRoutes == Route({"search"}, Tenant(None, Role, None))
EntitlementRoutes == Route({"get"}, Tenant(None, Role, None))

\* The webhook says that it has no auth guard, but does not say @Public().
WebhookRoutes == Route({"stripeWebhook"}, Signed)

Controllers ==
    {AttendanceRoutes, TerminalRoutes, DeviceRoutes, DeviceRegistrationRoutes, LeaveRoutes,
     DocumentRoutes, SchedulingRoutes, TransferRoutes, EmployeeRoutes, EmployeeRecordRoutes,
     OnboardingRoutes, StoreRoutes, RecruitingRoutes, CareersRoutes, MessagingRoutes,
     NotificationRoutes, ReportRoutes, PermissionRoutes, AuditRoutes, BillingRoutes,
     CompanyRoutes, GroupRoutes, AdminRoutes, DesignRoutes, MeRoutes, RegistrationRoutes,
     PlanRoutes, KioskRoutes, SearchRoutes, EntitlementRoutes, WebhookRoutes}

\* Requests that need the same pass the same guards.
AllNeeds == UNION {{c[h] : h \in DOMAIN c} : c \in Controllers}

-----------------------------------------------------------------------------
(* Defaults of the permission matrix *)

EmployeeModules == {"dashboard", "shifts", "attendance", "leave", "onboarding", "documents",
                    "messaging", "notifications"}
ManagerModules == EmployeeModules \cup {"stores", "employees", "reports"}
Modules == ManagerModules \cup {"companies", "settings", "billing", "recruiting"}

DefaultModuleAccess ==
    [owner |-> Modules, hr |-> Modules \ {"billing"}, area_manager |-> ManagerModules,
     store_manager |-> ManagerModules, employee |-> EmployeeModules]

DefaultAllows(role, module) == module \in DefaultModuleAccess[role]

\* (mutant of Can: an override can only add)
CanOrDefault(row, role, module) == row = "allow" \/ DefaultAllows(role, module)

\* PermissionsService.can: the override's row, or else the role's default.
Can(row, role, module) == IF row = "default" THEN DefaultAllows(role, module) ELSE row = "allow"

-----------------------------------------------------------------------------

CompanyStatus == {"pending", "active", "inactive", "suspended", "deleted"}

ASSUME AccessAssumption ==
    /\ IsFiniteSet(Companies) /\ Companies # {}
    /\ None \notin Companies \cup Role \cup Modules \cup Feature
    /\ Asked \subseteq AllNeeds
    /\ Hired \subseteq [Companies -> Role \cup {None}]
    /\ Roles \subseteq Role /\ Subs \subseteq Sub \ {NoSub} /\ Touched \subseteq Feature
    /\ Statuses \subseteq CompanyStatus
    /\ MaxChanges \in Nat

VARIABLES
    member,      \* the person's role in the companies where the membership is active
    matrix,      \* permissions: the overrides of the module that the request is about
    sub,         \* subscriptions
    override,    \* entitlement_overrides: what operators grant or deny
    status,      \* companies.status
    request,     \* the request and what the guards have read for it
    changes,     \* bound: the changes so far
    seen         \* history: what has held at some moment since the guards began

vars == <<member, matrix, sub, override, status, request, changes, seen>>
World == <<member, matrix, sub, override, status>>

Rows == {"default", "allow", "deny"}

RequestState ==
    [needs : AllNeeds, signed : BOOLEAN, operator : BOOLEAN,
     wanted : Companies \cup {None},                         \* x-company-id
     pc : {"auth", "guards", "permission", "plan", "override", "handled", "refused"},
     company : Companies \cup {None}, role : Role \cup {None}, read : Sub]

\* What holds now of each company, as far as guards ask.
Facts ==
    [member |-> {<<c, member[c]>> : c \in Companies},
     row |-> {<<c, r, matrix[c][r]>> : c \in Companies, r \in Role},
     sub |-> {<<c, sub[c]>> : c \in Companies},
     override |-> {<<c, override[c]>> : c \in Companies}]

TypeOK ==
    /\ member \in [Companies -> Role \cup {None}]
    /\ matrix \in [Companies -> [Role -> Rows]]
    /\ sub \in [Companies -> Sub]
    /\ \A c \in Companies : override[c] \in UNION {[fs -> BOOLEAN] : fs \in SUBSET Touched}
    /\ status \in [Companies -> CompanyStatus]
    /\ request \in RequestState
    /\ changes \in 0..MaxChanges
    /\ DOMAIN seen = DOMAIN Facts

NoOverride == [f \in {} |-> TRUE]

Init ==
    /\ member \in Hired
    /\ matrix = [c \in Companies |-> [r \in Role |-> "default"]]
    /\ sub = [c \in Companies |-> NoSub]
    /\ override = [c \in Companies |-> NoOverride]
    /\ status = [c \in Companies |-> "pending"]
    /\ \E needs \in Asked, signed, operator \in BOOLEAN, c \in Companies \cup {None} :
          \* that one is an operator matters to the platform's routes only
          /\ operator => needs.kind = "platform"
          /\ request = [needs |-> needs, signed |-> signed, operator |-> operator, wanted |-> c,
                        pc |-> "auth", company |-> None, role |-> None, read |-> NoSub]
    /\ changes = 0
    /\ seen = Facts

-----------------------------------------------------------------------------
(* The guards, in the order in which they run *)

Goes(pc) == request' = [request EXCEPT !.pc = pc]
Refuse == Goes("refused") /\ UNCHANGED <<World, changes, seen>>
Pass(pc) == Goes(pc) /\ UNCHANGED <<World, changes, seen>>

\* AuthService.authenticate makes companies of the person's go live whose
\* registration was pending; the model's person owns those where they are owner.
Promoted(c) == IF member[c] = "owner" /\ status[c] = "pending" THEN "active" ELSE status[c]

\* The membership asked for, or else any; of none there is none.
Picked ==
    LET active == {c \in Companies : member[c] # None}
    IN  IF request.wanted \in active THEN {request.wanted} ELSE active

\* (mutant of Authenticate: the company is the one asked for, whatever was picked)
TrustHeader ==
    /\ request.pc = "auth"
    /\ request.needs.kind # "public" /\ request.signed
    /\ \E c \in Picked :
          request' = [request EXCEPT !.pc = "guards", !.role = member[c],
                                     !.company = IF request.wanted # None THEN request.wanted ELSE c]
    /\ UNCHANGED <<World, changes, seen>>

Authenticate ==
    /\ request.pc = "auth"
    /\ request.needs.kind # "public" /\ request.signed
    /\ status' = [c \in Companies |-> Promoted(c)]
    /\ \/ \E c \in Picked :
             request' = [request EXCEPT !.pc = "guards", !.company = c, !.role = member[c]]
       \/ Picked = {} /\ Goes("guards")
    /\ UNCHANGED <<member, matrix, sub, override, changes, seen>>

\* SupabaseAuthGuard: a public route, or no token.
AdmitPublic == request.pc = "auth" /\ request.needs.kind = "public" /\ Pass("handled")
RefuseUnsigned ==
    request.pc = "auth" /\ request.needs.kind # "public" /\ ~request.signed /\ Refuse

\* TenantGuard, PlatformGuard and, where no permission comes first, RolesGuard.
Guards ==
    /\ request.pc = "guards"
    /\ CASE request.needs.kind = "signed"   -> Pass("handled")
         [] request.needs.kind = "platform" -> IF request.operator THEN Pass("handled") ELSE Refuse
         [] request.needs.kind = "tenant"   -> IF request.company # None THEN Pass("permission")
                                                                         ELSE Refuse

\* PermissionGuard reads the matrix; RolesGuard looks at the role.
CheckPermission ==
    LET needs == request.needs
    IN  /\ request.pc = "permission"
        /\ IF /\ needs.module # None =>
                    Can(matrix[request.company][request.role], request.role, needs.module)
              /\ request.role \in needs.roles
           THEN Pass(IF needs.feature = None THEN "handled" ELSE "plan")
           ELSE Refuse

\* PlanGuard reads the subscription, then the override.
ReadSubscription ==
    /\ request.pc = "plan"
    /\ request' = [request EXCEPT !.pc = "override", !.read = sub[request.company]]
    /\ UNCHANGED <<World, changes, seen>>

ReadOverride ==
    /\ request.pc = "override"
    /\ IF Has(request.read, override[request.company], request.needs.feature)
       THEN Pass("handled")
       ELSE Refuse

-----------------------------------------------------------------------------
(* Meanwhile *)

Saw(f, g) == [k \in DOMAIN f |-> f[k] \cup g[k]]
Changed ==
    /\ changes < MaxChanges /\ changes' = changes + 1
    /\ request.pc \notin {"handled", "refused"}
    /\ seen' = IF request.pc = "auth" THEN Facts' ELSE Saw(seen, Facts')
    /\ UNCHANGED request

\* Memberships come with activation; one that is suspended or gone no guard sees.
ChangeMember(c, r) ==
    /\ member' = [member EXCEPT ![c] = r]
    /\ UNCHANGED <<matrix, sub, override, status>> /\ Changed

\* PermissionsService.setOverrides, by an administrator or an operator.
SetOverrides(c, r, row) ==
    /\ row # "default"
    /\ matrix' = [matrix EXCEPT ![c][r] = row]
    /\ UNCHANGED <<member, sub, override, status>> /\ Changed

\* A checkout, an event from Stripe or an operator.
ChangeSub(c, s) ==
    /\ sub' = [sub EXCEPT ![c] = s]
    /\ UNCHANGED <<member, matrix, override, status>> /\ Changed

\* AdminService.setOverride replaces the company's map.
SetOverride(c, f) ==
    /\ override' = [override EXCEPT ![c] = f]
    /\ UNCHANGED <<member, matrix, sub, status>> /\ Changed

\* (mutant of SetStatus: with the status of a store that is closed)
ArchiveCompany(c, s) ==
    /\ status' = [status EXCEPT ![c] = "archived"]
    /\ UNCHANGED <<member, matrix, sub, override>> /\ Changed

\* AdminService.setStatus
SetStatus(c, s) ==
    /\ status' = [status EXCEPT ![c] = s]
    /\ UNCHANGED <<member, matrix, sub, override>> /\ Changed

OverrideMaps == UNION {[fs -> BOOLEAN] : fs \in SUBSET Touched}

Next ==
    \/ Authenticate \/ AdmitPublic \/ RefuseUnsigned \/ Guards \/ CheckPermission
    \/ ReadSubscription \/ ReadOverride
    \/ \E c \in Companies :
          \/ \E r \in Roles \cup {None} : ChangeMember(c, r)
          \/ \E r \in Roles, row \in Rows : SetOverrides(c, r, row)
          \/ \E s \in Subs : ChangeSub(c, s)
          \/ \E f \in OverrideMaps : SetOverride(c, f)
          \/ \E s \in Statuses : SetStatus(c, s)

Spec == Init /\ [][Next]_vars

-----------------------------------------------------------------------------
(* Properties *)

TenantCall == request.pc = "handled" /\ request.needs.kind = "tenant"

\* "A requested company the user is not a member of is silently ignored -
\* never widens access" (auth.service.ts:188-189): a handler works for a
\* company in which the person was an active member, with the role the handler is
\* told, at some moment of the request.
NeverWidens == TenantCall => <<request.company, request.role>> \in seen.member

\* What an administrator has taken from a role, or a route does not give
\* to it, is not got through because a change was made between two guards.
PermissionBites ==
    TenantCall => /\ request.role \in request.needs.roles
                  /\ request.needs.module # None =>
                        \E row \in Rows : /\ <<request.company, request.role, row>> \in seen.row
                                          /\ row # "deny"
                                          /\ row = "default" => request.needs.module \in
                                                DefaultModuleAccess[request.role]

\* What a request gets through with was so at some moment of it: the membership and
\* the role, and what the matrix says of them.
GuardsHold == NeverWidens /\ PermissionBites

\* "operators can grant or revoke specific features" (entitlements.service.ts:108):
\* what they deny all the time is not to be had, and what they grant all the
\* time is not refused, whatever plan the company moves to meanwhile; nor is a feature
\* to be had that neither they nor the plan nor the base has given at any moment.
OperatorsDecide ==
    LET f == request.needs.feature
        overrides == {o \in OverrideMaps : <<request.company, o>> \in seen.override}
        plans == {s \in Sub : <<request.company, s>> \in seen.sub /\ OnPlan(s)}
    IN  /\ TenantCall /\ f # None =>
              \E o \in overrides : IF f \in DOMAIN o THEN o[f]
                                   ELSE \/ DefaultFeatures[f]
                                        \/ \E s \in plans : f \in DOMAIN PlanDefs[s.plan].features
        /\ request.pc = "refused" /\ request.read # NoSub =>
              \E o \in overrides : f \in DOMAIN o => ~o[f]

\* A higher tier takes nothing away from the company that a handler works for, whatever
\* operators have set: no feature, no seat and no store.  The lists of plan-defs.ts each
\* stand alone, "Everything in Pro" is only a line of text there.
UpgradeOnlyAdds ==
    TenantCall => \A p, q \in Plan : PlanDefs[p].tier < PlanDefs[q].tier =>
        LET s == [plan |-> p, status |-> "active"]
            t == [plan |-> q, status |-> "active"]
            before == Effective(s, override[request.company])
            after == Effective(t, override[request.company])
        IN  /\ \A f \in Feature : before[f] => after[f]
            /\ \A m \in Metric : AtMost(EffectiveLimits(s, NoOverride)[m],
                                        EffectiveLimits(t, NoOverride)[m])

\* What a company has is the operators' word, then its plan's, and more with every
\* tier.
PlansDecide == OperatorsDecide /\ UpgradeOnlyAdds
=============================================================================
