------------------------------ MODULE Accounts ------------------------------
(***************************************************************************)
(* How tenants come to be and are kept: RegistrationService, AuthService's *)
(* provisioning of users, CompaniesService and GroupsService.  Identities  *)
(* are Supabase's; a user's row has the identity's e-mail and uid, so that *)
(* here both are the person.  Each step of a handler is a transaction.     *)
(***************************************************************************)
EXTENDS Naturals, FiniteSets, FiniteSetsExt

CONSTANTS
    Calls,           \* handlers that run at a time
    People,
    Companies, Groups, \* ids that get to be used
    Null, Gone,      \* no row yet, a group that has been deleted
    Operated,        \* the statuses that operators set
    MaxSlug,         \* bound on the numbers of slugs; all names have the same root
    Overlap,         \* may handlers overlap?  a set of BOOLEANs
    Crashes

CompanyStatus == {"pending", "active", "inactive", "suspended", "deleted"}
Company == [status : CompanyStatus, owner : People, slug : 0..MaxSlug,   \* 0: none
            group : Groups \cup {Null}]

AccountsAssumption ==
    /\ {Null, Gone} \cap (People \cup Companies \cup Groups) = {}
    /\ {Null, Gone} \cap Company = {} /\ \A owners \in SUBSET People : owners \notin {Null, Gone}
    /\ MaxSlug \in Nat /\ Operated \subseteq CompanyStatus
    /\ Overlap \subseteq BOOLEAN /\ Crashes \in BOOLEAN

VARIABLES
    identity,        \* external: Supabase's identities
    user,            \* users
    company,         \* companies, each with the owner's membership
    group,           \* groups: the owners
    call,            \* the locals of each handler
    overlap,         \* may handlers overlap?  never changes
    dead,            \* history: who registered in a call that died
    operated,        \* history: the companies whose status an operator has set
    astray           \* history: the companies created in a group that was not there

vars == <<identity, user, company, group, call, overlap, dead, operated, astray>>

CallState == [pc : {"idle", "signup", "slug", "provision", "attach", "delete"},
              person : People \cup {Null}, slug : 0..MaxSlug,
              company : Companies \cup {Null}, group : Groups \cup {Null}]

Identity == {"none", "unconfirmed", "confirmed"}
Group == (SUBSET People) \cup {Null, Gone}

TypeOK ==
    /\ identity \in [People -> Identity]
    /\ user \subseteq People
    /\ company \in [Companies -> Company \cup {Null}]
    /\ group \in [Groups -> Group]
    /\ call \in [Calls -> CallState]
    /\ overlap \in Overlap
    /\ dead \subseteq People /\ operated \subseteq Companies /\ astray \subseteq Companies

Idle == [pc |-> "idle", person |-> Null, slug |-> 0, company |-> Null, group |-> Null]

Init ==
    /\ identity = [p \in People |-> "none"]
    /\ user = {}
    /\ company = [k \in Companies |-> Null]
    /\ group = [g \in Groups |-> Null]
    /\ call = [c \in Calls |-> Idle]
    /\ overlap \in Overlap
    /\ dead = {} /\ operated = {} /\ astray = {}

At(c, pc) == call[c].pc = pc
Goto(c, pc) == call' = [call EXCEPT ![c].pc = pc]
Return(c) == call' = [call EXCEPT ![c] = Idle]
Alone == overlap \/ \A c \in Calls : At(c, "idle")
Rows == <<user, company, group>>
Rest == <<overlap, dead, operated, astray>>

Exists(k) == company[k] # Null
GroupExists(g) == group[g] \notin {Null, Gone}

\* Ids are alike: the next one that has not been used.
Fresh(k) == ~Exists(k) /\ k = CHOOSE x \in Companies : ~Exists(x)
Slugs == {company[k].slug : k \in {k \in Companies : Exists(k)}}

-----------------------------------------------------------------------------
(* register                                                                *)

Register(c, p) ==
    /\ At(c, "idle") /\ Alone
    /\ p \notin user
    /\ call' = [call EXCEPT ![c] = [Idle EXCEPT !.pc = "signup", !.person = p]]
    /\ UNCHANGED <<identity, Rows, Rest>>

\* Supabase makes the identity and sends the mail; of an identity that it has it may
\* answer that it exists, or, unless it is confirmed, send the mail again.
SignUp(c) ==
    LET p == call[c].person
    IN  /\ At(c, "signup")
        /\ \/ /\ identity[p] # "confirmed"
              /\ identity' = [identity EXCEPT ![p] = "unconfirmed"]
              /\ Goto(c, "slug")
           \/ /\ identity[p] # "none"
              /\ Return(c)
              /\ UNCHANGED identity
        /\ UNCHANGED <<Rows, Rest>>

FreeSlug == Min(1..(MaxSlug + 1) \ Slugs)

UniqueSlug(c) ==
    /\ At(c, "slug") /\ FreeSlug <= MaxSlug
    /\ call' = [call EXCEPT ![c].pc = "provision", ![c].slug = FreeSlug]
    /\ UNCHANGED <<identity, Rows, Rest>>

FirstStatus == "pending"

\* One transaction: user, company, membership and subscription, or nothing if the
\* user or the slug is there by now.
Provision(c, k) ==
    LET p == call[c].person
    IN  /\ At(c, "provision") /\ Fresh(k)
        /\ IF p \notin user /\ call[c].slug \notin Slugs
           THEN /\ user' = user \cup {p}
                /\ company' = [company EXCEPT ![k] = [status |-> FirstStatus, owner |-> p,
                                                      slug |-> call[c].slug, group |-> Null]]
           ELSE UNCHANGED <<user, company>>
        /\ Return(c)
        /\ UNCHANGED <<identity, group, Rest>>

\* The person follows the link in the mail.
Confirm(p) ==
    /\ identity[p] = "unconfirmed"
    /\ identity' = [identity EXCEPT ![p] = "confirmed"]
    /\ UNCHANGED <<Rows, call, Rest>>

-----------------------------------------------------------------------------
(* Requests of those who have signed in                                    *)

\* findOrProvisionUser and promotePendingCompanies, with every request.
SignIn(p) ==
    /\ identity[p] = "confirmed" /\ Alone
    /\ user' = user \cup {p}
    /\ company' = [k \in Companies |->
                      IF Exists(k) /\ company[k].owner = p /\ company[k].status = "pending"
                      THEN [company[k] EXCEPT !.status = "active"] ELSE company[k]]
    /\ UNCHANGED <<identity, group, call, Rest>>

SignedIn(p) == identity[p] = "confirmed" /\ p \in user

\* Whoever is signed in names an owner, whom only the membership's foreign key asks to
\* be a user, and a group, of which nothing asks anything.
CreateWithOwner(p, k, owner, g) ==
    /\ SignedIn(p) /\ Alone /\ Fresh(k) /\ owner \in user
    /\ company' = [company EXCEPT ![k] = [status |-> "active", owner |-> owner, slug |-> 0, group |-> g]]
    /\ astray' = IF g = Null \/ GroupExists(g) THEN astray ELSE astray \cup {k}
    /\ UNCHANGED <<identity, user, group, call, overlap, dead, operated>>

Deactivate(p, k) ==
    /\ SignedIn(p) /\ Exists(k) /\ company[k].owner = p
    /\ company' = [company EXCEPT ![k].status = "inactive"]
    /\ UNCHANGED <<identity, user, group, call, Rest>>

\* AdminService.setStatus
OperatorSets(k, s) ==
    /\ Exists(k)
    /\ company' = [company EXCEPT ![k].status = s]
    /\ operated' = operated \cup {k}
    /\ UNCHANGED <<identity, user, group, call, overlap, dead, astray>>

-----------------------------------------------------------------------------
(* Groups, which stand above the tenants                                   *)

Owns(p, g) == SignedIn(p) /\ GroupExists(g) /\ p \in group[g]

\* A new id, which nobody has named.
CreateGroup(p, g) ==
    /\ SignedIn(p) /\ group[g] = Null
    /\ \A k \in Companies : Exists(k) => company[k].group # g
    /\ group' = [group EXCEPT ![g] = {p}]
    /\ UNCHANGED <<identity, user, company, call, Rest>>

UpdateOwners(p, g, owners) ==
    /\ Owns(p, g)
    /\ group' = [group EXCEPT ![g] = owners]
    /\ UNCHANGED <<identity, user, company, call, Rest>>

\* getOwned and assertCompanyOwner, then the write, which asks for nothing.
MayAttach(c, p, g, k) ==
    /\ At(c, "idle") /\ Alone
    /\ Owns(p, g) /\ Exists(k) /\ company[k].owner = p
    /\ call' = [call EXCEPT ![c] = [Idle EXCEPT !.pc = "attach", !.group = g, !.company = k]]
    /\ UNCHANGED <<identity, Rows, Rest>>

Attach(c) ==
    /\ At(c, "attach")
    /\ company' = [company EXCEPT ![call[c].company].group = call[c].group]
    /\ astray' = astray \ {call[c].company}
    /\ Return(c)
    /\ UNCHANGED <<identity, user, group, overlap, dead, operated>>

Detach(p, g, k) ==
    /\ Owns(p, g) /\ Exists(k) /\ company[k].group = g
    /\ company' = [company EXCEPT ![k].group = Null]
    /\ UNCHANGED <<identity, user, group, call, Rest>>

\* (mutant of Emptied: the companies keep their group)
NotEmptied(g) == company

Emptied(g) == [k \in Companies |->
                  IF Exists(k) /\ company[k].group = g THEN [company[k] EXCEPT !.group = Null]
                  ELSE company[k]]

\* remove: two statements, not one transaction.
EmptyGroup(c, p, g) ==
    /\ At(c, "idle") /\ Alone
    /\ Owns(p, g)
    /\ company' = Emptied(g)
    /\ call' = [call EXCEPT ![c] = [Idle EXCEPT !.pc = "delete", !.group = g]]
    /\ UNCHANGED <<identity, user, group, Rest>>

DeleteGroup(c) ==
    /\ At(c, "delete")
    /\ group' = [group EXCEPT ![call[c].group] = Gone]
    /\ Return(c)
    /\ UNCHANGED <<identity, user, company, Rest>>

\* A handler dies.
Crash(c) ==
    /\ Crashes /\ ~At(c, "idle")
    /\ dead' = dead \cup ({call[c].person} \ {Null})
    /\ Return(c)
    /\ UNCHANGED <<identity, Rows, overlap, operated, astray>>

-----------------------------------------------------------------------------

Next ==
    \/ \E c \in Calls :
          \/ \E p \in People : Register(c, p)
          \/ SignUp(c)
          \/ UniqueSlug(c)
          \/ \E k \in Companies : Provision(c, k)
          \/ \E p \in People, g \in Groups :
                \/ EmptyGroup(c, p, g)
                \/ \E k \in Companies : MayAttach(c, p, g, k)
          \/ Attach(c)
          \/ DeleteGroup(c)
          \/ Crash(c)
    \/ \E p \in People :
          \/ Confirm(p)
          \/ SignIn(p)
          \/ \E k \in Companies :
                \/ Deactivate(p, k)
                \/ \E owner \in People, g \in Groups \cup {Null} : CreateWithOwner(p, k, owner, g)
          \/ \E g \in Groups :
                \/ CreateGroup(p, g)
                \/ \E owners \in (SUBSET People) \ {{}} : UpdateOwners(p, g, owners)
                \/ \E k \in Companies : Detach(p, g, k)
    \/ \E k \in Companies, s \in Operated : OperatorSets(k, s)

Spec == Init /\ [][Next]_vars

-----------------------------------------------------------------------------
(* Properties *)

\* "Register a new company + owner (public, pending until email verified)"
\* (registration.controller.ts:24): unless an operator has had a hand in it, a company
\* that was registered (it has a slug) and is not pending has an owner whose e-mail was
\* confirmed.  One that a user creates may name an owner who has confirmed nothing.
PendingUntilConfirmed ==
    \A k \in Companies \ operated :
        Exists(k) /\ company[k].slug # 0 /\ company[k].status # "pending" =>
            identity[company[k].owner] = "confirmed"

\* Who has signed up is the owner of a company: a registration that is alone and does not
\* die after the identity was made does not end without the tenant.  (One that
\* fails leaves a person who, once signed in, cannot register any more.)
NobodyStranded ==
    ~overlap => \A p \in People \ dead :
        identity[p] # "none" /\ (\A c \in Calls : call[c].person # p) =>
            \E k \in Companies : Exists(k) /\ company[k].owner = p

\* group_id has no foreign key: where handlers do not overlap and do not die, a
\* company is in a group that there is, but for one whose creator named a group that was
\* not there (create-company.dto.ts:46 takes any id) and that nobody has attached since.
GroupsAreThere ==
    ~overlap => \A k \in Companies \ astray :
        Exists(k) /\ company[k].group # Null => GroupExists(company[k].group)
=============================================================================
