------------------------------- MODULE Staff -------------------------------
(***************************************************************************)
(* What is kept of people, from the posting they answer to the contract    *)
(* they leave with: Recruiting, Onboarding, Workforce and Records.  They   *)
(* share nothing but the locals of the handlers: in each behaviour one of  *)
(* them runs, and the others are not there.                                *)
(***************************************************************************)
EXTENDS Naturals, FiniteSets

CONSTANTS
    Calls, Null, Gone, Overlap,                                             \* of several
    Employees, People, Founder, Askers, Wanted, Instances,                  \* Workforce
    Accounts, Ends,                                                         \* Records
    Jobs, Candidates, HR, Parses, Titles, MaxNumber,                        \* Recruiting
    Newcomers, Groups, Tasks, MaxCopies, TaskLimits, Doing                              \* Onboarding

VARIABLES
    scene,                                                                  \* never changes
    call, overlap, collided,                                                \* of several
    employee, member, membership, asked, size, torn,                        \* Workforce
    contract, account,                                                      \* Records
    job, candidate, told, thanked,                                          \* Recruiting
    group, task, copies, promised, repeated                                 \* Onboarding

workforce == <<employee, member, membership, asked, size, torn>>
records == <<contract, account>>
recruiting == <<job, candidate, told, thanked>>
onboarding == <<group, task, copies, promised, repeated>>
staff == <<scene, workforce, records, recruiting, onboarding, call, overlap, collided>>

W == INSTANCE Workforce WITH Sizes <- Instances, user <- member, request <- asked
R == INSTANCE Records
Hiring == INSTANCE Recruiting
Lists == INSTANCE Onboarding WITH Employees <- Newcomers

ASSUME StaffAssumption ==
    /\ W!WorkforceAssumption /\ R!RecordsAssumption
    /\ Hiring!RecruitingAssumption
    /\ Lists!OnboardingAssumption /\ IsFiniteSet(Tasks)

NoWorkforce ==
    /\ employee = Null /\ member = Null /\ membership = Null /\ asked = Null /\ size = Null
    /\ torn = Null
NoRecords == contract = Null /\ account = Null
NoRecruiting == job = Null /\ candidate = Null /\ told = Null /\ thanked = Null
NoOnboarding == group = Null /\ task = Null /\ copies = Null /\ promised = Null /\ repeated = Null

StaffInit ==
    \/ /\ scene = "workforce" /\ W!Init
       /\ overlap = Null /\ NoRecords /\ NoRecruiting /\ NoOnboarding
    \/ /\ scene = "records" /\ R!Init
       /\ collided = Null /\ NoWorkforce /\ NoRecruiting /\ NoOnboarding
    \/ /\ scene = "recruiting" /\ Hiring!Init
       /\ NoWorkforce /\ NoRecords /\ NoOnboarding
    \/ /\ scene = "onboarding" /\ Lists!Init
       /\ collided = Null /\ NoWorkforce /\ NoRecords /\ NoRecruiting

StaffNext ==
    \/ /\ scene = "workforce" /\ W!Next
       /\ UNCHANGED <<scene, records, recruiting, onboarding, overlap>>
    \/ /\ scene = "records" /\ R!Next
       /\ UNCHANGED <<scene, workforce, recruiting, onboarding, collided>>
    \/ /\ scene = "recruiting" /\ Hiring!Next
       /\ UNCHANGED <<scene, workforce, records, onboarding>>
    \/ /\ scene = "onboarding" /\ Lists!Next
       /\ UNCHANGED <<scene, workforce, records, recruiting, collided>>

StaffSpec == StaffInit /\ [][StaffNext]_staff

\* What is kept is of its type.
StaffTypes ==
    CASE scene = "workforce"  -> W!TypeOK
      [] scene = "records"    -> R!TypeOK
      [] scene = "recruiting" -> Hiring!TypeOK
      [] scene = "onboarding" -> Lists!TypeOK

\* However handlers overlap, the caps of the plan are exceeded by no more than they
\* can; alone, none gives a code that somebody has.
WithinCaps ==
    scene = "workforce" => W!EmployeesWithinLimit /\ W!MembersWithinSeats /\ W!CodesAreFree

\* One request at a time for a person; who was approved is in, and who is in was
\* approved.
RequestsDecide == scene = "workforce" => W!OneAtATime /\ W!ApprovedIsIn /\ W!OnlyApprovedAreIn

\* One payroll account, but for handlers at once; a contract that is deleted was
\* cancelled.
RecordsHold == scene = "records" => R!OnePrimary /\ R!DeletedWasCancelled

\* Who hires: slugs are free, who was thanked is known to HR, a score is of the parse
\* beside it.
HiringHolds ==
    scene = "recruiting" => Hiring!SlugsAreFree /\ Hiring!ThankedIsTold /\ Hiring!ScoreFits

\* Who is new: what was assigned is there, and once; a drop is whole.
ChecklistsHold ==
    scene = "onboarding" => Lists!AssignedIsThere /\ Lists!NothingTwice /\ Lists!DropsAreWhole

\* Where handlers do not overlap, a cancelled contract stays as it was, and so does
\* what was parsed of a resume.
KeptInTurn ==
    [][/\ scene = "records" => R!KeepsCancelled
       /\ scene = "recruiting" => Hiring!KeepsParsed]_staff
=============================================================================
