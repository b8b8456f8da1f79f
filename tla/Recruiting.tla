----------------------------- MODULE Recruiting -----------------------------
(***************************************************************************)
(* Hiring: RecruitingService over its repository.  A job gets a slug that  *)
(* is free, applications come in from the public careers site and are told *)
(* to HR one by one, and candidates are scored by a language model, which  *)
(* takes its time between the read and the write.  Each step of a handler  *)
(* is a transaction or a call to the model.                                *)
(***************************************************************************)
EXTENDS Naturals, Sequences, FiniteSets

CONSTANTS
    Calls,           \* handlers that run at a time
    Jobs, Candidates, \* ids that get to be inserted
    HR,              \* who is told of an application
    Parses,          \* what parsing a resume may give
    Titles,          \* slugs of titles: sequences, of which numbering makes longer ones
    MaxNumber,       \* bound on the numbers that are tried
    Null,
    Overlap          \* may handlers overlap?  a set of BOOLEANs

RecruitingAssumption ==
    /\ Null \notin Jobs \cup Candidates \cup HR \cup Parses
    /\ Parses \cap {"none", "name", "hand"} = {}
    /\ MaxNumber \in Nat \ {0} /\ Overlap \subseteq BOOLEAN

VARIABLES
    job,             \* jobs
    candidate,       \* candidates
    told,            \* notifications: whom HR members have heard of
    call,            \* the locals of each handler
    overlap,         \* may handlers overlap?  never changes
    thanked,         \* history: the candidates whose application was answered "ok"
    collided         \* history: has the index on slugs refused a job?

vars == <<job, candidate, told, call, overlap, thanked, collided>>

Numbered(title, n) == IF n = 1 THEN title ELSE Append(title, n)
Slug == {Numbered(title, n) : title \in Titles, n \in 1..MaxNumber}

Job == [slug : Slug, published : BOOLEAN]

\* basis: what the score was made from, a parse, nothing but the name, or a hand.
Candidate == [job : Jobs, resume : BOOLEAN, parsed : Parses \cup {Null},
              basis : Parses \cup {"none", "name", "hand"}]

CallState == [pc : {"idle", "slug", "insert", "apply", "tell", "parse", "score", "write"},
              title : Titles \cup {Null}, number : 1..MaxNumber, job : Jobs \cup {Null},
              candidate : Candidates \cup {Null}, parsed : Parses \cup {Null},
              untold : SUBSET HR]

TypeOK ==
    /\ job \in [Jobs -> Job \cup {Null}]
    /\ candidate \in [Candidates -> Candidate \cup {Null}]
    /\ told \in [HR -> SUBSET Candidates]
    /\ call \in [Calls -> CallState]
    /\ overlap \in Overlap
    /\ thanked \subseteq Candidates /\ collided \in BOOLEAN

Idle == [pc |-> "idle", title |-> Null, number |-> 1, job |-> Null, candidate |-> Null,
         parsed |-> Null, untold |-> {}]

Init ==
    /\ job = [j \in Jobs |-> Null]
    /\ candidate = [k \in Candidates |-> Null]
    /\ told = [h \in HR |-> {}]
    /\ call = [c \in Calls |-> Idle]
    /\ overlap \in Overlap
    /\ thanked = {} /\ collided = FALSE

At(c, pc) == call[c].pc = pc
Goto(c, pc) == call' = [call EXCEPT ![c].pc = pc]
MayStart(c) == At(c, "idle") /\ (overlap \/ \A d \in Calls : At(d, "idle"))
Return(c) == call' = [call EXCEPT ![c] = Idle]
Start(c, locals) == MayStart(c) /\ call' = [call EXCEPT ![c] = locals]
Rows == <<job, candidate, told>>
History == <<thanked, collided>>

-----------------------------------------------------------------------------
(* Jobs *)

Slugs == {job[j].slug : j \in {j \in Jobs : job[j] # Null}}

CreateJob(c, title) ==
    /\ Start(c, [Idle EXCEPT !.pc = "slug", !.title = title])
    /\ UNCHANGED <<Rows, overlap, History>>

\* (mutant of SlugExists: the loop looks for the title, whatever the number)
TitleExists(title, n) == n = 1 /\ title \in Slugs

SlugExists(title, n) == Numbered(title, n) \in Slugs

UniqueJobSlug(c) ==
    LET n == call[c].number
    IN  /\ At(c, "slug")
        /\ IF SlugExists(call[c].title, n)
           THEN n < MaxNumber /\ call' = [call EXCEPT ![c].number = n + 1]
           ELSE Goto(c, "insert")
        /\ UNCHANGED <<Rows, overlap, History>>

\* A slug that is taken by now is refused by the index.
InsertJob(c, j) ==
    LET slug == Numbered(call[c].title, call[c].number)
    IN  /\ At(c, "insert")
        /\ job[j] = Null
        /\ job' = IF slug \in Slugs THEN job
                  ELSE [job EXCEPT ![j] = [slug |-> slug, published |-> FALSE]]
        /\ collided' = (collided \/ slug \in Slugs)
        /\ Return(c)
        /\ UNCHANGED <<candidate, told, overlap, thanked>>

\* The job is read, and no job is ever deleted.
SetPublished(j, published) ==
    /\ job[j] # Null
    /\ job' = [job EXCEPT ![j].published = published]
    /\ UNCHANGED <<candidate, told, call, overlap, History>>

-----------------------------------------------------------------------------
(* publicApply *)

PublishedJob(c, j) ==
    /\ job[j] # Null /\ job[j].published
    /\ Start(c, [Idle EXCEPT !.pc = "apply", !.job = j])
    /\ UNCHANGED <<Rows, overlap, History>>

\* The recipients of the broadcast, which follows, do not change.
CreateCandidate(c, k, resume) ==
    /\ At(c, "apply")
    /\ candidate[k] = Null
    /\ candidate' = [candidate EXCEPT ![k] = [job |-> call[c].job, resume |-> resume,
                                              parsed |-> Null, basis |-> "none"]]
    /\ call' = [call EXCEPT ![c] = [Idle EXCEPT !.pc = "tell", !.candidate = k, !.untold = HR]]
    /\ UNCHANGED <<job, told, overlap, History>>

\* One notification; with the last the applicant is answered.
NotifyHR(c, h) ==
    LET k == call[c].candidate
        left == call[c].untold \ {h}
    IN  /\ At(c, "tell") /\ h \in call[c].untold
        /\ told' = [told EXCEPT ![h] = @ \cup {k}]
        /\ call' = [call EXCEPT ![c] = IF left = {} THEN Idle ELSE [@ EXCEPT !.untold = left]]
        /\ thanked' = IF left = {} THEN thanked \cup {k} ELSE thanked
        /\ UNCHANGED <<job, candidate, overlap, collided>>

-----------------------------------------------------------------------------
(* scoreCandidate *)

\* Only a resume that has not been parsed yet is parsed.
ReadCandidate(c, k) ==
    LET row == candidate[k]
        pc == IF row.parsed = Null /\ row.resume THEN "parse" ELSE "write"
    IN  /\ row # Null
        /\ Start(c, [Idle EXCEPT !.pc = pc, !.candidate = k, !.parsed = row.parsed])
        /\ UNCHANGED <<Rows, overlap, History>>

\* Nothing comes of it where the file cannot be fetched or there is no model.
ParseResume(c, parsed) ==
    /\ At(c, "parse")
    /\ call' = [call EXCEPT ![c].pc = "write", ![c].parsed = parsed]
    /\ UNCHANGED <<Rows, overlap, History>>

Basis(parsed) == IF parsed = Null THEN "name" ELSE parsed

\* (mutant of Scored: a parse is written where there is one)
ScoredKeeping(row, parsed) ==
    [row EXCEPT !.basis = Basis(parsed), !.parsed = IF parsed = Null THEN @ ELSE parsed]

Scored(row, parsed) == [row EXCEPT !.basis = Basis(parsed), !.parsed = parsed]

WriteScore(c) ==
    LET k == call[c].candidate
    IN  /\ At(c, "write")
        /\ candidate' = [candidate EXCEPT ![k] = Scored(@, call[c].parsed)]
        /\ Return(c)
        /\ UNCHANGED <<job, told, overlap, History>>

\* updateCandidate with a score; no candidate is ever deleted.
ScoreByHand(k) ==
    /\ candidate[k] # Null
    /\ candidate' = [candidate EXCEPT ![k].basis = "hand"]
    /\ UNCHANGED <<job, told, call, overlap, History>>

\* A call to the model or a notification fails, or the process dies.
Fail(c) ==
    /\ ~At(c, "idle")
    /\ Return(c)
    /\ UNCHANGED <<Rows, overlap, History>>

-----------------------------------------------------------------------------

\* Ids are alike: the next one that has not been used.
FreshJob == CHOOSE j \in Jobs : job[j] = Null
FreshCandidate == CHOOSE k \in Candidates : candidate[k] = Null

Next ==
    \/ \E c \in Calls :
          \/ \E title \in Titles : CreateJob(c, title)
          \/ UniqueJobSlug(c)
          \/ \E j \in Jobs : (job[j] = Null /\ j = FreshJob /\ InsertJob(c, j)) \/ PublishedJob(c, j)
          \/ \E k \in Candidates, resume \in BOOLEAN :
                candidate[k] = Null /\ k = FreshCandidate /\ CreateCandidate(c, k, resume)
          \/ \E h \in HR : NotifyHR(c, h)
          \/ \E k \in Candidates : ReadCandidate(c, k)
          \/ \E parsed \in Parses \cup {Null} : ParseResume(c, parsed)
          \/ WriteScore(c)
          \/ Fail(c)
    \/ \E j \in Jobs, published \in BOOLEAN : SetPublished(j, published)
    \/ \E k \in Candidates : ScoreByHand(k)

Spec == Init /\ [][Next]_vars

-----------------------------------------------------------------------------
(* Properties *)

\* uniqueJobSlug, alone, finds a slug that the index accepts, whatever titles look
\* like numbered ones (recruiting.service.ts:114); at once, the second is refused.
SlugsAreFree == ~overlap => ~collided

\* Who was told that the application is in, is known to everybody in HR
\* (recruiting.service.ts:322).  An application may be stored and nobody know.
ThankedIsTold == \A k \in thanked, h \in HR : k \in told[h]

\* A score that was not given by hand is of what is stored as the resume's contents,
\* however scorings overlap: both are written together (recruiting.service.ts:172).
ScoreFits ==
    \A k \in Candidates :
        candidate[k] # Null /\ candidate[k].basis # "hand" =>
            candidate[k].parsed = IF candidate[k].basis \in Parses THEN candidate[k].basis ELSE Null

\* "Parse the resume on first score" (recruiting.service.ts:161): where handlers do
\* not overlap what was parsed stays; a slower scoring that found nothing undoes it.
KeepsParsed ==
    ~overlap => \A k \in Candidates :
        candidate[k] # Null /\ candidate[k].parsed # Null =>
            candidate'[k].parsed = candidate[k].parsed
=============================================================================
