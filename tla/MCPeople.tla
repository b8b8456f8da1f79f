------------------------------ MODULE MCPeople ------------------------------
(***************************************************************************)
(* An instance of Staff for TLC.  Recruiting and Onboarding are explored   *)
(* in parts: who posts and who applies; who assigns, who assigns to one    *)
(* person at once, and who drags tasks.                                    *)
(***************************************************************************)
EXTENDS Staff, TLC

CONSTANTS c1, c2, e1, e2, e3, boss, p1, p2, k1, k2, d1, d2, g1, g2

VARIABLE part                                                   \* never changes

\* Files of two rows and no logins; logins, with one employee to a call.
Files == [limit |-> 2, seats |-> 1, batch |-> 2, rows |-> 3, codes |-> 3, given |-> 3,
          requests |-> 0, serial |-> TRUE]
Asking == [limit |-> 2, seats |-> 2, batch |-> 1, rows |-> 3, codes |-> 2, given |-> 0,
           requests |-> 2, serial |-> TRUE]
MCInstances == {Files, Asking, [Files EXCEPT !.serial = FALSE],
                [Asking EXCEPT !.serial = FALSE, !.limit = 1, !.rows = 2]}

\* A title, and one that looks like its second slug.
MCTitles == {<<>>, <<2>>}

Parts ==
    CASE scene = "recruiting" -> {"posting", "applying"}
      [] scene = "onboarding" -> {"assigning", "racing", "dropping"}
      [] OTHER                -> {"all"}

\* Bounds on the states of each part.
Within ==
    CASE part = "posting"   -> \A k \in Candidates : candidate[k] = Null
      [] part = "applying"  -> /\ Cardinality({j \in Jobs : job[j] # Null}) <= 1 /\ ~collided
                               /\ \A c \in Calls : call[c].title \in {Null, <<>>} /\ call[c].number = 1
      [] part = "assigning" -> /\ group \subseteq {g1} /\ ~overlap
                               /\ \A c \in Calls : call[c].pc # "drop"
                               /\ \A x \in DOMAIN copies : copies[x] <= 2
      [] part = "racing"    -> /\ group \subseteq {g1} /\ overlap
                               /\ \A c \in Calls : call[c].pc # "drop" /\ call[c].employees \subseteq {p1}
      [] part = "dropping"  -> \A c \in Calls : call[c].pc \in {"idle", "drop"}
      [] OTHER              -> TRUE

MCInit == StaffInit /\ part \in Parts /\ Within
MCNext == StaffNext /\ UNCHANGED part /\ Within'
MCSpec == MCInit /\ [][MCNext]_<<staff, part>>

Same == Permutations({c1, c2}) \cup Permutations({p1, p2}) \cup Permutations({d1, d2})
=============================================================================
