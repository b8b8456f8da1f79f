---------------------------- MODULE MCScheduling ----------------------------
(* Instances of Scheduling for TLC. *)
EXTENDS Scheduling, TLC

CONSTANTS e1, e2, s1, s2, c1, c2

\* Two stores; two people in one; hours of a week; a week that is copied; handlers
\* at once; coverage.
Nothing == [employee |-> Keep, starts |-> Keep, ends |-> Keep, break |-> Keep, status |-> Keep]
Needs(i, j, k, l) == (0 :> i) @@ (1 :> j) @@ (2 :> k) @@ (3 :> l)
Booking == [stores |-> {s1, s2}, people |-> {e1}, spans |-> {<<0, 2>>}, breaks |-> {0},
            statuses |-> {Keep}, patches |-> {[Nothing EXCEPT !.starts = 1], [Nothing EXCEPT !.ends = 1]},
            blocks |-> {<<2, 1, 0>>}, capacities |-> {0}, required |-> {}, ranges |-> {}, away |-> {}, shifts |-> 2,
            overlap |-> FALSE, copies |-> FALSE, publishing |-> FALSE]
Holding == [Booking EXCEPT !.blocks = {}, !.stores = {s1}, !.people = {e1, e2}, !.capacities = {1, 2},
                           !.publishing = TRUE, !.patches = {[Nothing EXCEPT !.employee = e2]}]
Working == [Booking EXCEPT !.blocks = {<<0, 2, -1>>}, !.stores = {s1}, !.spans = {<<0, 2>>, <<2, 4>>}, !.breaks = {0, 1},
                           !.patches = {[Nothing EXCEPT !.break = 0]}]
Copying == [Booking EXCEPT !.blocks = {}, !.stores = {s1}, !.people = {e1, e2}, !.away = {e2},
                           !.statuses = {"off"}, !.patches = {[Nothing EXCEPT !.status = "assigned"]},
                           !.shifts = 3, !.copies = TRUE]
Racing == [Booking EXCEPT !.blocks = {}, !.stores = {s1}, !.capacities = {1}, !.overlap = TRUE,
                          !.patches = {[Nothing EXCEPT !.starts = 1]}]
Covering == [Booking EXCEPT !.stores = {s1}, !.people = {}, !.spans = {<<1, 3>>}, !.statuses = {"published"},
                            !.blocks = {<<0, 2, 0>>, <<1, 2, 0>>}, !.publishing = TRUE,
                            !.ranges = {<<0, Week>>, <<Day, Week + Day>>},
                            !.required = {Needs(1, 1, 1, 1), Needs(2, 1, 1, 2), Needs(0, 2, 2, 1)}]
Instances == {Booking, Holding, Working, Copying, Racing, Covering}

Same == Permutations(Calls)
=============================================================================
