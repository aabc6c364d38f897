------------------------------ MODULE MCLiveQuery ------------------------------
(* Small instances of LiveQuery for TLC. *)
EXTENDS LiveQuery
CONSTANTS c1, c2, l1, l2, l3

\* Who may send each of the Subscribe requests; connections and labels are used
\* in order, which loses nothing.
Callers(first, second, third) == <<first, second, third>>

\* Two streams that come and go, over tables that are empty at first.
Churn == [callers |-> Callers({<<c1, l1>>}, {<<c1, l1>>, <<c2, l1>>}, {}),
          host_routed |-> TRUE, slots |-> 2,
          max_active |-> 2, capacity |-> 2, empty_until |-> 1, commits |-> 3,
          leaves |-> 2, errors |-> 0]
\* Three late joiners of one plan, one at a time.
Joiners == [callers |-> Callers({<<c1, l1>>}, {<<c1, l1>>, <<c1, l2>>},
                                {<<c1, l1>>, <<c1, l2>>, <<c1, l3>>}),
            host_routed |-> TRUE, slots |-> 1,
            max_active |-> 3, capacity |-> 4, empty_until |-> 0, commits |-> 2,
            leaves |-> 0, errors |-> 1]
\* A query that is not lowered.
Legacy == [callers |-> Callers({<<c1, l1>>}, {<<c1, l1>>, <<c1, l2>>}, {}),
           host_routed |-> FALSE, slots |-> 2,
           max_active |-> 2, capacity |-> 4, empty_until |-> 0, commits |-> 2,
           leaves |-> 2, errors |-> 1]
AllSetups == {Churn, Joiners, Legacy}

\* Two joiners and nothing else.
WarmSetups == {[Joiners EXCEPT !.callers = Callers({<<c1, l1>>}, {<<c1, l2>>}, {}), !.errors = 0]}
=============================================================================
