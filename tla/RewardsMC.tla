------------------------------- MODULE RewardsMC -------------------------------
(***************************************************************************)
(* Small shops for TLC.                                                    *)
(***************************************************************************)
EXTENDS Rewards, TLC

CONSTANTS ann, kim, tom,        \* a parent and two children
          w1, w2, b1, b2, b3, b4, b5, d1, d2, r1, r2, r3

Treat(n) == [price |-> n, limit |-> 1, exclusive |-> FALSE]
Dinner(n) == [price |-> n, limit |-> 0, exclusive |-> TRUE]
Menu == {Dinner(1), Dinner(2), Treat(1)}
Dinners == {Dinner(1)}

Waiting(w, u, n, d) == [status |-> "PENDING", reward |-> w, by |-> u, cost |-> n, date |-> d]
Stocked(w, f, managed) == [status |-> "ON", form |-> f, managed |-> managed]
Gone == [Stocked(w1, CHOOSE f \in Forms : TRUE, FALSE) EXCEPT !.status = "ABSENT"]
Stored(rewards, bookings) ==
    [reward |-> [w \in Rewards |-> IF w \in DOMAIN rewards THEN rewards[w] ELSE Gone],
     booking |-> [b \in Bookings |-> IF b \in DOMAIN bookings THEN bookings[b] ELSE NoBooking],
     points |-> [u \in Members |-> IF u \in Adults THEN 0 ELSE 2]]

\* A dinner to choose, of the household or of the operator, booked once already;
\* or a treat that each child may have once.
Starts ==
    {Stored([w \in {w1} |-> Stocked(w, Dinner(1), m)],
            [b \in {b1} |-> Waiting(w1, kim, 1, d1)]) : m \in BOOLEAN}
    \cup {Stored([w \in {w1} |-> Stocked(w, Treat(1), FALSE)],
                 [b \in {b1} |-> Waiting(w1, kim, 1, None)])}
OneDinner == {Stored([w \in {w1} |-> Stocked(w, Dinner(1), FALSE)],
                     [b \in {b1} |-> Waiting(w1, kim, 1, d1)])}

\* Which call is which makes no difference.
Alike == Permutations(Requests)
=============================================================================
