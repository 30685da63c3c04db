------------------------------ MODULE BackgroundMC ------------------------------
(***************************************************************************)
(* The instance of Background that TLC checks.                             *)
(***************************************************************************)
EXTENDS Background, TLC

CONSTANTS ann, kim, phone, timer, admin, request, b1, b2, dishes, dinner, h1, h2, v1, v2

Ready == [d \in Devices |-> [owner |-> ann, ready |-> TRUE]]
NoPhone == [d \in Devices |-> Absent]
Waiting1(email, push) ==
    [kind |-> "test", about |-> ann, to |-> ann, email |-> email, day |-> 1,
     push |-> [d \in Devices |-> push]]
DueOn(day, state) == [c \in Chores |-> [state |-> state, who |-> kim, due |-> day]]
NoBooking == [k \in Bookings |-> 0]

Scene(w, n, d, c, k, quiet, people, callers) ==
    [work |-> w, notes |-> n, device |-> d, chore |-> c, booked |-> k, muted |-> quiet,
     people |-> people, callers |-> callers, block |-> [b \in Blocks |-> NoBlock]]
Holiday(s) == [s EXCEPT !.block[b1] = [start |-> 1, end |-> 2, defer |-> TRUE, applied |-> FALSE]]

\* A push, or an e-mail, that waits; a leaderboard.
DeliveryScenes ==
    {Scene("push", <<Waiting1("SKIPPED", "PENDING")>>, Ready, DueOn(1, "done"), NoBooking,
           {}, {"delete", "tests", "retry", "crash"}, {timer, admin}),
     Scene("mail", <<Waiting1("PENDING", "NONE")>>, NoPhone, DueOn(1, "done"), NoBooking,
           {}, {"register", "delete", "retry", "crash"}, {timer, admin}),
     Scene("board", <<>>, NoPhone, DueOn(1, "done"), NoBooking, {}, {}, {})}

\* A chore that is due; one beside a booked dinner, with two that ask for passes; a
\* holiday that starts, and others to come or crashes, the other reminders turned off; a
\* booked dinner with devices that come and go.
ReminderScenes ==
    {Scene("remind", <<>>, NoPhone, DueOn(2, "open"), NoBooking, {}, {"days", "chores"},
           {timer}),
     Scene("remind", <<>>, Ready, DueOn(2, "open"), [k \in Bookings |-> 1], {}, {"days", "crash"},
           {timer, admin}),
     Holiday(Scene("remind", <<>>, NoPhone, DueOn(2, "open"), NoBooking, Members,
                   {"days", "blocks"}, {timer})),
     Holiday(Scene("remind", <<>>, NoPhone, DueOn(2, "open"), NoBooking, Members,
                   {"days", "crash"}, {timer})),
     Scene("remind", <<>>, Ready, DueOn(1, "done"), [k \in Bookings |-> 1], {},
           {"days", "register", "delete", "mute", "crash"}, {timer})}
=================================================================================
