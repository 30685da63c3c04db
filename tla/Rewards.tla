-------------------------------- MODULE Rewards --------------------------------
(***************************************************************************)
(* The rewards shop of a household: children book rewards for points,      *)
(* adults approve or reject, anyone entitled moves a booking to another    *)
(* date, admins and the operator change the catalogue meanwhile.           *)
(*                                                                         *)
(* A booking is a RewardRedemption row.  Every statement is a step, a      *)
(* transaction is one step from its first write on, and what a call read   *)
(* stays in its record.  A read that only finds out what never changes     *)
(* (who made a booking, who manages a reward) is joined to the next step.  *)
(***************************************************************************)
EXTENDS Integers, FiniteSetsExt

CONSTANTS
    Members,        \* members of the household
    Adults,         \* those with the role ADMIN or PARENT; only the others redeem
    Rewards,        \* pool of Reward rows
    Bookings,       \* pool of RewardRedemption rows
    Dates,          \* target dates that may be chosen
    Forms,          \* what may be saved as a reward: price, limit, exclusive
    Approvals,      \* values of requireRewardApproval in the household settings
    Requests,       \* one-shot HTTP calls
    Ops,            \* operations that this instance may call
    Shops,          \* the stored shops a run may start from
    None            \* SQL NULL

OpNames == {"redeem", "approve", "reject", "move", "create", "update", "toggle",
            "delete", "import"}
Places == {"idle", "reward", "limit", "date", "book", "conflict", "write", "done"}
Statuses == {"ABSENT", "PENDING", "APPROVED", "REJECTED", "CANCELLED", "DELETED"}
Maybe(S) == S \cup {None}

\* limit is maxRedemptionsPerChild, 0 when there is none.
Form == [price: Nat \ {0}, limit: Nat, exclusive: BOOLEAN]
Shelf == {"ABSENT", "OFF", "ON", "DELETED"}
Reward == [status: Shelf, form: Forms, managed: BOOLEAN]

\* cost is pointsDeducted.  DELETED is history: the row is gone; ids are not reused.
Booking == [status: Statuses, reward: Maybe(Rewards), by: Maybe(Members),
            cost: Nat, date: Maybe(Dates)]
NoBooking == [status |-> "ABSENT", reward |-> None, by |-> None, cost |-> 0, date |-> None]
Live == {"PENDING", "APPROVED"}

\* A PointsLedgerEntry; by and booking are history: who wrote it, and for what.
Entry == [by: Maybe(Requests), booking: Maybe(Bookings), user: Members, amount: Int]

\* row and seen are the reward and the booking as the call has read them.
Call == [op: Maybe(OpNames), at: Places, actor: Maybe(Members), reward: Maybe(Rewards),
         booking: Maybe(Bookings), date: Maybe(Dates), row: Maybe(Reward),
         seen: Booking, bal: Int]
Idle == [op |-> None, at |-> "idle", actor |-> None, reward |-> None, booking |-> None,
         date |-> None, row |-> None, seen |-> NoBooking, bal |-> 0]
Returned == [Idle EXCEPT !.at = "done"]

\* A stored shop, as the first requests leave it: some bookings wait for a decision.
Shop == {s \in [reward: [Rewards -> Reward], booking: [Bookings -> Booking],
                points: [Members -> Nat]] :
            \A b \in Bookings :
                \/ s.booking[b] = NoBooking
                \/ /\ s.booking[b].status = "PENDING" /\ s.booking[b].by \in Members
                   /\ s.booking[b].reward \in Rewards}

ASSUME MemberAssumption == Adults \subseteq Members
ASSUME FormAssumption == Forms \subseteq Form
ASSUME ApprovalAssumption == Approvals \subseteq BOOLEAN
ASSUME RewardOpsAssumption == Ops \subseteq OpNames
ASSUME NullAssumption ==
    /\ None \notin Members \cup Rewards \cup Bookings \cup Dates \cup Requests \cup OpNames
    /\ None \notin Reward
ASSUME ShopAssumption == Shops \subseteq Shop

VARIABLES
    reward,     \* Reward rows
    booking,    \* RewardRedemption rows
    points,     \* User.points
    ledger,     \* PointsLedgerEntry rows
    call,       \* the calls in progress
    stale       \* history: bookings decided by a call that had read an old status

rows == <<reward, booking, points, ledger, stale>>
vars == <<reward, booking, points, ledger, stale, call>>

TypeOK ==
    /\ reward \in [Rewards -> Reward]
    /\ booking \in [Bookings -> Booking]
    /\ points \in [Members -> Int]
    /\ ledger \subseteq Entry
    /\ call \in [Requests -> Call]
    /\ stale \subseteq Bookings

Paid(r, b, u, n) == [by |-> r, booking |-> b, user |-> u, amount |-> n]

\* The ledger starts with what each member has.
Init ==
    /\ \E s \in Shops :
        /\ reward = s.reward /\ booking = s.booking /\ points = s.points
        /\ ledger = {Paid(None, None, u, s.points[u]) : u \in Members}
    /\ call = [r \in Requests |-> Idle]
    /\ stale = {}

-----------------------------------------------------------------------------
(* Rows.                                                                     *)

Existing == {b \in Bookings : booking[b].status \notin {"ABSENT", "DELETED"}}
OnShelf == {w \in Rewards : reward[w].status \in {"OFF", "ON"}}

\* A new id, as long as the pool has one (bound: Bookings).
Room == \E b \in Bookings : booking[b].status = "ABSENT"
FreshBooking == CHOOSE b \in Bookings : booking[b].status = "ABSENT"

\* The approved bookings of reward w for date d, and those of member u.
Booked(w, d) == {b \in Bookings : /\ booking[b].status = "APPROVED"
                                  /\ booking[b].reward = w /\ booking[b].date = d}
Redeemed(w, u) == {b \in Bookings : /\ booking[b].status = "APPROVED"
                                    /\ booking[b].reward = w /\ booking[b].by = u}

Becomes(r, rec) == call' = [call EXCEPT ![r] = rec]
Go(r, place) == Becomes(r, [call[r] EXCEPT !.at = place])
Return(r) == Becomes(r, Returned)
At(r, ops, place) == call[r].op \in ops /\ call[r].at = place
MayBegin(r, op) == op \in Ops /\ call[r].at = "idle"

\* A check refuses, a statement throws or the server stops: nothing was written yet.
GiveUp(r) ==
    /\ call[r].at \notin {"idle", "done"}
    /\ Return(r)
    /\ UNCHANGED rows

-----------------------------------------------------------------------------
(* Redeeming.                                                                *)

\* The guard of the route loads the member, balance included.
Authenticate(r) ==
    /\ MayBegin(r, "redeem")
    /\ \E u \in Members \ Adults, w \in Rewards :
        Becomes(r, [Idle EXCEPT !.op = "redeem", !.at = "reward", !.actor = u,
                                !.reward = w, !.bal = points[u]])
    /\ UNCHANGED rows

\* Which check comes after the price, and which after the limit.
AfterLimit(f) == IF f.exclusive THEN "date" ELSE "book"
AfterPrice(f) == IF f.limit # 0 THEN "limit" ELSE AfterLimit(f)

\* The reward must be on offer and within the balance; a date comes with the
\* request if the reward is exclusive.
ReadReward(r) ==
    LET w == call[r].reward
    IN  /\ At(r, {"redeem"}, "reward")
        /\ reward[w].status = "ON"
        /\ call[r].bal >= reward[w].form.price
        /\ \E d \in IF reward[w].form.exclusive THEN Dates ELSE {None} :
            Becomes(r, [call[r] EXCEPT !.at = AfterPrice(reward[w].form),
                                       !.row = reward[w], !.date = d])
        /\ UNCHANGED rows

\* The limit counts approved bookings only.  (The cooldown may refuse as well.)
CheckLimit(r) ==
    /\ At(r, {"redeem"}, "limit")
    /\ Cardinality(Redeemed(call[r].reward, call[r].actor)) < call[r].row.form.limit
    /\ Go(r, AfterLimit(call[r].row.form))
    /\ UNCHANGED rows

CheckDate(r) ==
    /\ At(r, {"redeem"}, "date")
    /\ Booked(call[r].reward, call[r].date) = {}
    /\ Go(r, "book")
    /\ UNCHANGED rows

\* The booking waits for an adult, or is approved and charged at once.  The
\* foreign key refuses it when the reward is gone.
Book(r) ==
    LET b == FreshBooking
        u == call[r].actor
        n == call[r].row.form.price
    IN  /\ At(r, {"redeem"}, "book")
        /\ call[r].reward \in OnShelf /\ Room
        /\ \E ask \in Approvals :
            /\ booking' = [booking EXCEPT ![b] =
                   [status |-> IF ask THEN "PENDING" ELSE "APPROVED",
                    reward |-> call[r].reward, by |-> u, cost |-> n,
                    date |-> call[r].date]]
            /\ points' = IF ask THEN points ELSE [points EXCEPT ![u] = @ - n]
            /\ ledger' = IF ask THEN ledger ELSE ledger \cup {Paid(r, b, u, -n)}
        /\ Return(r)
        /\ UNCHANGED <<reward, stale>>

-----------------------------------------------------------------------------
(* Deciding and moving.  Both act on the booking as they have read it.       *)

Read(r, op, u, b, place) ==
    [Idle EXCEPT !.op = op, !.at = place, !.actor = u, !.booking = b, !.seen = booking[b]]

ReadPending(r) ==
    /\ \E op \in {"approve", "reject"}, u \in Adults, b \in Existing :
        /\ MayBegin(r, op)
        /\ booking[b].status = "PENDING"
        /\ Becomes(r, Read(r, op, u, b, "write"))
    /\ UNCHANGED rows

\* The member's points go, or come back, with an entry, at the cost that was read.
\* (AtCurrentPrice, AtCurrentRefund: as if the catalogue's price were taken.)
AtCurrentPrice(r) == Paid(r, call[r].booking, call[r].seen.by,
                          -reward[call[r].seen.reward].form.price)
Charge(r) == Paid(r, call[r].booking, call[r].seen.by, -call[r].seen.cost)
AtCurrentRefund(r) == Paid(r, call[r].booking, call[r].seen.by,
                           reward[call[r].seen.reward].form.price)
Refund(r) == Paid(r, call[r].booking, call[r].seen.by, call[r].seen.cost)
Transfer(u, n) == points' = [points EXCEPT ![u] = @ + n]

\* A decision: the row is still there, but its status may differ from the one read.
Decides(r) ==
    /\ call[r].booking \in Existing
    /\ stale' = IF booking[call[r].booking].status = call[r].seen.status THEN stale
                ELSE stale \cup {call[r].booking}

Approve(r) ==
    /\ At(r, {"approve"}, "write") /\ Decides(r)
    /\ booking' = [booking EXCEPT ![call[r].booking].status = "APPROVED"]
    /\ Transfer(call[r].seen.by, -call[r].seen.cost)
    /\ ledger' = ledger \cup {Charge(r)}
    /\ Return(r)
    /\ UNCHANGED reward

Reject(r) ==
    /\ At(r, {"reject"}, "write") /\ Decides(r)
    /\ booking' = [booking EXCEPT ![call[r].booking].status = "REJECTED"]
    /\ Return(r)
    /\ UNCHANGED <<reward, points, ledger>>

\* The member who made the booking, or an adult, asks for another date.
ReadBooking(r) ==
    /\ MayBegin(r, "move")
    /\ \E b \in Existing, d \in Dates, u \in Members :
        /\ u = booking[b].by \/ u \in Adults
        /\ Becomes(r, [Read(r, "move", u, b, "conflict") EXCEPT !.date = d])
    /\ UNCHANGED rows

\* One approved booking of that date is looked up; it may be this booking itself.
CheckConflict(r) ==
    LET others == Booked(call[r].seen.reward, call[r].date)
    IN  /\ At(r, {"move"}, "conflict")
        /\ others = {} \/ call[r].booking \in others
        /\ call[r].seen.status \in Live
        /\ Go(r, "write")
        /\ UNCHANGED rows

\* Only the date is written, whatever has become of the status.
MovePending(r) ==
    /\ At(r, {"move"}, "write") /\ call[r].booking \in Existing
    /\ call[r].seen.status = "PENDING"
    /\ booking' = [booking EXCEPT ![call[r].booking].date = call[r].date]
    /\ Return(r)
    /\ UNCHANGED <<reward, points, ledger, stale>>

\* An approved booking is cancelled and refunded; a new one waits for approval.
\* (RefundRebooked: as if the new row noted the refund.)
RefundRebooked(r) == [call[r].seen EXCEPT !.status = "PENDING", !.date = call[r].date,
                                          !.cost = -call[r].seen.cost]
Rebooked(r) == [call[r].seen EXCEPT !.status = "PENDING", !.date = call[r].date]
MoveApproved(r) ==
    /\ At(r, {"move"}, "write") /\ Decides(r)
    /\ call[r].seen.status = "APPROVED" /\ Room
    /\ booking' = [booking EXCEPT ![call[r].booking].status = "CANCELLED",
                                  ![FreshBooking] = Rebooked(r)]
    /\ Transfer(call[r].seen.by, call[r].seen.cost)
    /\ ledger' = ledger \cup {Refund(r)}
    /\ Return(r)
    /\ UNCHANGED reward

-----------------------------------------------------------------------------
(* The catalogue.                                                            *)

Added(f, managed) == [status |-> "OFF", form |-> f, managed |-> managed]
Own(w) == w \in OnShelf /\ ~reward[w].managed

\* A new row, as long as the pool has one (bound: Rewards).
Add(f, managed) ==
    \E w \in Rewards : /\ reward[w].status = "ABSENT"
                       /\ reward' = [reward EXCEPT ![w] = Added(f, managed)]

\* An admin's reward, or one of the starter catalogue, starts disabled.
CreateReward(r) ==
    /\ MayBegin(r, "create")
    /\ \E f \in Forms : Add(f, FALSE)
    /\ Return(r)
    /\ UNCHANGED <<booking, points, ledger, stale>>

UpdateReward(r) ==
    /\ MayBegin(r, "update")
    /\ \E w \in Rewards, f \in Forms :
        /\ Own(w)
        /\ reward' = [reward EXCEPT ![w].form = f]
    /\ Return(r)
    /\ UNCHANGED <<booking, points, ledger, stale>>

ReadToggle(r) ==
    /\ MayBegin(r, "toggle")
    /\ \E w \in Rewards :
        /\ w \in OnShelf
        /\ Becomes(r, [Idle EXCEPT !.op = "toggle", !.at = "write", !.reward = w,
                                   !.row = reward[w]])
    /\ UNCHANGED rows

\* The opposite of what was read is written.
Toggle(r) ==
    LET w == call[r].reward
    IN  /\ At(r, {"toggle"}, "write")
        /\ w \in OnShelf
        /\ reward' = [reward EXCEPT ![w].status =
                         IF call[r].row.status = "ON" THEN "OFF" ELSE "ON"]
        /\ Return(r)
        /\ UNCHANGED <<booking, points, ledger, stale>>

\* The bookings of a deleted reward go with it; nothing is refunded.
DeleteReward(r) ==
    /\ MayBegin(r, "delete")
    /\ \E w \in Rewards :
        /\ Own(w)
        /\ reward' = [reward EXCEPT ![w].status = "DELETED"]
        /\ booking' = [b \in Bookings |->
               IF b \in Existing /\ booking[b].reward = w
               THEN [booking[b] EXCEPT !.status = "DELETED"] ELSE booking[b]]
    /\ Return(r)
    /\ UNCHANGED <<points, ledger, stale>>

\* The operator's import overwrites a reward of its own or adds it, disabled.
\* It leaves the workflow of a reward alone.
Import(r) ==
    /\ MayBegin(r, "import")
    /\ \E f \in Forms :
        \/ \E w \in Rewards :
            /\ w \in OnShelf /\ reward[w].managed
            /\ f.exclusive = reward[w].form.exclusive
            /\ reward' = [reward EXCEPT ![w].form = f]
        \/ ~f.exclusive /\ Add(f, TRUE)
    /\ Return(r)
    /\ UNCHANGED <<booking, points, ledger, stale>>

-----------------------------------------------------------------------------
Redeem(r) == Authenticate(r) \/ ReadReward(r) \/ CheckLimit(r) \/ CheckDate(r) \/ Book(r)
Decide(r) == ReadPending(r) \/ Approve(r) \/ Reject(r)
Reschedule(r) == ReadBooking(r) \/ CheckConflict(r) \/ MovePending(r) \/ MoveApproved(r)
Catalogue(r) == CreateReward(r) \/ UpdateReward(r) \/ ReadToggle(r) \/ Toggle(r)
                \/ DeleteReward(r) \/ Import(r)

\* Every call has returned or never comes.
Quiet == (\A r \in Requests : call[r].at \in {"idle", "done"}) /\ UNCHANGED vars

Next ==
    \/ \E r \in Requests :
          Redeem(r) \/ Decide(r) \/ Reschedule(r) \/ Catalogue(r) \/ GiveUp(r)
    \/ Quiet

Spec == Init /\ [][Next]_vars

-----------------------------------------------------------------------------
Of(b) == {e \in ledger : e.booking = b}
IsCharge(e, b) == e.user = booking[b].by /\ e.amount = -booking[b].cost
IsRefund(e, b) == e.user = booking[b].by /\ e.amount = booking[b].cost

\* A member pays for a booking exactly the cost it was made for, whatever the
\* catalogue has become: an approved booking has one charge, a cancelled one its
\* charge and the refund of the same points, any other none.  Bookings that two
\* overlapping calls decided (stale) are excepted: the later one acted on a
\* status that was no longer true.
PaidExactly ==
    \A b \in Existing \ stale :
        /\ booking[b].status = "APPROVED" => \E e \in Of(b) : IsCharge(e, b) /\ Of(b) = {e}
        /\ booking[b].status = "CANCELLED" =>
               \E d, e \in Of(b) : IsCharge(d, b) /\ IsRefund(e, b) /\ Of(b) = {d, e}
        /\ booking[b].status \in {"PENDING", "REJECTED"} => Of(b) = {}

\* Whatever calls overlap, stale or not, a balance is what the ledger says: no charge
\* and no refund of a booking is lost, doubled or recorded with other points.
LedgerAgrees ==
    \A u \in Members :
        points[u] = MapThenSumSet(LAMBDA e : e.amount, {e \in ledger : e.user = u})

\* "If any other booking (status PENDING or APPROVED) already exists for the same
\* reward on the chosen date, the server returns 400": no step puts a booking on
\* a date where another live one is.
DateConflictGuard ==
    [][\A a \in Bookings :
          LET new == booking'[a]
          IN  new.status \in Live /\ new.date \in Dates /\ new.date # booking[a].date =>
              \A b \in Existing \ {a} :
                  booking[b].status \in Live =>
                  booking[b].reward # new.reward \/ booking[b].date # new.date]_vars
=============================================================================
