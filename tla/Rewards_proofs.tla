----------------------------- MODULE Rewards_proofs -----------------------------
(***************************************************************************)
(* Type correctness of the rewards shop, and that members pay exactly.     *)
(***************************************************************************)
EXTENDS Rewards, Sums

\* A booking that was ever made has a member and a reward.
Made(x) == x.status # "ABSENT" => x.by \in Members /\ x.reward \in Rewards

\* What a call at a place knows.
Fit(c) ==
    /\ c.at \in {"reward", "limit", "date", "book"} =>
           c.actor \in Members /\ c.reward \in Rewards
    /\ c.at \in {"limit", "date", "book"} => c.row \in Reward
    /\ c.at \in {"conflict", "write"} /\ c.op # "toggle" =>
           c.booking \in Bookings /\ c.seen.status # "ABSENT" /\ Made(c.seen)
    /\ c.at \in {"conflict", "write"} /\ c.op = "move" => c.date \in Dates
    /\ c.at = "write" /\ c.op = "toggle" => c.reward \in Rewards

AllMade == \A b \in Bookings : Made(booking[b])
AllFit == \A r \in Requests : Fit(call[r])

\* TypeOK is inductive with this: the statements of a call rely on what it read.
TypeInv == TypeOK /\ AllMade /\ AllFit

\* A call whose record becomes x, while everything else that AllFit says stays.
LEMMA Fitting ==
    ASSUME TypeInv, NEW r \in Requests, NEW x \in Call, Becomes(r, x), Fit(x)
    PROVE  call' \in [Requests -> Call] /\ AllFit'
<1>1. call' = [call EXCEPT ![r] = x] /\ call \in [Requests -> Call]
  BY DEF Becomes, TypeInv, TypeOK
<1>2. call' \in [Requests -> Call]
  BY <1>1
<1>3. ASSUME NEW s \in Requests PROVE Fit(call'[s])
  <2>1. CASE s = r
    BY <1>1, <2>1
  <2>2. CASE s # r
    BY <1>1, <2>2 DEF TypeInv, AllFit
  <2>. QED BY <2>1, <2>2
<1>4. AllFit'
  BY <1>3 DEF AllFit, Fit, Made
<1>. QED BY <1>2, <1>4

LEMMA BlankTypes == Idle \in Call /\ Returned \in Call /\ Fit(Returned) /\ NoBooking \in Booking
BY DEF Idle, Returned, Call, NoBooking, Booking, Statuses, Places, Maybe, Fit, Made

LEMMA Returning ==
    ASSUME TypeInv, NEW r \in Requests, Return(r)
    PROVE  call' \in [Requests -> Call] /\ AllFit'
BY Fitting, BlankTypes DEF Return

LEMMA Freshness == Room => FreshBooking \in Bookings /\ booking[FreshBooking].status = "ABSENT"
BY DEF Room, FreshBooking

\* A step that leaves the rows alone and gives its call a fitting record.
LEMMA Reading ==
    ASSUME TypeInv, NEW r \in Requests, UNCHANGED rows,
           NEW x \in Call, Becomes(r, x), Fit(x)
    PROVE  TypeInv'
BY Fitting DEF TypeInv, TypeOK, AllMade, Made, rows

LEMMA InitRewards == Init => TypeInv
<1>. SUFFICES ASSUME Init PROVE TypeInv
  OBVIOUS
<1>1. PICK s \in Shops : /\ reward = s.reward /\ booking = s.booking /\ points = s.points
                        /\ ledger = {Paid(None, None, u, s.points[u]) : u \in Members}
  BY DEF Init
<1>2. s \in Shop
  BY ShopAssumption
<1>3. /\ reward \in [Rewards -> Reward] /\ booking \in [Bookings -> Booking]
      /\ points \in [Members -> Int]
  BY <1>1, <1>2 DEF Shop
<1>4. AllMade
  BY <1>1, <1>2 DEF Shop, AllMade, Made, NoBooking
<1>5. ledger \subseteq Entry
  BY <1>1, <1>2 DEF Shop, Paid, Entry, Maybe
<1>6. call \in [Requests -> Call] /\ stale \subseteq Bookings
  BY BlankTypes DEF Init
<1>7. AllFit
  BY DEF Init, AllFit, Fit, Idle
<1>. QED BY <1>3, <1>4, <1>5, <1>6, <1>7 DEF TypeInv, TypeOK

LEMMA RedeemTypes ==
    ASSUME TypeInv, NEW r \in Requests, Redeem(r)
    PROVE  TypeInv'
<1>0. /\ call[r] \in Call /\ Fit(call[r]) /\ reward \in [Rewards -> Reward]
      /\ points \in [Members -> Int]
  BY DEF TypeInv, TypeOK, AllFit
<1>1. CASE Authenticate(r)
  <2>1. PICK u \in Members \ Adults, w \in Rewards :
          Becomes(r, [Idle EXCEPT !.op = "redeem", !.at = "reward", !.actor = u,
                                  !.reward = w, !.bal = points[u]])
    BY <1>1 DEF Authenticate
  <2>. DEFINE x == [Idle EXCEPT !.op = "redeem", !.at = "reward", !.actor = u,
                                !.reward = w, !.bal = points[u]]
  <2>2. Idle \in Call /\ points[u] \in Int
    BY <1>0, BlankTypes
  <2>. HIDE DEF x
  <2>3. x.at = "reward" /\ x.op = "redeem" /\ x.actor \in Members /\ x.reward \in Rewards
    BY <2>2 DEF x, Call
  <2>4. Fit(x)
    BY <2>3 DEF Fit
  <2>5. x \in Call
    BY <2>2 DEF x, Call, OpNames, Places, Maybe
  <2>. QED BY <1>1, <2>1, <2>4, <2>5, Reading DEF Authenticate, x
<1>2. CASE ReadReward(r)
  <2>1. PICK d \in Maybe(Dates) :
          Becomes(r, [call[r] EXCEPT !.at = AfterPrice(reward[call[r].reward].form),
                                     !.row = reward[call[r].reward], !.date = d])
    BY <1>2 DEF ReadReward, Maybe
  <2>. DEFINE x == [call[r] EXCEPT !.at = AfterPrice(reward[call[r].reward].form),
                                   !.row = reward[call[r].reward], !.date = d]
  <2>2. call[r].reward \in Rewards /\ call[r].actor \in Members
    BY <1>0, <1>2 DEF ReadReward, At, Fit
  <2>3. AfterPrice(reward[call[r].reward].form) \in {"limit", "date", "book"}
    BY DEF AfterPrice, AfterLimit
  <2>4. call[r].op = "redeem" /\ reward[call[r].reward] \in Reward
    BY <1>0, <1>2, <2>2 DEF ReadReward, At
  <2>. HIDE DEF x
  <2>5. /\ x.at \in {"limit", "date", "book"} /\ x.op = "redeem"
        /\ x.actor \in Members /\ x.reward \in Rewards /\ x.row \in Reward
    BY <1>0, <2>2, <2>3, <2>4 DEF x, Call
  <2>6. Fit(x)
    BY <2>5 DEF Fit
  <2>7. x \in Call
    BY <1>0, <2>3, <2>4 DEF x, Call, Places, Maybe
  <2>. QED BY <1>2, <2>1, <2>6, <2>7, Reading DEF ReadReward, x
<1>3. CASE CheckLimit(r)
  <2>. DEFINE x == [call[r] EXCEPT !.at = AfterLimit(call[r].row.form)]
  <2>1. AfterLimit(call[r].row.form) \in {"date", "book"}
    BY DEF AfterLimit
  <2>2. x \in Call /\ Fit(x)
    BY <1>0, <1>3, <2>1 DEF CheckLimit, At, Call, Places, Fit
  <2>. QED BY <1>3, <2>2, Reading DEF CheckLimit, Go
<1>4. CASE CheckDate(r)
  <2>. DEFINE x == [call[r] EXCEPT !.at = "book"]
  <2>2. x \in Call /\ Fit(x)
    BY <1>0, <1>4 DEF CheckDate, At, Call, Places, Fit
  <2>. QED BY <1>4, <2>2, Reading DEF CheckDate, Go
<1>5. CASE Book(r)
  <2>. DEFINE b == FreshBooking
              u == call[r].actor
              n == call[r].row.form.price
  <2>1. u \in Members /\ call[r].reward \in Rewards /\ call[r].row \in Reward
        /\ call[r].date \in Maybe(Dates)
    BY <1>0, <1>5 DEF Book, At, Fit, Call
  <2>2. n \in Nat
    BY <2>1, FormAssumption DEF Reward, Form
  <2>3. PICK ask \in Approvals :
          /\ booking' = [booking EXCEPT ![b] =
                 [status |-> IF ask THEN "PENDING" ELSE "APPROVED",
                  reward |-> call[r].reward, by |-> u, cost |-> n, date |-> call[r].date]]
          /\ points' = IF ask THEN points ELSE [points EXCEPT ![u] = @ - n]
          /\ ledger' = IF ask THEN ledger ELSE ledger \cup {Paid(r, b, u, -n)}
    BY <1>5 DEF Book
  <2>4. b \in Bookings
    BY <1>5, Freshness DEF Book
  <2>. HIDE DEF b, u, n
  <2>5. booking' \in [Bookings -> Booking] /\ AllMade'
    BY <2>1, <2>2, <2>3, <2>4 DEF TypeInv, TypeOK, AllMade, Made, Booking, Statuses, Maybe
  <2>6. points' \in [Members -> Int]
    <3>1. CASE ask
      BY <1>0, <2>3, <3>1
    <3>2. CASE ~ask
      <4>1. points' = [points EXCEPT ![u] = points[u] - n]
        BY <2>3, <3>2
      <4>. QED BY <1>0, <2>1, <2>2, <4>1
    <3>. QED BY <3>1, <3>2
  <2>7. Paid(r, b, u, -n) \in Entry
    BY <2>1, <2>2, <2>4 DEF Paid, Entry, Maybe
  <2>8. ledger' \subseteq Entry
    BY <2>3, <2>7 DEF TypeInv, TypeOK
  <2>. QED BY <1>5, <2>5, <2>6, <2>8, Returning DEF Book, TypeInv, TypeOK
<1>. QED BY <1>1, <1>2, <1>3, <1>4, <1>5 DEF Redeem

LEMMA Transferring ==
    ASSUME TypeInv, NEW u \in Members, NEW n \in Int, Transfer(u, n)
    PROVE  points' \in [Members -> Int]
BY DEF TypeInv, TypeOK, Transfer

LEMMA Rewriting ==
    ASSUME TypeInv, NEW b \in Bookings, NEW x \in Booking, Made(x),
           booking' = [booking EXCEPT ![b] = x]
    PROVE  booking' \in [Bookings -> Booking] /\ AllMade'
BY DEF TypeInv, TypeOK, AllMade, Made

\* What a deciding or moving call knows at its write.
LEMMA Writing ==
    ASSUME TypeInv, NEW r \in Requests, call[r].at \in {"conflict", "write"},
           call[r].op # "toggle"
    PROVE  /\ call[r] \in Call /\ call[r].booking \in Bookings
           /\ call[r].seen \in Booking /\ Made(call[r].seen)
           /\ call[r].seen.by \in Members /\ call[r].seen.cost \in Nat
           /\ Charge(r) \in Entry /\ Refund(r) \in Entry
<1>1. call[r] \in Call /\ call[r].booking \in Bookings /\ call[r].seen.status # "ABSENT"
      /\ Made(call[r].seen)
  BY DEF TypeInv, TypeOK, AllFit, Fit
<1>2. call[r].seen \in Booking
  BY <1>1 DEF Call
<1>3. call[r].seen.by \in Members /\ call[r].seen.cost \in Nat
  BY <1>1, <1>2 DEF Made, Booking
<1>4. Charge(r) \in Entry /\ Refund(r) \in Entry
  BY <1>1, <1>3 DEF Charge, Refund, Paid, Entry, Maybe
<1>. QED BY <1>1, <1>2, <1>3, <1>4

\* The record of a call that has read booking b.
LEMMA ReadTypes ==
    ASSUME TypeInv, NEW r \in Requests, NEW op \in OpNames, NEW u \in Members,
           NEW b \in Existing, NEW place \in Places, NEW x, x = Read(r, op, u, b, place)
    PROVE  /\ x \in Call /\ x.op = op /\ x.at = place /\ x.booking \in Bookings
           /\ x.seen = booking[b] /\ x.seen.status # "ABSENT" /\ Made(x.seen)
<1>1. b \in Bookings /\ booking[b] \in Booking /\ booking[b].status # "ABSENT"
      /\ Made(booking[b])
  BY DEF Existing, TypeInv, TypeOK, AllMade
<1>2. x \in Call /\ x.op = op /\ x.at = place /\ x.booking = b /\ x.seen = booking[b]
  BY <1>1, BlankTypes DEF Read, Call, Maybe
<1>. QED BY <1>1, <1>2

LEMMA DecideTypes ==
    ASSUME TypeInv, NEW r \in Requests, Decide(r)
    PROVE  TypeInv'
<1>1. CASE ReadPending(r)
  <2>1. PICK op \in {"approve", "reject"}, u \in Adults, b \in Existing :
          Becomes(r, Read(r, op, u, b, "write"))
    BY <1>1 DEF ReadPending
  <2>2. u \in Members /\ op \in OpNames /\ "write" \in Places
    BY MemberAssumption DEF OpNames, Places
  <2>. DEFINE x == Read(r, op, u, b, "write")
  <2>. HIDE DEF x
  <2>3. /\ x \in Call /\ x.op = op /\ x.at = "write" /\ x.booking \in Bookings
        /\ x.seen.status # "ABSENT" /\ Made(x.seen)
    BY <2>2, ReadTypes DEF x
  <2>4. Fit(x)
    BY <2>3 DEF Fit
  <2>. QED BY <1>1, <2>1, <2>3, <2>4, Reading DEF ReadPending, x
<1>2. CASE Approve(r)
  <2>. DEFINE b == call[r].booking
              y == [booking[b] EXCEPT !.status = "APPROVED"]
  <2>1. /\ b \in Bookings /\ booking[b] \in Booking /\ Made(booking[b])
        /\ booking[b].status # "ABSENT"
        /\ call[r].seen.by \in Members /\ -call[r].seen.cost \in Int /\ Charge(r) \in Entry
    BY <1>2, Writing DEF Approve, At, Decides, Existing, TypeInv, TypeOK, AllMade
  <2>2. y \in Booking /\ Made(y)
    BY <2>1 DEF Booking, Statuses, Made
  <2>3. booking' = [booking EXCEPT ![b] = y]
    BY <1>2 DEF Approve
  <2>4. booking' \in [Bookings -> Booking] /\ AllMade'
    BY <2>1, <2>2, <2>3, Rewriting
  <2>5. points' \in [Members -> Int]
    BY <1>2, <2>1, Transferring DEF Approve
  <2>6. ledger' \subseteq Entry /\ stale' \subseteq Bookings
    BY <1>2, <2>1 DEF Approve, Decides, TypeInv, TypeOK
  <2>. QED BY <1>2, <2>4, <2>5, <2>6, Returning DEF Approve, TypeInv, TypeOK
<1>3. CASE Reject(r)
  <2>. DEFINE b == call[r].booking
              y == [booking[b] EXCEPT !.status = "REJECTED"]
  <2>1. /\ b \in Bookings /\ booking[b] \in Booking /\ Made(booking[b])
        /\ booking[b].status # "ABSENT"
    BY <1>3, Writing DEF Reject, At, Decides, Existing, TypeInv, TypeOK, AllMade
  <2>2. y \in Booking /\ Made(y)
    BY <2>1 DEF Booking, Statuses, Made
  <2>3. booking' = [booking EXCEPT ![b] = y]
    BY <1>3 DEF Reject
  <2>4. booking' \in [Bookings -> Booking] /\ AllMade'
    BY <2>1, <2>2, <2>3, Rewriting
  <2>5. stale' \subseteq Bookings
    BY <1>3, <2>1 DEF Reject, Decides, TypeInv, TypeOK
  <2>. QED BY <1>3, <2>4, <2>5, Returning DEF Reject, TypeInv, TypeOK
<1>. QED BY <1>1, <1>2, <1>3 DEF Decide

LEMMA RescheduleTypes ==
    ASSUME TypeInv, NEW r \in Requests, Reschedule(r)
    PROVE  TypeInv'
<1>1. CASE ReadBooking(r)
  <2>1. PICK b \in Existing, d \in Dates, u \in Members :
          Becomes(r, [Read(r, "move", u, b, "conflict") EXCEPT !.date = d])
    BY <1>1 DEF ReadBooking
  <2>2. "move" \in OpNames /\ "conflict" \in Places
    BY DEF OpNames, Places
  <2>. DEFINE x == Read(r, "move", u, b, "conflict")
              y == [x EXCEPT !.date = d]
  <2>. HIDE DEF x
  <2>3. /\ x \in Call /\ x.op = "move" /\ x.at = "conflict" /\ x.booking \in Bookings
        /\ x.seen.status # "ABSENT" /\ Made(x.seen)
    BY <2>2, ReadTypes DEF x
  <2>4. /\ y \in Call /\ y.op = "move" /\ y.at = "conflict" /\ y.booking \in Bookings
        /\ y.seen = x.seen /\ y.date \in Dates
    BY <2>3 DEF Call, Maybe
  <2>. HIDE DEF y
  <2>5. Fit(y)
    BY <2>3, <2>4 DEF Fit
  <2>. QED BY <1>1, <2>1, <2>4, <2>5, Reading DEF ReadBooking, x, y
<1>2. CASE CheckConflict(r)
  <2>. DEFINE x == [call[r] EXCEPT !.at = "write"]
  <2>1. call[r].op = "move" /\ call[r].at = "conflict" /\ call[r] \in Call /\ Fit(call[r])
    BY <1>2 DEF CheckConflict, At, TypeInv, TypeOK, AllFit
  <2>2. x \in Call /\ Fit(x)
    BY <2>1 DEF Call, Places, Fit
  <2>. QED BY <1>2, <2>2, Reading DEF CheckConflict, Go
<1>3. CASE MovePending(r)
  <2>. DEFINE b == call[r].booking
              y == [booking[b] EXCEPT !.date = call[r].date]
  <2>1. b \in Bookings /\ booking[b] \in Booking /\ Made(booking[b])
        /\ call[r].date \in Maybe(Dates)
    BY <1>3, Writing DEF MovePending, At, Existing, TypeInv, TypeOK, AllMade, Call
  <2>2. y \in Booking /\ Made(y)
    BY <2>1 DEF Booking, Made
  <2>3. booking' = [booking EXCEPT ![b] = y]
    BY <1>3 DEF MovePending
  <2>4. booking' \in [Bookings -> Booking] /\ AllMade'
    BY <2>1, <2>2, <2>3, Rewriting
  <2>. QED BY <1>3, <2>4, Returning DEF MovePending, TypeInv, TypeOK
<1>4. CASE MoveApproved(r)
  <2>. DEFINE b == call[r].booking
              n == FreshBooking
              y == [booking[b] EXCEPT !.status = "CANCELLED"]
  <2>1. /\ b \in Bookings /\ booking[b] \in Booking /\ Made(booking[b])
        /\ booking[b].status # "ABSENT"
        /\ call[r].date \in Maybe(Dates) /\ call[r].seen \in Booking /\ Made(call[r].seen)
        /\ call[r].seen.by \in Members /\ call[r].seen.cost \in Int /\ Refund(r) \in Entry
    BY <1>4, Writing DEF MoveApproved, At, Decides, Existing, TypeInv, TypeOK, AllMade, Call
  <2>2. y \in Booking /\ Made(y)
    BY <2>1 DEF Booking, Statuses, Made
  <2>3. Rebooked(r) \in Booking
    BY <2>1 DEF Rebooked, Booking, Statuses
  <2>4. Made(Rebooked(r))
    BY <1>4, <2>1 DEF MoveApproved, Rebooked, Booking, Made
  <2>5. booking' = [booking EXCEPT ![b] = y, ![n] = Rebooked(r)]
    BY <1>4 DEF MoveApproved
  <2>6. n \in Bookings
    BY <1>4, Freshness DEF MoveApproved
  <2>. HIDE DEF b, n, y
  <2>7. booking' \in [Bookings -> Booking] /\ AllMade'
    BY <2>1, <2>2, <2>3, <2>4, <2>5, <2>6 DEF TypeInv, TypeOK, AllMade, Made
  <2>8. points' \in [Members -> Int]
    BY <1>4, <2>1, Transferring DEF MoveApproved
  <2>9. ledger' \subseteq Entry /\ stale' \subseteq Bookings
    BY <1>4, <2>1 DEF MoveApproved, Decides, TypeInv, TypeOK, b
  <2>. QED BY <1>4, <2>7, <2>8, <2>9, Returning DEF MoveApproved, TypeInv, TypeOK
<1>. QED BY <1>1, <1>2, <1>3, <1>4 DEF Reschedule

LEMMA CatalogueTypes ==
    ASSUME TypeInv, NEW r \in Requests, Catalogue(r)
    PROVE  TypeInv'
<1>0. reward \in [Rewards -> Reward]
  BY DEF TypeInv, TypeOK
<1>1. ASSUME NEW f \in Forms, NEW m \in BOOLEAN, Add(f, m)
      PROVE  reward' \in [Rewards -> Reward]
  BY <1>0, <1>1 DEF Add, Added, Reward, Shelf
<1>2. ASSUME NEW w \in Rewards, NEW f \in Forms, reward' = [reward EXCEPT ![w].form = f]
      PROVE  reward' \in [Rewards -> Reward]
  BY <1>0, <1>2 DEF Reward
<1>3. ASSUME NEW w \in Rewards, NEW s \in Shelf, reward' = [reward EXCEPT ![w].status = s]
      PROVE  reward' \in [Rewards -> Reward]
  BY <1>0, <1>3 DEF Reward
<1>4. ASSUME reward' \in [Rewards -> Reward], Return(r),
             UNCHANGED <<booking, points, ledger, stale>>
      PROVE  TypeInv'
  BY <1>4, Returning DEF TypeInv, TypeOK, AllMade, Made
<1>5. CASE CreateReward(r)
  BY <1>1, <1>4, <1>5 DEF CreateReward
<1>6. CASE UpdateReward(r)
  BY <1>2, <1>4, <1>6 DEF UpdateReward
<1>7. CASE ReadToggle(r)
  <2>1. PICK w \in Rewards :
          Becomes(r, [Idle EXCEPT !.op = "toggle", !.at = "write", !.reward = w,
                                  !.row = reward[w]])
    BY <1>7 DEF ReadToggle
  <2>. DEFINE x == [Idle EXCEPT !.op = "toggle", !.at = "write", !.reward = w,
                                !.row = reward[w]]
  <2>. HIDE DEF x
  <2>2. reward[w] \in Reward
    BY <1>0
  <2>3. x \in Call
    BY <2>2, BlankTypes DEF x, Call, OpNames, Places, Maybe
  <2>4. x.at = "write" /\ x.op = "toggle" /\ x.reward \in Rewards
    BY BlankTypes DEF x, Call
  <2>5. Fit(x)
    BY <2>4 DEF Fit
  <2>. QED BY <1>7, <2>1, <2>3, <2>5, Reading DEF ReadToggle, x
<1>8. CASE Toggle(r)
  <2>1. call[r].reward \in Rewards
    BY <1>8 DEF Toggle, OnShelf
  <2>2. PICK s \in Shelf : reward' = [reward EXCEPT ![call[r].reward].status = s]
    BY <1>8 DEF Toggle, Shelf
  <2>. QED BY <1>3, <1>4, <1>8, <2>1, <2>2 DEF Toggle
<1>9. CASE DeleteReward(r)
  <2>1. PICK w \in Rewards :
          /\ reward' = [reward EXCEPT ![w].status = "DELETED"]
          /\ booking' = [b \in Bookings |->
                 IF b \in Existing /\ booking[b].reward = w
                 THEN [booking[b] EXCEPT !.status = "DELETED"] ELSE booking[b]]
    BY <1>9 DEF DeleteReward
  <2>2. reward' \in [Rewards -> Reward]
    BY <1>3, <2>1 DEF Shelf
  <2>3. booking' \in [Bookings -> Booking] /\ AllMade'
    <3>1. ASSUME NEW b \in Bookings PROVE booking'[b] \in Booking /\ Made(booking'[b])
      <4>1. /\ booking[b] \in Booking /\ Made(booking[b])
            /\ b \in Existing => booking[b].status # "ABSENT"
        BY DEF TypeInv, TypeOK, AllMade, Existing
      <4>. DEFINE y == [booking[b] EXCEPT !.status = "DELETED"]
      <4>2. b \in Existing => y \in Booking /\ Made(y)
        BY <4>1 DEF Booking, Statuses, Made
      <4>3. booking'[b] = booking[b] \/ (b \in Existing /\ booking'[b] = y)
        BY <2>1
      <4>. QED BY <4>1, <4>2, <4>3
    <3>. QED BY <2>1, <3>1 DEF AllMade, Made
  <2>. QED BY <1>9, <2>2, <2>3, Returning DEF DeleteReward, TypeInv, TypeOK
<1>10. CASE Import(r)
  <2>1. reward' \in [Rewards -> Reward]
    BY <1>1, <1>2, <1>10 DEF Import
  <2>. QED BY <1>4, <1>10, <2>1 DEF Import
<1>. QED BY <1>5, <1>6, <1>7, <1>8, <1>9, <1>10 DEF Catalogue

LEMMA NextTypes == TypeInv /\ [Next]_vars => TypeInv'
<1>. SUFFICES ASSUME TypeInv, [Next]_vars PROVE TypeInv'
  OBVIOUS
<1>1. ASSUME NEW r \in Requests, GiveUp(r) PROVE TypeInv'
  BY <1>1, BlankTypes, Reading DEF GiveUp, Return
<1>2. CASE UNCHANGED vars
  BY <1>2 DEF TypeInv, TypeOK, AllMade, AllFit, Made, Fit, vars
<1>. QED BY <1>1, <1>2, RedeemTypes, DecideTypes, RescheduleTypes, CatalogueTypes
         DEF Next, Quiet

\* In every rewards shop, whatever calls overlap, rewards, bookings, balances,
\* ledger and calls stay in their types.
THEOREM ShopTypeCorrect == Spec => []TypeOK
<1>1. TypeInv => TypeOK
  BY DEF TypeInv
<1>. QED BY InitRewards, NextTypes, <1>1, PTL DEF Spec

-----------------------------------------------------------------------------
(* Paying exactly.                                                           *)

\* Nobody has paid for a booking that was not made.
UnmadeUnpaid == \A b \in Bookings : booking[b].status = "ABSENT" => Of(b) = {}

\* Of the booking a call has read, the member and the cost are still true.
Truthful(c) ==
    c.at \in {"conflict", "write"} /\ c.op # "toggle" =>
        /\ booking[c.booking].status # "ABSENT"
        /\ c.seen.by = booking[c.booking].by
        /\ c.seen.cost = booking[c.booking].cost
        /\ c.op \in {"approve", "reject"} => c.seen.status = "PENDING"
SeenTrue == \A r \in Requests : Truthful(call[r])

PayInv == UnmadeUnpaid /\ SeenTrue /\ PaidExactly

\* A booking that was made keeps its member and its cost.
Persists ==
    \A b \in Bookings : booking[b].status # "ABSENT" =>
        /\ booking'[b].status # "ABSENT"
        /\ booking'[b].by = booking[b].by /\ booking'[b].cost = booking[b].cost

LEMMA StaysTruthful ==
    ASSUME TypeInv, SeenTrue, Persists, NEW r \in Requests, NEW x \in Call, Becomes(r, x),
           x.at \in {"conflict", "write"} /\ x.op # "toggle" =>
               /\ booking'[x.booking].status # "ABSENT"
               /\ x.seen.by = booking'[x.booking].by
               /\ x.seen.cost = booking'[x.booking].cost
               /\ x.op \in {"approve", "reject"} => x.seen.status = "PENDING"
    PROVE  SeenTrue'
<1>1. call' = [call EXCEPT ![r] = x] /\ call \in [Requests -> Call]
  BY DEF Becomes, TypeInv, TypeOK
<1>2. ASSUME NEW s \in Requests, call'[s].at \in {"conflict", "write"}, call'[s].op # "toggle"
      PROVE  LET c == call'[s]
             IN  /\ booking'[c.booking].status # "ABSENT"
                 /\ c.seen.by = booking'[c.booking].by
                 /\ c.seen.cost = booking'[c.booking].cost
                 /\ c.op \in {"approve", "reject"} => c.seen.status = "PENDING"
  <2>1. CASE s = r
    BY <1>1, <1>2, <2>1
  <2>2. CASE s # r
    <3>1. call'[s] = call[s]
      BY <1>1, <2>2
    <3>2. call[s].booking \in Bookings
      BY <1>2, <3>1, Writing
    <3>3. Truthful(call[s])
      BY DEF SeenTrue
    <3>. QED BY <1>2, <3>1, <3>2, <3>3 DEF Truthful, Persists
  <2>. QED BY <2>1, <2>2
<1>. QED BY <1>2 DEF SeenTrue, Truthful

LEMMA ReturnsTruthful ==
    ASSUME TypeInv, SeenTrue, Persists, NEW r \in Requests, Return(r)
    PROVE  SeenTrue'
<1>1. Returned \in Call /\ Returned.at = "done"
  BY BlankTypes DEF Returned, Call
<1>. QED BY <1>1, StaysTruthful DEF Return

\* The accounts of booking b agree with its status.
Settled(b) ==
    /\ booking[b].status = "APPROVED" => \E e \in Of(b) : IsCharge(e, b) /\ Of(b) = {e}
    /\ booking[b].status = "CANCELLED" =>
           \E d, e \in Of(b) : IsCharge(d, b) /\ IsRefund(e, b) /\ Of(b) = {d, e}
    /\ booking[b].status \in {"PENDING", "REJECTED"} => Of(b) = {}

LEMMA Settling == PaidExactly <=> \A b \in Existing \ stale : Settled(b)
BY DEF PaidExactly, Settled

LEMMA SettlingNext == PaidExactly' <=> \A b \in Existing' \ stale' : Settled(b)'
BY DEF PaidExactly, Settled

\* Bookings whose row and entries a step leaves alone stay settled.
Untouched(b) == booking'[b] = booking[b] /\ Of(b)' = Of(b)

LEMMA PaymentKept ==
    ASSUME UnmadeUnpaid, PaidExactly, stale \subseteq stale',
           \A b \in Bookings :
              \/ Untouched(b)
              \/ booking'[b].status # "ABSENT" /\ (b \in Existing' \ stale' => Settled(b)')
    PROVE  UnmadeUnpaid' /\ PaidExactly'
<1>1. ASSUME NEW b \in Bookings, booking'[b].status = "ABSENT" PROVE Of(b)' = {}
  BY <1>1 DEF UnmadeUnpaid, Untouched
<1>2. ASSUME NEW b \in Existing' \ stale' PROVE Settled(b)'
  <2>1. b \in Bookings
    BY DEF Existing
  <2>2. CASE Untouched(b)
    <3>1. b \in Existing \ stale
      BY <2>1, <2>2 DEF Untouched, Existing
    <3>2. Settled(b)
      BY <3>1, Settling
    <3>. QED BY <2>2, <3>2 DEF Untouched, Settled, IsCharge, IsRefund
  <2>. QED BY <2>1, <2>2
<1>. QED BY <1>1, <1>2, SettlingNext DEF UnmadeUnpaid

\* A step that changes no booking and no entry keeps what is paid.
LEMMA NothingPaid ==
    ASSUME UnmadeUnpaid, PaidExactly, UNCHANGED <<booking, ledger, stale>>
    PROVE  UnmadeUnpaid' /\ PaidExactly' /\ Persists
BY DEF UnmadeUnpaid, PaidExactly, Persists, Existing, Of, IsCharge, IsRefund

LEMMA OneCall ==
    ASSUME TypeInv, NEW r \in Requests, NEW x, Becomes(r, x)
    PROVE  call'[r] = x
BY DEF TypeInv, TypeOK, Becomes

LEMMA RedeemPays ==
    ASSUME TypeInv, PayInv, TypeInv', NEW r \in Requests, Redeem(r)
    PROVE  PayInv'
<1>0. call[r] \in Call /\ call'[r] \in Call /\ Idle \in Call
  BY BlankTypes DEF TypeInv, TypeOK
\* A call that redeems looks at no booking until it makes one.
<1>1. ASSUME UNCHANGED rows, NEW x, Becomes(r, x), x.at \in {"reward", "limit", "date", "book"}
      PROVE  PayInv'
  <2>1. call'[r] = x
    BY <1>1, OneCall
  <2>2. UnmadeUnpaid' /\ PaidExactly' /\ Persists
    BY <1>1, NothingPaid DEF PayInv, rows
  <2>3. SeenTrue'
    BY <1>0, <1>1, <2>1, <2>2, StaysTruthful DEF PayInv
  <2>. QED BY <2>2, <2>3 DEF PayInv
<1>2. CASE Authenticate(r)
  <2>1. PICK u \in Members \ Adults, w \in Rewards :
          Becomes(r, [Idle EXCEPT !.op = "redeem", !.at = "reward", !.actor = u,
                                  !.reward = w, !.bal = points[u]])
    BY <1>2 DEF Authenticate
  <2>. DEFINE x == [Idle EXCEPT !.op = "redeem", !.at = "reward", !.actor = u,
                                !.reward = w, !.bal = points[u]]
  <2>2. x.at = "reward"
    BY <1>0 DEF Call
  <2>. HIDE DEF x
  <2>. QED BY <1>1, <1>2, <2>1, <2>2 DEF Authenticate, x
<1>3. CASE ReadReward(r)
  <2>1. PICK d \in Maybe(Dates) :
          Becomes(r, [call[r] EXCEPT !.at = AfterPrice(reward[call[r].reward].form),
                                     !.row = reward[call[r].reward], !.date = d])
    BY <1>3 DEF ReadReward, Maybe
  <2>. DEFINE x == [call[r] EXCEPT !.at = AfterPrice(reward[call[r].reward].form),
                                   !.row = reward[call[r].reward], !.date = d]
  <2>2. x.at \in {"limit", "date", "book"}
    BY <1>0 DEF Call, AfterPrice, AfterLimit
  <2>. HIDE DEF x
  <2>. QED BY <1>1, <1>3, <2>1, <2>2 DEF ReadReward, x
<1>4. CASE CheckLimit(r)
  <2>. DEFINE x == [call[r] EXCEPT !.at = AfterLimit(call[r].row.form)]
  <2>1. x.at \in {"date", "book"}
    BY <1>0 DEF Call, AfterLimit
  <2>. HIDE DEF x
  <2>. QED BY <1>1, <1>4, <2>1 DEF CheckLimit, Go, x
<1>5. CASE CheckDate(r)
  <2>. DEFINE x == [call[r] EXCEPT !.at = "book"]
  <2>1. x.at = "book"
    BY <1>0 DEF Call
  <2>. HIDE DEF x
  <2>. QED BY <1>1, <1>5, <2>1 DEF CheckDate, Go, x
<1>6. CASE Book(r)
  <2>. PICK b, n, e : /\ b = FreshBooking /\ n = call[r].row.form.price
                      /\ e = Paid(r, FreshBooking, call[r].actor, -call[r].row.form.price)
    OBVIOUS
  <2>1. PICK ask \in Approvals :
          /\ booking' = [booking EXCEPT ![b] =
                 [status |-> IF ask THEN "PENDING" ELSE "APPROVED",
                  reward |-> call[r].reward, by |-> call[r].actor, cost |-> n,
                  date |-> call[r].date]]
          /\ ledger' = IF ask THEN ledger ELSE ledger \cup {e}
    BY <1>6 DEF Book
  <2>2. b \in Bookings /\ booking[b].status = "ABSENT" /\ booking \in [Bookings -> Booking]
    BY <1>6, Freshness DEF Book, TypeInv, TypeOK
  <2>3. stale' = stale /\ Return(r) /\ e.booking = b
        /\ e.user = call[r].actor /\ e.amount = -n
    BY <1>6 DEF Book, Paid
  <2>4. Persists
    BY <2>1, <2>2 DEF Persists
  <2>5. SeenTrue'
    BY <2>3, <2>4, ReturnsTruthful DEF PayInv
  <2>6. ASSUME NEW c \in Bookings, c # b PROVE Untouched(c)
    BY <2>1, <2>2, <2>3, <2>6 DEF Untouched, Of
  <2>7. /\ booking'[b].by = call[r].actor /\ booking'[b].cost = n
        /\ booking'[b].status = IF ask THEN "PENDING" ELSE "APPROVED"
    BY <2>1, <2>2
  <2>8. Of(b) = {}
    BY <2>2 DEF PayInv, UnmadeUnpaid
  <2>9. Settled(b)'
    <3>1. CASE ask
      <4>1. Of(b)' = {} /\ booking'[b].status = "PENDING"
        BY <2>1, <2>7, <2>8, <3>1 DEF Of
      <4>. QED BY <4>1 DEF Settled
    <3>2. CASE ~ask
      <4>1. Of(b)' = {e}
        BY <2>1, <2>3, <2>8, <3>2 DEF Of
      <4>2. booking'[b].status = "APPROVED" /\ IsCharge(e, b)'
        BY <2>3, <2>7, <3>2 DEF IsCharge
      <4>. QED BY <4>1, <4>2 DEF Settled
    <3>. QED BY <3>1, <3>2
  <2>10. booking'[b].status # "ABSENT"
    BY <2>7
  <2>. QED BY <2>2, <2>3, <2>5, <2>6, <2>9, <2>10, PaymentKept DEF PayInv
<1>. QED BY <1>2, <1>3, <1>4, <1>5, <1>6 DEF Redeem

\* A call that has read an existing booking knows the truth about it.
LEMMA ReadsTruth ==
    ASSUME TypeInv, PayInv, TypeInv', UNCHANGED rows, NEW r \in Requests, NEW x, Becomes(r, x),
           x.booking \in Existing, x.seen = booking[x.booking],
           x.op \in {"approve", "reject"} => x.seen.status = "PENDING"
    PROVE  PayInv'
<1>1. call'[r] = x /\ call'[r] \in Call
  BY OneCall DEF TypeInv, TypeOK
<1>2. UnmadeUnpaid' /\ PaidExactly' /\ Persists
  BY NothingPaid DEF PayInv, rows
<1>3. booking'[x.booking].status # "ABSENT" /\ booking' = booking
  BY DEF Existing, rows
<1>4. SeenTrue'
  BY <1>1, <1>2, <1>3, StaysTruthful DEF PayInv
<1>. QED BY <1>2, <1>4 DEF PayInv

\* What a decision knows: the booking was made, by the member and at the cost it
\* read; and unless the booking becomes stale, its status is the one it read.
LEMMA Deciding ==
    ASSUME TypeInv, PayInv, NEW r \in Requests, call[r].at = "write", call[r].op # "toggle",
           NEW b, b = call[r].booking
    PROVE  /\ b \in Bookings /\ booking[b].status # "ABSENT"
           /\ booking \in [Bookings -> Booking]
           /\ Charge(r).user = booking[b].by /\ Charge(r).amount = -booking[b].cost
           /\ Refund(r).user = booking[b].by /\ Refund(r).amount = booking[b].cost
           /\ Charge(r).booking = b /\ Refund(r).booking = b
           /\ call[r].op \in {"approve", "reject"} => call[r].seen.status = "PENDING"
           /\ Decides(r) => /\ b \in Existing /\ stale \subseteq stale'
                            /\ b \notin stale' => b \notin stale
                                                  /\ booking[b].status = call[r].seen.status
<1>1. b \in Bookings /\ booking \in [Bookings -> Booking]
  BY Writing DEF TypeInv, TypeOK
<1>2. Truthful(call[r])
  BY DEF PayInv, SeenTrue
<1>. QED BY <1>1, <1>2 DEF Truthful, Charge, Refund, Paid, Decides

LEMMA DecidePays ==
    ASSUME TypeInv, PayInv, TypeInv', NEW r \in Requests, Decide(r)
    PROVE  PayInv'
<1>1. CASE ReadPending(r)
  <2>1. PICK op \in {"approve", "reject"}, u \in Adults, b \in Existing :
          booking[b].status = "PENDING" /\ Becomes(r, Read(r, op, u, b, "write"))
    BY <1>1 DEF ReadPending
  <2>2. u \in Members /\ op \in OpNames /\ "write" \in Places
    BY MemberAssumption DEF OpNames, Places
  <2>. DEFINE x == Read(r, op, u, b, "write")
  <2>3. x.booking = b /\ x.seen = booking[b]
    BY BlankTypes DEF Read, Call
  <2>. HIDE DEF x
  <2>. QED BY <1>1, <2>1, <2>3, ReadsTruth DEF ReadPending, x
<1>2. CASE Approve(r)
  <2>. PICK b, e : b = call[r].booking /\ e = Charge(r)
    OBVIOUS
  <2>1. /\ call[r].at = "write" /\ call[r].op = "approve" /\ Decides(r)
        /\ booking' = [booking EXCEPT ![b].status = "APPROVED"]
        /\ ledger' = ledger \cup {e} /\ Return(r)
    BY <1>2 DEF Approve, At
  <2>2. /\ b \in Existing /\ b \in Bookings /\ booking \in [Bookings -> Booking]
        /\ booking[b].status # "ABSENT" /\ booking[b] \in Booking
        /\ e.user = booking[b].by /\ e.amount = -booking[b].cost /\ e.booking = b
        /\ stale \subseteq stale'
        /\ b \notin stale' => b \notin stale /\ booking[b].status = "PENDING"
    BY <2>1, Deciding
  <2>3. /\ booking'[b].status = "APPROVED" /\ booking'[b].by = booking[b].by
        /\ booking'[b].cost = booking[b].cost
        /\ \A c \in Bookings : c # b => booking'[c] = booking[c]
    BY <2>1, <2>2 DEF Booking
  <2>4. Persists
    BY <2>2, <2>3 DEF Persists
  <2>5. SeenTrue'
    BY <2>1, <2>4, ReturnsTruthful DEF PayInv
  <2>6. ASSUME NEW c \in Bookings, c # b PROVE Untouched(c)
    BY <2>1, <2>2, <2>3, <2>6 DEF Untouched, Of
  <2>7. ASSUME b \notin stale' PROVE Settled(b)'
    <3>1. Of(b) = {}
      BY <2>2, <2>7, Settling DEF PayInv, Settled
    <3>2. Of(b)' = {e}
      BY <2>1, <2>2, <3>1 DEF Of
    <3>3. IsCharge(e, b)'
      BY <2>2, <2>3 DEF IsCharge
    <3>. QED BY <2>3, <3>2, <3>3 DEF Settled
  <2>. QED BY <2>2, <2>3, <2>5, <2>6, <2>7, PaymentKept DEF PayInv
<1>3. CASE Reject(r)
  <2>. PICK b : b = call[r].booking
    OBVIOUS
  <2>1. /\ call[r].at = "write" /\ call[r].op = "reject" /\ Decides(r)
        /\ booking' = [booking EXCEPT ![b].status = "REJECTED"]
        /\ ledger' = ledger /\ Return(r)
    BY <1>3 DEF Reject, At
  <2>2. /\ b \in Existing /\ b \in Bookings /\ booking \in [Bookings -> Booking]
        /\ booking[b].status # "ABSENT" /\ booking[b] \in Booking
        /\ stale \subseteq stale'
        /\ b \notin stale' => b \notin stale /\ booking[b].status = "PENDING"
    BY <2>1, Deciding
  <2>3. /\ booking'[b].status = "REJECTED" /\ booking'[b].by = booking[b].by
        /\ booking'[b].cost = booking[b].cost
        /\ \A c \in Bookings : c # b => booking'[c] = booking[c]
    BY <2>1, <2>2 DEF Booking
  <2>4. Persists
    BY <2>2, <2>3 DEF Persists
  <2>5. SeenTrue'
    BY <2>1, <2>4, ReturnsTruthful DEF PayInv
  <2>6. ASSUME NEW c \in Bookings, c # b PROVE Untouched(c)
    BY <2>1, <2>3, <2>6 DEF Untouched, Of
  <2>7. ASSUME b \notin stale' PROVE Settled(b)'
    <3>1. Of(b) = {}
      BY <2>2, <2>7, Settling DEF PayInv, Settled
    <3>2. Of(b)' = {}
      BY <2>1, <3>1 DEF Of
    <3>. QED BY <2>3, <3>2 DEF Settled
  <2>. QED BY <2>2, <2>3, <2>5, <2>6, <2>7, PaymentKept DEF PayInv
<1>. QED BY <1>1, <1>2, <1>3 DEF Decide

LEMMA ReschedulePays ==
    ASSUME TypeInv, PayInv, TypeInv', NEW r \in Requests, Reschedule(r)
    PROVE  PayInv'
<1>1. CASE ReadBooking(r)
  <2>1. PICK b \in Existing, d \in Dates, u \in Members :
          Becomes(r, [Read(r, "move", u, b, "conflict") EXCEPT !.date = d])
    BY <1>1 DEF ReadBooking
  <2>2. "move" \in OpNames /\ "conflict" \in Places
    BY DEF OpNames, Places
  <2>. DEFINE x == Read(r, "move", u, b, "conflict")
              y == [x EXCEPT !.date = d]
  <2>. HIDE DEF x
  <2>3. x \in Call /\ x.op = "move" /\ x.seen = booking[b]
    BY <2>2, ReadTypes DEF x
  <2>4. x.booking = b
    BY BlankTypes DEF x, Read, Call
  <2>5. y.op = "move" /\ y.seen = booking[b] /\ y.booking = b
    BY <2>3, <2>4 DEF Call
  <2>. HIDE DEF y
  <2>. QED BY <1>1, <2>1, <2>5, ReadsTruth DEF ReadBooking, x, y
<1>2. CASE CheckConflict(r)
  <2>. DEFINE x == [call[r] EXCEPT !.at = "write"]
  <2>1. /\ call[r].op = "move" /\ call[r].at = "conflict" /\ call[r] \in Call
        /\ UNCHANGED rows /\ Becomes(r, x)
    BY <1>2 DEF CheckConflict, At, Go, TypeInv, TypeOK
  <2>2. x.op = "move" /\ x.at = "write" /\ x.seen = call[r].seen
        /\ x.booking = call[r].booking
    BY <2>1 DEF Call
  <2>. HIDE DEF x
  <2>3. call'[r] = x /\ call'[r] \in Call
    BY <2>1, OneCall DEF TypeInv, TypeOK
  <2>4. UnmadeUnpaid' /\ PaidExactly' /\ Persists /\ booking' = booking
    BY <2>1, NothingPaid DEF PayInv, rows
  <2>5. Truthful(call[r])
    BY DEF PayInv, SeenTrue
  <2>6. SeenTrue'
    BY <2>1, <2>2, <2>3, <2>4, <2>5, StaysTruthful DEF PayInv, Truthful
  <2>. QED BY <2>4, <2>6 DEF PayInv
<1>3. CASE MovePending(r)
  <2>. PICK b : b = call[r].booking
    OBVIOUS
  <2>1. /\ booking' = [booking EXCEPT ![b].date = call[r].date]
        /\ ledger' = ledger /\ stale' = stale /\ Return(r) /\ b \in Existing
    BY <1>3 DEF MovePending, At
  <2>2. b \in Bookings /\ booking \in [Bookings -> Booking] /\ booking[b] \in Booking
        /\ booking[b].status # "ABSENT"
    BY <2>1 DEF Existing, TypeInv, TypeOK
  <2>3. /\ booking'[b].status = booking[b].status /\ booking'[b].by = booking[b].by
        /\ booking'[b].cost = booking[b].cost
        /\ \A c \in Bookings : c # b => booking'[c] = booking[c]
    BY <2>1, <2>2 DEF Booking
  <2>4. Persists
    BY <2>2, <2>3 DEF Persists
  <2>5. SeenTrue'
    BY <2>1, <2>4, ReturnsTruthful DEF PayInv
  <2>6. ASSUME NEW c \in Bookings, c # b PROVE Untouched(c)
    BY <2>1, <2>3, <2>6 DEF Untouched, Of
  <2>7. ASSUME b \notin stale' PROVE Settled(b)'
    <3>1. Settled(b)
      BY <2>1, <2>7, Settling DEF PayInv
    <3>2. Of(b)' = Of(b)
      BY <2>1 DEF Of
    <3>. QED BY <2>3, <3>1, <3>2 DEF Settled, IsCharge, IsRefund
  <2>. QED BY <2>1, <2>2, <2>3, <2>5, <2>6, <2>7, PaymentKept DEF PayInv
<1>4. CASE MoveApproved(r)
  <2>. PICK b, n, e, y : b = call[r].booking /\ n = FreshBooking /\ e = Refund(r)
                         /\ y = Rebooked(r)
    OBVIOUS
  <2>1. /\ call[r].at = "write" /\ call[r].op = "move" /\ Decides(r) /\ call[r] \in Call
        /\ call[r].seen.status = "APPROVED"
        /\ booking' = [booking EXCEPT ![b].status = "CANCELLED", ![n] = y]
        /\ ledger' = ledger \cup {e} /\ Return(r)
    BY <1>4 DEF MoveApproved, At, TypeInv, TypeOK
  <2>2. /\ b \in Existing /\ b \in Bookings /\ booking \in [Bookings -> Booking]
        /\ booking[b].status # "ABSENT" /\ booking[b] \in Booking
        /\ e.user = booking[b].by /\ e.amount = booking[b].cost /\ e.booking = b
        /\ stale \subseteq stale'
        /\ b \notin stale' => b \notin stale /\ booking[b].status = "APPROVED"
    BY <2>1, Deciding
  <2>3. n \in Bookings /\ booking[n].status = "ABSENT" /\ n # b
    BY <1>4, <2>2, Freshness DEF MoveApproved
  <2>4. y.status = "PENDING"
    BY <2>1 DEF Rebooked, Call, Booking
  <2>5. /\ booking'[b].status = "CANCELLED" /\ booking'[b].by = booking[b].by
        /\ booking'[b].cost = booking[b].cost /\ booking'[n] = y
        /\ \A c \in Bookings : c # b /\ c # n => booking'[c] = booking[c]
    BY <2>1, <2>2, <2>3 DEF Booking
  <2>6. Persists
    BY <2>2, <2>3, <2>5 DEF Persists
  <2>7. SeenTrue'
    BY <2>1, <2>6, ReturnsTruthful DEF PayInv
  <2>8. ASSUME NEW c \in Bookings, c # b, c # n PROVE Untouched(c)
    BY <2>1, <2>2, <2>5, <2>8 DEF Untouched, Of
  <2>9. ASSUME b \notin stale' PROVE Settled(b)'
    <3>1. PICK d \in Of(b) : IsCharge(d, b) /\ Of(b) = {d}
      BY <2>2, <2>9, Settling DEF PayInv, Settled
    <3>2. Of(b)' = {d, e}
      BY <2>1, <2>2, <3>1 DEF Of
    <3>3. IsCharge(d, b)' /\ IsRefund(e, b)'
      BY <2>2, <2>5, <3>1 DEF IsCharge, IsRefund
    <3>. QED BY <2>5, <3>2, <3>3 DEF Settled
  <2>10. Settled(n)'
    <3>1. Of(n) = {}
      BY <2>3 DEF PayInv, UnmadeUnpaid
    <3>2. Of(n)' = {}
      BY <2>1, <2>2, <2>3, <3>1 DEF Of
    <3>. QED BY <2>4, <2>5, <3>2 DEF Settled
  <2>. QED BY <2>2, <2>4, <2>5, <2>7, <2>8, <2>9, <2>10, PaymentKept DEF PayInv
<1>. QED BY <1>1, <1>2, <1>3, <1>4 DEF Reschedule

LEMMA CataloguePays ==
    ASSUME TypeInv, PayInv, TypeInv', NEW r \in Requests, Catalogue(r)
    PROVE  PayInv'
<1>1. ASSUME Return(r), UNCHANGED <<booking, points, ledger, stale>>
      PROVE  PayInv'
  BY <1>1, NothingPaid, ReturnsTruthful DEF PayInv
<1>2. CASE ReadToggle(r)
  <2>1. PICK w \in Rewards :
          Becomes(r, [Idle EXCEPT !.op = "toggle", !.at = "write", !.reward = w,
                                  !.row = reward[w]])
    BY <1>2 DEF ReadToggle
  <2>. DEFINE x == [Idle EXCEPT !.op = "toggle", !.at = "write", !.reward = w,
                                !.row = reward[w]]
  <2>2. x.op = "toggle"
    BY BlankTypes DEF Call
  <2>. HIDE DEF x
  <2>3. call'[r] = x /\ call'[r] \in Call
    BY <2>1, OneCall DEF TypeInv, TypeOK, x
  <2>4. UnmadeUnpaid' /\ PaidExactly' /\ Persists
    BY <1>2, NothingPaid DEF PayInv, rows, ReadToggle
  <2>5. SeenTrue'
    BY <2>1, <2>2, <2>3, <2>4, StaysTruthful DEF PayInv, x
  <2>. QED BY <2>4, <2>5 DEF PayInv
<1>3. CASE DeleteReward(r)
  <2>1. PICK w \in Rewards :
          booking' = [b \in Bookings |->
             IF b \in Existing /\ booking[b].reward = w
             THEN [booking[b] EXCEPT !.status = "DELETED"] ELSE booking[b]]
    BY <1>3 DEF DeleteReward
  <2>2. ledger' = ledger /\ stale' = stale /\ Return(r)
    BY <1>3 DEF DeleteReward
  <2>3. ASSUME NEW b \in Bookings
        PROVE  \/ booking'[b] = booking[b]
               \/ /\ booking'[b].status = "DELETED"
                  /\ booking'[b].by = booking[b].by /\ booking'[b].cost = booking[b].cost
    <3>1. booking[b] \in Booking
      BY DEF TypeInv, TypeOK
    <3>. QED BY <2>1, <3>1 DEF Booking
  <2>4. Persists
    BY <2>3 DEF Persists
  <2>5. SeenTrue'
    BY <2>2, <2>4, ReturnsTruthful DEF PayInv
  <2>6. ASSUME NEW b \in Bookings
        PROVE  Untouched(b) \/ (booking'[b].status # "ABSENT" /\ b \notin Existing')
    BY <2>2, <2>3 DEF Untouched, Of, Existing
  <2>. QED BY <2>2, <2>5, <2>6, PaymentKept DEF PayInv
<1>. QED BY <1>1, <1>2, <1>3
         DEF Catalogue, CreateReward, UpdateReward, Toggle, Import

LEMMA NextPays == TypeInv /\ PayInv /\ TypeInv' /\ [Next]_vars => PayInv'
<1>. SUFFICES ASSUME TypeInv, PayInv, TypeInv', [Next]_vars PROVE PayInv'
  OBVIOUS
<1>1. ASSUME NEW r \in Requests, GiveUp(r) PROVE PayInv'
  BY <1>1, NothingPaid, ReturnsTruthful DEF PayInv, GiveUp, rows
<1>2. CASE UNCHANGED vars
  <2>1. UnmadeUnpaid' /\ PaidExactly'
    BY <1>2, NothingPaid DEF PayInv, vars
  <2>2. SeenTrue'
    BY <1>2 DEF PayInv, SeenTrue, Truthful, vars
  <2>. QED BY <2>1, <2>2 DEF PayInv
<1>. QED BY <1>1, <1>2, RedeemPays, DecidePays, ReschedulePays, CataloguePays
         DEF Next, Quiet

LEMMA InitPays == Init => PayInv
<1>. SUFFICES ASSUME Init PROVE PayInv
  OBVIOUS
<1>1. PICK s \in Shops : /\ booking = s.booking
                        /\ ledger = {Paid(None, None, u, s.points[u]) : u \in Members}
  BY DEF Init
<1>2. s \in Shop
  BY ShopAssumption
<1>3. ASSUME NEW b \in Bookings
      PROVE  Of(b) = {} /\ booking[b].status \in {"ABSENT", "PENDING"}
  <2>1. b # None
    BY NullAssumption
  <2>2. Of(b) = {}
    BY <1>1, <2>1 DEF Of, Paid
  <2>. QED BY <1>1, <1>2, <2>2 DEF Shop, NoBooking
<1>4. UnmadeUnpaid /\ PaidExactly
  BY <1>3 DEF UnmadeUnpaid, PaidExactly, Existing
<1>5. SeenTrue
  BY DEF SeenTrue, Truthful, Init, Idle
<1>. QED BY <1>4, <1>5 DEF PayInv

\* In every rewards shop, whatever calls overlap and however the catalogue is
\* edited meanwhile, a booking that no stale decision touched is paid exactly: one
\* charge when approved, charge and refund when moved, nothing otherwise.
THEOREM BookingsPaidExactly == Spec => []PaidExactly
<1>1. TypeInv /\ PayInv /\ [Next]_vars => (TypeInv /\ PayInv)'
  BY NextTypes, NextPays
<1>2. Init => TypeInv /\ PayInv
  BY InitRewards, InitPays
<1>3. PayInv => PaidExactly
  BY DEF PayInv
<1>. QED BY <1>1, <1>2, <1>3, PTL DEF Spec

-----------------------------------------------------------------------------
(* Balances.                                                                 *)

Account(u) == {e \in ledger : e.user = u}

\* A call writes one entry at most, with its last step, so entries are never the same.
WritesLast == \A e \in ledger : e.by \in Requests => call[e.by].at = "done"
BooksInv ==
    /\ WritesLast
    /\ \A u \in Members : IsFiniteSet(Account(u)) /\ points[u] = Total(Account(u))

LEMMA BooksAgree == BooksInv => LedgerAgrees
BY DEF BooksInv, LedgerAgrees, Account, Total

\* A call that has returned stays so, a step of another leaves it alone.
LEMMA StaysDone ==
    ASSUME TypeInv, NEW r \in Requests, call[r].at # "done", NEW x, Becomes(r, x)
    PROVE  \A s \in Requests : call[s].at = "done" => call'[s].at = "done"
BY DEF Becomes, TypeInv, TypeOK

LEMMA BooksKept ==
    ASSUME BooksInv, UNCHANGED <<points, ledger>>,
           \A s \in Requests : call[s].at = "done" => call'[s].at = "done"
    PROVE  BooksInv'
<1>1. WritesLast'
  BY DEF BooksInv, WritesLast
<1>2. \A u \in Members : Account(u)' = Account(u)
  BY DEF Account
<1>. QED  BY <1>1, <1>2 DEF BooksInv

\* Points that move with an entry of their own.
LEMMA BooksMoved ==
    ASSUME TypeInv, BooksInv, NEW r \in Requests, call[r].at # "done", Return(r),
           NEW b, NEW u \in Members, NEW n \in Int,
           points' = [points EXCEPT ![u] = @ + n], ledger' = ledger \cup {Paid(r, b, u, n)}
    PROVE  BooksInv'
<1>. DEFINE e == Paid(r, b, u, n)
<1>1. e.by = r /\ e.user = u /\ e.amount = n
  BY DEF Paid
<1>. HIDE DEF e
<1>2. ledger' = ledger \cup {e}
  BY DEF e
<1>3. e \notin ledger
  BY <1>1 DEF BooksInv, WritesLast
<1>4. \A s \in Requests : call[s].at = "done" => call'[s].at = "done"
  BY StaysDone DEF Return
<1>5. call'[r].at = "done"
  BY DEF Return, Becomes, Returned, Idle, TypeInv, TypeOK
<1>6. WritesLast'
  BY <1>1, <1>2, <1>4, <1>5 DEF BooksInv, WritesLast
<1>7. points \in [Members -> Int] /\ \A d \in ledger : d.amount \in Int
  BY DEF TypeInv, TypeOK, Entry
<1>8. ASSUME NEW v \in Members PROVE IsFiniteSet(Account(v)') /\ points'[v] = Total(Account(v)')
  <2>1. CASE v # u
    <3>1. Account(v)' = Account(v) /\ points'[v] = points[v]
      BY <1>1, <1>2, <1>7, <2>1 DEF Account
    <3>. QED  BY <3>1 DEF BooksInv
  <2>2. CASE v = u
    <3>. PICK S : S = Account(u)
      OBVIOUS
    <3>1. Account(v)' = S \cup {e} /\ points'[v] = points[u] + n
      BY <1>1, <1>2, <1>7, <2>2 DEF Account
    <3>2. IsFiniteSet(S) /\ points[u] = Total(S) /\ e \notin S /\ \A d \in S : d.amount \in Int
      BY <1>3, <1>7 DEF BooksInv, Account
    <3>3. Total(S \cup {e}) = Total(S) + n
      BY <3>2, <1>1, TotalAdds
    <3>4. IsFiniteSet(S \cup {e})
      BY <3>2, FS_AddElement
    <3>. QED  BY <3>1, <3>2, <3>3, <3>4
  <2>. QED  BY <2>1, <2>2
<1>. QED  BY <1>6, <1>8 DEF BooksInv

\* Nobody but Book, Approve and MoveApproved moves points.
LEMMA OthersKeepBooks ==
    ASSUME TypeInv, BooksInv, NEW r \in Requests,
           Redeem(r) \/ Decide(r) \/ Reschedule(r) \/ Catalogue(r) \/ GiveUp(r),
           ~Book(r), ~Approve(r), ~MoveApproved(r)
    PROVE  BooksInv'
<1>. DEFINE Idles == UNCHANGED <<points, ledger>> /\ call[r].at # "done" /\ \E x : Becomes(r, x)
<1>. SUFFICES Idles
  BY StaysDone, BooksKept
<1>1. CASE Redeem(r)
  <2>1. Authenticate(r) => Idles
    BY DEF Authenticate, MayBegin, rows
  <2>2. ReadReward(r) => Idles
    BY DEF ReadReward, At, rows
  <2>3. CheckLimit(r) \/ CheckDate(r) => Idles
    BY DEF CheckLimit, CheckDate, At, Go, rows
  <2>. QED  BY <1>1, <2>1, <2>2, <2>3 DEF Redeem
<1>2. CASE Decide(r)
  <2>1. ReadPending(r) => Idles
    BY DEF ReadPending, MayBegin, rows
  <2>2. Reject(r) => Idles
    BY DEF Reject, At, Return
  <2>. QED  BY <1>2, <2>1, <2>2 DEF Decide
<1>3. CASE Reschedule(r)
  <2>1. ReadBooking(r) => Idles
    BY DEF ReadBooking, MayBegin, rows
  <2>2. CheckConflict(r) => Idles
    BY DEF CheckConflict, At, Go, rows
  <2>3. MovePending(r) => Idles
    BY DEF MovePending, At, Return
  <2>. QED  BY <1>3, <2>1, <2>2, <2>3 DEF Reschedule
<1>4. CASE Catalogue(r)
  <2>1. CreateReward(r) \/ UpdateReward(r) \/ DeleteReward(r) \/ Import(r) => Idles
    BY DEF CreateReward, UpdateReward, DeleteReward, Import, MayBegin, Return
  <2>2. ReadToggle(r) => Idles
    BY DEF ReadToggle, MayBegin, rows
  <2>3. Toggle(r) => Idles
    BY DEF Toggle, At, Return
  <2>. QED  BY <1>4, <2>1, <2>2, <2>3 DEF Catalogue
<1>5. CASE GiveUp(r)
  BY <1>5 DEF GiveUp, Return, rows
<1>. QED  BY <1>1, <1>2, <1>3, <1>4, <1>5

LEMMA BookKeepsBooks == ASSUME TypeInv, BooksInv, NEW r \in Requests, Book(r) PROVE BooksInv'
<1>. DEFINE u == call[r].actor
            n == -call[r].row.form.price
            b == FreshBooking
<1>1. call[r].at = "book" /\ Return(r)
  BY DEF Book, At
<1>2. u \in Members /\ n \in Int
  BY <1>1, FormAssumption DEF TypeInv, AllFit, Fit, Reward, Form
<1>3. PICK ask \in Approvals :
        /\ points' = IF ask THEN points ELSE [points EXCEPT ![u] = @ - call[r].row.form.price]
        /\ ledger' = IF ask THEN ledger ELSE ledger \cup {Paid(r, b, u, n)}
  BY DEF Book
<1>4. ask \in BOOLEAN
  BY ApprovalAssumption
<1>5. CASE ask
  <2>1. UNCHANGED <<points, ledger>>
    BY <1>3, <1>5
  <2>. QED  BY <1>1, <2>1, StaysDone, BooksKept DEF Return
<1>6. CASE ~ask
  <2>1. points' = [points EXCEPT ![u] = @ + n] /\ ledger' = ledger \cup {Paid(r, b, u, n)}
    BY <1>2, <1>3, <1>6, FormAssumption DEF TypeInv, TypeOK, AllFit, Fit, Reward, Form
  <2>. HIDE DEF u, n, b
  <2>. QED  BY <1>1, <1>2, <2>1, BooksMoved
<1>. QED  BY <1>4, <1>5, <1>6

\* The member who is charged or gets a refund, as the call has read it.
LEMMA Payer ==
    ASSUME TypeInv, NEW r \in Requests, call[r].at = "write", call[r].op # "toggle"
    PROVE  call[r].seen.by \in Members /\ call[r].seen.cost \in Int
BY DEF TypeInv, TypeOK, AllFit, Fit, Made, Call, Booking

LEMMA ApproveKeepsBooks == ASSUME TypeInv, BooksInv, NEW r \in Requests, Approve(r) PROVE BooksInv'
<1>. DEFINE u == call[r].seen.by
            n == -call[r].seen.cost
<1>1. call[r].at = "write" /\ call[r].op # "toggle" /\ Return(r)
  BY DEF Approve, At
<1>2. /\ points' = [points EXCEPT ![u] = @ + n]
      /\ ledger' = ledger \cup {Paid(r, call[r].booking, u, n)}
  BY DEF Approve, Transfer, Charge
<1>3. u \in Members /\ n \in Int
  BY <1>1, Payer
<1>. HIDE DEF u, n
<1>. QED  BY <1>1, <1>2, <1>3, BooksMoved

LEMMA MoveKeepsBooks == ASSUME TypeInv, BooksInv, NEW r \in Requests, MoveApproved(r) PROVE BooksInv'
<1>. DEFINE u == call[r].seen.by
            n == call[r].seen.cost
<1>1. call[r].at = "write" /\ call[r].op # "toggle" /\ Return(r)
  BY DEF MoveApproved, At
<1>2. /\ points' = [points EXCEPT ![u] = @ + n]
      /\ ledger' = ledger \cup {Paid(r, call[r].booking, u, n)}
  BY DEF MoveApproved, Transfer, Refund
<1>3. u \in Members /\ n \in Int
  BY <1>1, Payer
<1>. HIDE DEF u, n
<1>. QED  BY <1>1, <1>2, <1>3, BooksMoved

LEMMA NextKeepsBooks == TypeInv /\ BooksInv /\ [Next]_vars => BooksInv'
<1>. SUFFICES ASSUME TypeInv, BooksInv, [Next]_vars PROVE BooksInv'
  OBVIOUS
<1>1. CASE UNCHANGED vars
  BY <1>1, BooksKept DEF vars
<1>2. ASSUME NEW r \in Requests, Redeem(r) \/ Decide(r) \/ Reschedule(r) \/ Catalogue(r) \/ GiveUp(r)
      PROVE  BooksInv'
  BY <1>2, BookKeepsBooks, ApproveKeepsBooks, MoveKeepsBooks, OthersKeepBooks
<1>. QED  BY <1>1, <1>2 DEF Next, Quiet

\* Each member begins with one entry, of all that it has.
LEMMA InitBooks == Init => BooksInv
<1>. SUFFICES ASSUME Init PROVE BooksInv
  OBVIOUS
<1>1. PICK s \in Shops : /\ points = s.points
                        /\ ledger = {Paid(None, None, u, s.points[u]) : u \in Members}
  BY DEF Init
<1>2. s.points \in [Members -> Nat]
  BY ShopAssumption DEF Shop
<1>3. WritesLast
  BY <1>1, NullAssumption DEF WritesLast, Paid
<1>4. ASSUME NEW u \in Members PROVE IsFiniteSet(Account(u)) /\ points[u] = Total(Account(u))
  <2>. PICK e : e = Paid(None, None, u, s.points[u])
    OBVIOUS
  <2>1. e.user = u /\ e.amount = points[u] /\ points[u] \in Int
    BY <1>1, <1>2 DEF Paid
  <2>2. Account(u) = {e}
    BY <1>1 DEF Account, Paid
  <2>3. Total({e}) = points[u]
    BY <2>1, TotalOfOne
  <2>. QED  BY <2>2, <2>3, FS_Singleton
<1>. QED  BY <1>3, <1>4 DEF BooksInv

\* Whatever calls overlap, stale or not, a balance is what the entries of the ledger add up to.
THEOREM BalancesExplained == Spec => []LedgerAgrees
<1>1. TypeInv /\ BooksInv /\ [Next]_vars => (TypeInv /\ BooksInv)'
  BY NextTypes, NextKeepsBooks
<1>2. Init => TypeInv /\ BooksInv
  BY InitRewards, InitBooks
<1>. QED  BY <1>1, <1>2, BooksAgree, PTL DEF Spec
=============================================================================
