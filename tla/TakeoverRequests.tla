--------------------------- MODULE TakeoverRequests ---------------------------
(***************************************************************************)
(* Offers of a chore to another member: ask, accept, decline, and the      *)
(* worker that lets unanswered offers expire.  A positive Delta pays who   *)
(* accepts, a negative one costs who asks, but never more than the balance *)
(* that was read a statement earlier.                                      *)
(***************************************************************************)
EXTENDS ChoreStore

Pending(c, u, v) ==
    {o \in Offers : offer[o] = [chore |-> c, from |-> u, to |-> v, status |-> "PENDING"]}

\* An adult asks another member to take over a chore of its own.
AskRead(r) ==
    /\ MayBegin(r, "ask")
    /\ \E u \in Adults, v \in Users, c \in Existing :
        /\ inst[c].assignee = u
        /\ inst[c].state \notin Settled
        /\ u # v
        /\ Becomes(r, [Begin("ask", u, "pending") EXCEPT !.chore = c, !.to = v])
    /\ UNCHANGED <<inst, offer, points, ledger>>

\* Only one offer of a chore to a member at a time; checked outside the
\* transaction, which reads the balance before it writes if there is a cost.
AskCheck(r) ==
    /\ At(r, {"ask"}, "pending")
    /\ IF Pending(call[r].chore, call[r].actor, call[r].to) # {} THEN Return(r)
       ELSE Go(r, IF Delta < 0 THEN "balance" ELSE "write")
    /\ UNCHANGED <<inst, offer, points, ledger>>

AskBalance(r) ==
    /\ At(r, {"ask"}, "balance")
    /\ Becomes(r, [call[r] EXCEPT !.at = "write", !.bal = points[call[r].actor]])
    /\ UNCHANGED <<inst, offer, points, ledger>>

Takeover(r, n) == [by |-> r, chore |-> call[r].chore, user |-> call[r].actor,
                   amount |-> n, kind |-> "takeover", rev |-> rev[call[r].chore]]

\* The cost: no more than the balance read, nothing if that is not positive.
AskCost(r) == IF Delta < 0 /\ call[r].bal > 0 THEN Least(call[r].bal, -Delta) ELSE 0

Ask(r) ==
    /\ At(r, {"ask"}, "write")
    /\ \E o \in Offers : offer[o].status = "ABSENT"
    /\ offer' = [offer EXCEPT ![FreshOffer] =
                    [chore |-> call[r].chore, from |-> call[r].actor,
                     to |-> call[r].to, status |-> "PENDING"]]
    /\ points' = [points EXCEPT ![call[r].actor] = @ - AskCost(r)]
    /\ ledger' = IF AskCost(r) = 0 THEN ledger
                 ELSE ledger \cup {Takeover(r, -AskCost(r))}
    /\ Return(r)
    /\ UNCHANGED inst

-----------------------------------------------------------------------------

\* The invited member answers an offer that is still open.
AcceptRead(r) ==
    /\ MayBegin(r, "accept")
    /\ \E o \in Offers :
        LET c == offer[o].chore
        IN  /\ offer[o].status = "PENDING"
            /\ inst[c].assignee = offer[o].from
            /\ inst[c].state \notin Settled
            /\ Becomes(r, [Begin("accept", offer[o].to, "write") EXCEPT !.chore = c,
                                                                      !.offer = o])
    /\ UNCHANGED <<inst, offer, points, ledger>>

\* As if the other offers of the chore were left open.
AcceptOneOfMany(r) ==
    LET c == call[r].chore
        u == call[r].actor
    IN  /\ At(r, {"accept"}, "write")
        /\ offer' = [offer EXCEPT ![call[r].offer].status = "APPROVED"]
        /\ Save(c, [inst[c] EXCEPT !.assignee = u, !.state = "ASSIGNED", !.locked = TRUE])
        /\ points' = IF Delta > 0 THEN [points EXCEPT ![u] = @ + Delta] ELSE points
        /\ ledger' = IF Delta > 0 THEN ledger \cup {Takeover(r, Delta)} ELSE ledger
        /\ Go(r, "flex")

\* One transaction: the offer is approved, the others on the chore cancelled,
\* the chore handed over, the bonus paid.
Accept(r) ==
    LET c == call[r].chore
        u == call[r].actor
    IN  /\ At(r, {"accept"}, "write")
        /\ offer' = [Cancelled({c}) EXCEPT ![call[r].offer].status = "APPROVED"]
        /\ Save(c, [inst[c] EXCEPT !.assignee = u, !.state = "ASSIGNED", !.locked = TRUE])
        /\ points' = IF Delta > 0 THEN [points EXCEPT ![u] = @ + Delta] ELSE points
        /\ ledger' = IF Delta > 0 THEN ledger \cup {Takeover(r, Delta)} ELSE ledger
        /\ Go(r, "flex")

DeclineRead(r) ==
    /\ MayBegin(r, "decline")
    /\ \E o \in Offers :
        /\ offer[o].status = "PENDING"
        /\ Becomes(r, [Begin("decline", offer[o].to, "write") EXCEPT !.offer = o])
    /\ UNCHANGED <<inst, offer, points, ledger>>

Decline(r) ==
    /\ At(r, {"decline"}, "write")
    /\ offer' = [offer EXCEPT ![call[r].offer].status = "DECLINED"]
    /\ Return(r)
    /\ UNCHANGED <<inst, points, ledger>>

-----------------------------------------------------------------------------

\* The reminder worker lists the offers pending for longer than the window (S)
\* and cancels them one by one.
ExpireList(r) ==
    /\ MayBegin(r, "expire")
    /\ \E S \in SUBSET {o \in Offers : offer[o].status = "PENDING"} :
        /\ S # {}
        /\ Becomes(r, [Begin("expire", None, "sweep") EXCEPT !.todo = S])
    /\ UNCHANGED <<inst, offer, points, ledger>>

ExpireOffer(r) ==
    /\ At(r, {"expire"}, "sweep")
    /\ \E o \in call[r].todo \cap Offers :
        /\ offer' = [offer EXCEPT ![o].status = "CANCELLED"]
        /\ Visited(r, o)
    /\ UNCHANGED <<inst, points, ledger>>

TakeoverStep(r) ==
    \/ AskRead(r) \/ AskCheck(r) \/ AskBalance(r) \/ Ask(r)
    \/ AcceptRead(r) \/ Accept(r) \/ DeclineRead(r) \/ Decline(r)
    \/ ExpireList(r) \/ ExpireOffer(r)
=============================================================================
