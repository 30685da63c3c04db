---------------------------- MODULE ChoreSettlement ----------------------------
(***************************************************************************)
(* How a chore is settled: submit, complete-external, approve and reject.  *)
(* The transition itself is a conditional update, UPDATE .. WHERE state    *)
(* IN (..), so of several calls only one can win it.  The winner then pays *)
(* the beneficiary, writes the ledger entry, creates the follow-up chores  *)
(* and the next occurrence, each in a statement of its own.                *)
(***************************************************************************)
EXTENDS ChoreStore

\* The conditional update without its condition on completed chores.
Resubmittable == {"OPEN", "ASSIGNED", "IN_PROGRESS", "NEEDS_FIXES", "OVERDUE", "COMPLETED"}
Submittable == {"OPEN", "ASSIGNED", "IN_PROGRESS", "NEEDS_FIXES", "OVERDUE"}
Submits == {"submit", "external"}
Reviews == {"approve", "reject"}

-----------------------------------------------------------------------------
(* The service reads the chore and checks it.                                *)

\* A child may hand in its own or an unassigned chore.
SubmitRead(r) ==
    /\ MayBegin(r, "submit")
    /\ \E u \in Users, c \in Existing :
        /\ u \in Adults \/ inst[c].assignee \in {None, u}
        /\ inst[c].state # "COMPLETED"
        /\ Checked(r, "submit", u, c, "write")
    /\ UNCHANGED <<inst, offer, points, ledger>>

\* Completion by somebody outside the household; the state is not looked at.
ExternalRead(r) ==
    /\ MayBegin(r, "external")
    /\ \E u \in Adults, c \in Existing :
        Checked(r, "external", u, c, "write")
    /\ UNCHANGED <<inst, offer, points, ledger>>

ReviewRead(r) ==
    /\ \E op \in Reviews, u \in Adults, c \in Existing :
        /\ MayBegin(r, op)
        /\ inst[c].state = "PENDING_APPROVAL"
        /\ Checked(r, op, u, c, "write")
    /\ UNCHANGED <<inst, offer, points, ledger>>

-----------------------------------------------------------------------------
(* The conditional update and what is left to do for its winner.             *)

\* As if only an assigned child needed a review.
AssignedNeedsReview(r) ==
    IF call[r].op = "submit" /\ call[r].actor \notin Adults
       /\ inst[call[r].chore].assignee # None
    THEN "PENDING_APPROVAL" ELSE "COMPLETED"
SubmitTarget(r) ==
    IF call[r].op = "submit" /\ call[r].actor \notin Adults
    THEN "PENDING_APPROVAL" ELSE "COMPLETED"
\* As if a rejection had a state of its own.
RejectedTarget(r) == IF call[r].op = "approve" THEN "COMPLETED" ELSE "REJECTED"
ReviewTarget(r) == IF call[r].op = "approve" THEN "COMPLETED" ELSE "NEEDS_FIXES"

\* The call won the update: it keeps the row it wrote and the revision it made.
Made(c, row) == IF row.state = inst[c].state THEN rev[c] ELSE rev[c] + 1
Won(r, row, next) ==
    Becomes(r, [call[r] EXCEPT !.at = next, !.row = row, !.won = Made(call[r].chore, row)])

SubmitWin(r) ==
    LET c == call[r].chore
        row == [inst[c] EXCEPT !.state = SubmitTarget(r), !.submitter = call[r].actor]
    IN  /\ At(r, Submits, "write")
        /\ inst[c].state \in Submittable
        /\ Save(c, row)
        /\ offer' = Cancelled({c})
        /\ \/ /\ SubmitTarget(r) = "PENDING_APPROVAL"
              /\ Return(r)
           \/ /\ SubmitTarget(r) = "COMPLETED"
              /\ Won(r, row, IF call[r].op = "external" THEN "follow" ELSE "credit")
        /\ UNCHANGED <<points, ledger>>

\* As if a retry of what is already done were paid once more.
RetryPaid(r) ==
    LET row == inst[call[r].chore]
    IN  /\ At(r, Submits, "write")
        /\ row.state \notin Submittable
        /\ IF row.state = SubmitTarget(r) THEN Won(r, row, "credit") ELSE Return(r)
        /\ UNCHANGED <<inst, offer, points, ledger>>

\* The state moved on meanwhile.  A retry of what is already done gets the row
\* as its answer, anything else a conflict; neither has an effect.
SubmitLose(r) ==
    /\ At(r, Submits, "write")
    /\ inst[call[r].chore].state \notin Submittable
    /\ Return(r)
    /\ UNCHANGED <<inst, offer, points, ledger>>

ReviewWin(r) ==
    LET c == call[r].chore
        row == [inst[c] EXCEPT !.state = ReviewTarget(r)]
    IN  /\ At(r, Reviews, "write")
        /\ inst[c].state = "PENDING_APPROVAL"
        /\ Save(c, row)
        /\ \/ /\ call[r].op = "approve"
              /\ Won(r, row, "credit")
           \/ /\ call[r].op = "reject"
              /\ Return(r)
        /\ UNCHANGED <<offer, points, ledger>>

ReviewLose(r) ==
    /\ At(r, Reviews, "write")
    /\ inst[call[r].chore].state # "PENDING_APPROVAL"
    /\ Return(r)
    /\ UNCHANGED <<inst, offer, points, ledger>>

-----------------------------------------------------------------------------
(* After a win: points, ledger, follow-ups, next occurrence.                 *)

\* The assignee earns the points; without one the actor of a submission, the
\* submitter of a reviewed chore.
Beneficiary(r) ==
    LET row == call[r].row
    IN  IF row.assignee # None THEN row.assignee
        ELSE IF call[r].op = "submit" THEN call[r].actor ELSE row.submitter

\* As if the review forgot the ledger.
ReviewUnrecorded(r) ==
    LET u == Beneficiary(r)
    IN  /\ At(r, {"submit", "approve"}, "credit")
        /\ points' = IF u = None THEN points ELSE [points EXCEPT ![u] = @ + Award]
        /\ Becomes(r, [call[r] EXCEPT !.at = IF u = None \/ call[r].op = "approve"
                                             THEN "follow" ELSE "ledger", !.to = u])
        /\ UNCHANGED <<inst, offer, ledger>>

Credit(r) ==
    LET u == Beneficiary(r)
    IN  /\ At(r, {"submit", "approve"}, "credit")
        /\ points' = IF u = None THEN points ELSE [points EXCEPT ![u] = @ + Award]
        /\ Becomes(r, [call[r] EXCEPT !.at = IF u = None THEN "follow" ELSE "ledger", !.to = u])
        /\ UNCHANGED <<inst, offer, ledger>>

\* As if the entry named who made the call.
PaidToCaller(r) == [by |-> r, chore |-> call[r].chore, user |-> call[r].actor,
                    amount |-> Award, kind |-> "completion", rev |-> call[r].won]
Paid(r) == [by |-> r, chore |-> call[r].chore, user |-> call[r].to,
            amount |-> Award, kind |-> "completion", rev |-> call[r].won]

RecordCompletion(r) ==
    /\ At(r, {"submit", "approve"}, "ledger")
    /\ ledger' = ledger \cup {Paid(r)}
    /\ Go(r, "follow")
    /\ UNCHANGED <<inst, offer, points>>

\* Rows made for a finished occurrence belong to its cycle; the first of a
\* cycle that had no id lends it its own.
\* As if every occurrence began a cycle of its own.
OwnCycle(r) == call[r].chore
CycleOf(r) == IF call[r].row.cycle = None THEN call[r].chore ELSE call[r].row.cycle
BornOf(r, kind, t) ==
    [from |-> call[r].chore, rev |-> call[r].won, kind |-> kind, of |-> t]

NeedsFollowUps(r) ==
    IF call[r].row.tmpl = None THEN {} ELSE FollowUps[call[r].row.tmpl]

Repeats(t) == t \in Recurring

FollowUpRow(r, t, u) ==
    [Blank EXCEPT !.state = AssignedState(u), !.assignee = u, !.tmpl = t,
                  !.recurs = Repeats(t), !.cycle = CycleOf(r),
                  !.root = call[r].row.root, !.born = BornOf(r, "followUp", t)]

\* Ids for the rows of one transaction: fresh and pairwise different.
FreshIds(T) == CHOOSE id \in [T -> Chores \ Existing] :
                   \A s, t \in T : id[s] = id[t] => s = t

\* One transaction creates the follow-ups of every dependent template; who gets
\* each of them is the assignment strategy's choice (u).
CreateFollowUps(r) ==
    LET T == NeedsFollowUps(r)
        id == FreshIds(T)
        made(c) == CHOOSE t \in T : id[t] = c
    IN  /\ At(r, {"submit", "external", "approve"}, "follow")
        /\ id \in [T -> Chores \ Existing]
        /\ \A s, t \in T : id[s] = id[t] => s = t
        /\ \E u \in [T -> Maybe(Users)] :
              inst' = [c \in Chores |-> IF \E t \in T : id[t] = c
                                       THEN FollowUpRow(r, made(c), u[made(c)])
                                       ELSE inst[c]]
        /\ Go(r, "renew")
        /\ UNCHANGED <<offer, points, ledger>>

\* createRecurringInstance makes another occurrence: the chore repeats and its
\* count of occurrences, if it has one, is not used up.
Renews(r) ==
    /\ call[r].row.recurs
    /\ call[r].row.tmpl # None
    /\ call[r].row.left # 0

NextRow(r, c, u) ==
    [Blank EXCEPT !.state = AssignedState(u), !.assignee = u,
                  !.tmpl = call[r].row.tmpl, !.recurs = TRUE,
                  !.left = IF call[r].row.left > 0 THEN call[r].row.left - 1
                                                   ELSE call[r].row.left,
                  !.cycle = CycleOf(r), !.root = c,
                  !.born = BornOf(r, IF call[r].op = "cancelOccurrence"
                                     THEN "reissue" ELSE "renewal", call[r].row.tmpl)]

\* An internal completion goes on to the rebalancing of the household.
AfterRenewal(r) == IF call[r].op \in {"submit", "approve"} THEN Go(r, "flex") ELSE Return(r)

Renew(r) ==
    /\ At(r, {"submit", "external", "approve", "cancelOccurrence"}, "renew")
    /\ \/ /\ Renews(r)
          /\ Chores \ Existing # {}
          /\ \E u \in Maybe(Users) : Save(Fresh, NextRow(r, Fresh, u))
       \/ /\ ~Renews(r)
          /\ UNCHANGED inst
    /\ AfterRenewal(r)
    /\ UNCHANGED <<offer, points, ledger>>

Settlement(r) ==
    \/ SubmitRead(r) \/ ExternalRead(r) \/ ReviewRead(r)
    \/ SubmitWin(r) \/ SubmitLose(r) \/ ReviewWin(r) \/ ReviewLose(r)
    \/ Credit(r) \/ RecordCompletion(r) \/ CreateFollowUps(r) \/ Renew(r)
=============================================================================
