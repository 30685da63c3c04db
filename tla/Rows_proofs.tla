------------------------------ MODULE Rows_proofs ------------------------------
(***************************************************************************)
(* What may become of a chore row, for every set of members, chores, offers *)
(* and calls: what exists stays, calls refer to what exists, and on that    *)
(* ground only adults complete a chore, an offer is accepted together with  *)
(* its handover, a completion has each successor once, and the chores of an *)
(* occurrence stay under their root.                                        *)
(***************************************************************************)
EXTENDS Household_proofs

\* The chores that the record of a call names: its own, those on its list.
Held(x) ==
    {c \in Chores : \/ x.chore = c
                    \/ x.op \notin {"expire", "fine"} /\ c \in x.todo
                    \/ x.op = "fine" /\ \E u \in Maybe(Users) : <<c, u>> \in x.todo}

\* The calls that only an adult may make and that can complete a chore.
Graded == {"external", "approve", "update", "quickLog"}

\* What a call knows is still so: its chores exist, its actor was admitted, the
\* row it will write back was there, the offer it answers is of its chore and
\* made to its actor.
Knows(x) ==
    /\ Held(x) \subseteq Existing
    /\ x.op \in Graded => x.actor \in Adults
    /\ x.op = "update" /\ x.at = "write" => x.row.state # "ABSENT"
    /\ x.op = "accept" /\ x.at = "write" =>
        /\ x.offer \in Offers /\ offer[x.offer].status # "ABSENT"
        /\ offer[x.offer].chore = x.chore /\ offer[x.offer].to = x.actor

OffersKnown == \A o \in Offers : offer[o].status = "PENDING" => offer[o].chore \in Existing
KnowInv == OffersKnown /\ \A r \in Requests : Knows(call[r])

-----------------------------------------------------------------------------
(* What a step may do to the rows and offers that exist.                     *)

\* Call r writes existing rows only; none disappears or moves to another
\* occurrence, and if it completes one its actor is an adult.
Edits(r) ==
    \A c \in Chores :
        \/ inst'[c] = inst[c]
        \/ /\ c \in Existing /\ inst'[c].state # "ABSENT"
           /\ inst'[c].born = inst[c].born
           /\ inst'[c].root = inst[c].root /\ inst'[c].cycle = inst[c].cycle
           /\ inst'[c].state = "COMPLETED" /\ inst[c].state # "COMPLETED" =>
                call[r].actor \in Adults /\ call'[r] # call[r]

\* One new row, the root of its occurrence, that no completion calls for.
Adds ==
    \E c \in Chores \ Existing : \E row :
        /\ Save(c, row) /\ row.state # "ABSENT"
        /\ row.root = c /\ row.born = Created

\* Existing rows keep their place.
RowsKept ==
    \A c \in Existing :
        /\ inst'[c].state # "ABSENT"
        /\ inst'[c].root = inst[c].root /\ inst'[c].cycle = inst[c].cycle

\* Offers keep what they offer, to whom.
OffersKept ==
    \A o \in Offers : offer[o].status # "ABSENT" =>
        /\ offer'[o].status # "ABSENT"
        /\ offer'[o].chore = offer[o].chore /\ offer'[o].to = offer[o].to

LEMMA Became ==
    ASSUME TypeInv, NEW r \in Requests, NEW x, Becomes(r, x)
    PROVE  call'[r] = x /\ \A s \in Requests : s # r => call'[s] = call[s]
BY DEF Becomes, TypeInv, TypeOK

\* The chore of a call between two statements exists.
LEMMA OwnChore ==
    ASSUME TypeInv, KnowInv, NEW r \in Requests,
           call[r].at \notin {"idle", "done", "bill"}, call[r].op \notin {"expire", "decline"}
    PROVE  call[r].chore \in Existing /\ inst[call[r].chore] \in Row
<1>1. call[r].chore \in Chores
  BY DEF TypeInv, Fit
<1>. QED BY <1>1 DEF KnowInv, Knows, Held, TypeInv, TypeOK

\* One existing row is written.
LEMMA Rewriting ==
    ASSUME TypeInv, NEW r \in Requests, NEW c \in Existing, NEW row, Save(c, row),
           row.state # "ABSENT", row.born = inst[c].born,
           row.root = inst[c].root, row.cycle = inst[c].cycle,
           row.state = "COMPLETED" /\ inst[c].state # "COMPLETED" =>
               call[r].actor \in Adults /\ call'[r] # call[r]
    PROVE  Edits(r)
<1>1. \A d \in Chores : inst'[d] = IF d = c THEN row ELSE inst[d]
  BY DEF Save, TypeInv, TypeOK
<1>. QED BY <1>1 DEF Edits

LEMMA Unwritten == ASSUME NEW r, UNCHANGED inst PROVE Edits(r)
BY DEF Edits

\* The fields that no written row changes.
LEMMA RowPlace ==
    ASSUME NEW x \in Row, NEW s, NEW u, NEW l, NEW t, NEW re, NEW n
    PROVE  LET Same(y) == y.state = s /\ y.born = x.born /\ y.root = x.root /\ y.cycle = x.cycle
           IN  /\ Same([x EXCEPT !.state = s])
               /\ Same([x EXCEPT !.state = s, !.submitter = u])
               /\ Same([x EXCEPT !.assignee = u, !.state = s, !.locked = l])
               /\ Same([x EXCEPT !.state = s, !.fined = l])
               /\ Same([x EXCEPT !.assignee = u, !.locked = l, !.tmpl = t, !.recurs = re,
                                 !.left = n, !.state = s])
BY DEF Row

LEMMA HandedOver ==
    ASSUME NEW x \in Row, NEW u
    PROVE  LET y == [x EXCEPT !.assignee = u, !.state = "ASSIGNED", !.locked = TRUE]
           IN  y.assignee = u /\ y.state = "ASSIGNED" /\ y.locked = TRUE
BY DEF Row

LEMMA SettlementRows ==
    ASSUME TypeInv, KnowInv, NEW r \in Requests, Settlement(r)
    PROVE  Edits(r) \/ CreateFollowUps(r) \/ (Renew(r) /\ Renews(r))
<1>0. call[r] \in Call /\ Fit(call[r]) /\ Knows(call[r])
  BY DEF TypeInv, TypeOK, KnowInv
<1>1. CASE SubmitWin(r)
  <2>. DEFINE c == call[r].chore
              row == [inst[c] EXCEPT !.state = SubmitTarget(r), !.submitter = call[r].actor]
  <2>1. c \in Existing /\ inst[c] \in Row
    BY <1>1, OwnChore DEF SubmitWin, At, Submits
  <2>2. /\ row.state = SubmitTarget(r) /\ row.born = inst[c].born
        /\ row.root = inst[c].root /\ row.cycle = inst[c].cycle
    BY <2>1, RowPlace
  <2>3. row.state = "COMPLETED" => call[r].actor \in Adults
    BY <1>0, <1>1, <2>2 DEF SubmitTarget, SubmitWin, At, Submits, Knows, Graded
  <2>4. call'[r] # call[r]
    <3>1. call[r].at = "write"
      BY <1>1 DEF SubmitWin, At
    <3>2. CASE Return(r)
      BY <3>1, <3>2, Became DEF Return, Returned, Idle
    <3>3. ASSUME NEW p \in {"follow", "credit"}, Won(r, row, p) PROVE call'[r].at = p
      BY <1>0, <3>3, Became DEF Won, Call
    <3>. QED BY <1>1, <3>1, <3>2, <3>3 DEF SubmitWin
  <2>5. Save(c, row) /\ row.state # "ABSENT"
    BY <1>1, <2>2 DEF SubmitWin, SubmitTarget
  <2>. HIDE DEF row
  <2>. QED BY <2>1, <2>2, <2>3, <2>4, <2>5, Rewriting
<1>2. CASE ReviewWin(r)
  <2>. DEFINE c == call[r].chore
              row == [inst[c] EXCEPT !.state = ReviewTarget(r)]
  <2>1. c \in Existing /\ inst[c] \in Row
    BY <1>2, OwnChore DEF ReviewWin, At, Reviews
  <2>2. /\ row.state = ReviewTarget(r) /\ row.born = inst[c].born
        /\ row.root = inst[c].root /\ row.cycle = inst[c].cycle
    BY <2>1, RowPlace
  <2>3. row.state = "COMPLETED" => call[r].actor \in Adults
    BY <1>0, <1>2, <2>2 DEF ReviewTarget, ReviewWin, At, Reviews, Knows, Graded
  <2>4. call'[r] # call[r]
    <3>1. call[r].at = "write"
      BY <1>2 DEF ReviewWin, At
    <3>2. CASE Return(r)
      BY <3>1, <3>2, Became DEF Return, Returned, Idle
    <3>3. CASE Won(r, row, "credit")
      <4>1. call'[r].at = "credit"
        BY <1>0, <3>3, Became DEF Won, Call
      <4>. QED BY <3>1, <4>1
    <3>. QED BY <1>2, <3>2, <3>3 DEF ReviewWin
  <2>5. Save(c, row) /\ row.state # "ABSENT"
    BY <1>2, <2>2 DEF ReviewWin, ReviewTarget
  <2>. HIDE DEF row
  <2>. QED BY <2>1, <2>2, <2>3, <2>4, <2>5, Rewriting
<1>3. CASE UNCHANGED inst
  BY <1>3, Unwritten
<1>. QED
  BY <1>1, <1>2, <1>3 DEF Settlement, SubmitRead, ExternalRead, ReviewRead, SubmitLose,
     ReviewLose, Credit, RecordCompletion, Renew

LEMMA EditingRows ==
    ASSUME TypeInv, KnowInv, NEW r \in Requests, Editing(r)
    PROVE  Edits(r) \/ Adds
<1>0. call[r] \in Call /\ Fit(call[r]) /\ Knows(call[r]) /\ inst \in [Chores -> Row]
  BY DEF TypeInv, TypeOK, KnowInv
<1>1. CASE UNCHANGED inst
  BY <1>1, Unwritten
<1>2. CASE Claim(r)
  <2>. DEFINE c == call[r].chore
              row == [inst[c] EXCEPT !.assignee = call[r].actor, !.state = "ASSIGNED",
                                     !.locked = TRUE]
  <2>1. c \in Existing /\ inst[c] \in Row
    BY <1>2, OwnChore DEF Claim, At
  <2>2. /\ row.state = "ASSIGNED" /\ row.born = inst[c].born
        /\ row.root = inst[c].root /\ row.cycle = inst[c].cycle
    BY <2>1, RowPlace
  <2>3. Save(c, row)
    BY <1>2 DEF Claim
  <2>. HIDE DEF row
  <2>. QED BY <2>1, <2>2, <2>3, Rewriting
<1>3. CASE Update(r)
  <2>. DEFINE c == call[r].chore
  <2>1. c \in Existing /\ inst[c] \in Row
    BY <1>3, OwnChore DEF Update, At
  <2>2. PICK u \in Maybe(Users), locked \in BOOLEAN, recurs \in BOOLEAN, t \in Templates,
                left \in Counts \cup {call[r].row.left} :
          /\ \/ u = call[r].row.assignee /\ locked = call[r].row.locked
             \/ u # None /\ locked
             \/ ~locked
          /\ t = call[r].row.tmpl => recurs = call[r].row.recurs
          /\ left # call[r].row.left => recurs
          /\ Save(c, [inst[c] EXCEPT !.assignee = u, !.locked = locked, !.tmpl = t,
                                     !.recurs = recurs, !.left = left,
                                     !.state = call[r].row.state])
    BY <1>3, Zenon DEF Update
  <2>. DEFINE row == [inst[c] EXCEPT !.assignee = u, !.locked = locked, !.tmpl = t,
                                     !.recurs = recurs, !.left = left,
                                     !.state = call[r].row.state]
  <2>3. /\ row.state = call[r].row.state /\ row.born = inst[c].born
        /\ row.root = inst[c].root /\ row.cycle = inst[c].cycle
    BY <2>1, RowPlace
  <2>4. call[r].actor \in Adults /\ call[r].row.state # "ABSENT"
    BY <1>0, <1>3 DEF Update, At, Knows, Graded
  <2>5. call'[r] # call[r]
    <3>1. Becomes(r, [call[r] EXCEPT !.at = "flex"]) /\ call[r].at = "write"
      BY <1>3 DEF Update, Go, At
    <3>. QED BY <1>0, <3>1, Became DEF Call
  <2>6. Save(c, row)
    BY <2>2
  <2>. HIDE DEF row
  <2>. QED BY <2>1, <2>3, <2>4, <2>5, <2>6, Rewriting
<1>4. CASE Cancel(r)
  <2>1. call[r].todo \cap Chores \subseteq Existing
    BY <1>0, <1>4 DEF Cancel, At, Knows, Held
  <2>2. \A c \in Chores : inst'[c] = IF c \in call[r].todo
                                     THEN [inst[c] EXCEPT !.state = "CANCELLED"] ELSE inst[c]
    BY <1>4 DEF Cancel
  <2>3. ASSUME NEW c \in Chores, c \in call[r].todo
        PROVE  /\ inst'[c].state = "CANCELLED" /\ inst'[c].born = inst[c].born
               /\ inst'[c].root = inst[c].root /\ inst'[c].cycle = inst[c].cycle
    <3>1. inst[c] \in Row /\ inst'[c] = [inst[c] EXCEPT !.state = "CANCELLED"]
      BY <1>0, <2>2, <2>3
    <3>. QED BY <3>1, RowPlace
  <2>. QED BY <2>1, <2>2, <2>3 DEF Edits
<1>5. CASE Release(r)
  <2>1. PICK c \in Existing : Save(c, [inst[c] EXCEPT !.state = "OPEN"])
    BY <1>5 DEF Release
  <2>. DEFINE row == [inst[c] EXCEPT !.state = "OPEN"]
  <2>2. inst[c] \in Row
    BY <1>0 DEF Existing
  <2>3. /\ row.state = "OPEN" /\ row.born = inst[c].born
        /\ row.root = inst[c].root /\ row.cycle = inst[c].cycle
    BY <2>2, RowPlace
  <2>4. Save(c, row)
    BY <2>1
  <2>. HIDE DEF row
  <2>. QED BY <2>3, <2>4, Rewriting
<1>6. CASE Snooze(r)
  <2>1. PICK c \in Existing : Save(c, [inst[c] EXCEPT !.state = "DEFERRED"])
    BY <1>6 DEF Snooze
  <2>. DEFINE row == [inst[c] EXCEPT !.state = "DEFERRED"]
  <2>2. inst[c] \in Row
    BY <1>0 DEF Existing
  <2>3. /\ row.state = "DEFERRED" /\ row.born = inst[c].born
        /\ row.root = inst[c].root /\ row.cycle = inst[c].cycle
    BY <2>2, RowPlace
  <2>4. Save(c, row)
    BY <2>1
  <2>. HIDE DEF row
  <2>. QED BY <2>3, <2>4, Rewriting
<1>7. CASE List(r)
  <2>1. PICK S \in SUBSET {c \in Chores : inst[c].state = "DEFERRED"} :
           inst' = [c \in Chores |-> IF c \in S THEN [inst[c] EXCEPT !.state = "OPEN"]
                                                ELSE inst[c]]
    BY <1>7 DEF List
  <2>2. S \subseteq Existing
    BY DEF Existing
  <2>3. ASSUME NEW c \in S
        PROVE  /\ inst'[c].state = "OPEN" /\ inst'[c].born = inst[c].born
               /\ inst'[c].root = inst[c].root /\ inst'[c].cycle = inst[c].cycle
    <3>1. inst[c] \in Row /\ inst'[c] = [inst[c] EXCEPT !.state = "OPEN"]
      BY <1>0, <2>1
    <3>. QED BY <3>1, RowPlace
  <2>. QED BY <2>1, <2>2, <2>3 DEF Edits
<1>8. CASE Create(r)
  <2>1. PICK a \in Adults, t \in Templates, recurs \in BOOLEAN, left \in Counts,
             u \in Maybe(Users), locked \in BOOLEAN :
          Save(Fresh, CreateRow(Fresh, t, recurs, left, u, locked))
    BY <1>8 DEF Create
  <2>2. Fresh \in Chores \ Existing
    BY <1>8 DEF Create, Fresh
  <2>. DEFINE row == CreateRow(Fresh, t, recurs, left, u, locked)
  <2>3. row.state = AssignedState(u) /\ row.root = Fresh /\ row.born = Created
    BY DEF CreateRow, Blank
  <2>4. row.state # "ABSENT"
    BY <2>3 DEF AssignedState
  <2>. QED BY <2>1, <2>2, <2>3, <2>4 DEF Adds
<1>9. CASE QuickLog(r)
  <2>. DEFINE c == call[r].chore
              u == IF call[r].row.submitter = None THEN call[r].actor ELSE call[r].row.submitter
              row == [inst[c] EXCEPT !.state = "COMPLETED", !.submitter = u]
  <2>1. c \in Existing /\ inst[c] \in Row
    BY <1>9, OwnChore DEF QuickLog, At
  <2>2. /\ row.state = "COMPLETED" /\ row.born = inst[c].born
        /\ row.root = inst[c].root /\ row.cycle = inst[c].cycle
    BY <2>1, RowPlace
  <2>3. call[r].actor \in Adults
    BY <1>0, <1>9 DEF QuickLog, At, Knows, Graded
  <2>4. call'[r] # call[r]
    BY <1>9, Became DEF QuickLog, At, Return, Returned, Idle
  <2>5. Save(c, row)
    BY <1>9 DEF QuickLog
  <2>. HIDE DEF row
  <2>. QED BY <2>1, <2>2, <2>3, <2>4, <2>5, Rewriting
<1>10. CASE QuickLogNew(r)
  <2>1. PICK u \in Adults, t \in Maybe(Templates) :
          Save(Fresh, [Blank EXCEPT !.state = "COMPLETED", !.assignee = u,
                           !.locked = TRUE, !.submitter = u, !.tmpl = t,
                           !.root = Fresh, !.born = Created])
    BY <1>10 DEF QuickLogNew
  <2>2. Fresh \in Chores \ Existing
    BY <1>10 DEF QuickLogNew, Fresh
  <2>. DEFINE row == [Blank EXCEPT !.state = "COMPLETED", !.assignee = u,
                           !.locked = TRUE, !.submitter = u, !.tmpl = t,
                           !.root = Fresh, !.born = Created]
  <2>3. row.state = "COMPLETED" /\ row.root = Fresh /\ row.born = Created
    BY DEF Blank
  <2>. QED BY <2>1, <2>2, <2>3 DEF Adds
<1>. QED
  BY <1>1, <1>2, <1>3, <1>4, <1>5, <1>6, <1>7, <1>8, <1>9, <1>10
     DEF Editing, StartRead, TakeOverRead, CancelOffers, UpdateRead, UpdateReread, CancelRead,
         CancelOccurrenceRead, CloseCycleRead, ListSiblings, QuickLogRead

LEMMA OtherRows ==
    ASSUME TypeInv, KnowInv, NEW r \in Requests,
           TakeoverStep(r) \/ PenaltyStep(r) \/ Rebalance(r) \/ Break(r)
    PROVE  Edits(r)
<1>0. call[r] \in Call /\ Fit(call[r]) /\ Knows(call[r]) /\ inst \in [Chores -> Row]
  BY DEF TypeInv, TypeOK, KnowInv
<1>1. CASE UNCHANGED inst
  BY <1>1, Unwritten
<1>2. CASE Accept(r)
  <2>. DEFINE c == call[r].chore
              row == [inst[c] EXCEPT !.assignee = call[r].actor, !.state = "ASSIGNED",
                                     !.locked = TRUE]
  <2>1. c \in Existing /\ inst[c] \in Row
    BY <1>2, OwnChore DEF Accept, At
  <2>2. /\ row.state = "ASSIGNED" /\ row.born = inst[c].born
        /\ row.root = inst[c].root /\ row.cycle = inst[c].cycle
    BY <2>1, RowPlace
  <2>3. Save(c, row)
    BY <1>2 DEF Accept
  <2>. HIDE DEF row
  <2>. QED BY <2>1, <2>2, <2>3, Rewriting
<1>3. CASE Fine(r)
  <2>. DEFINE c == call[r].chore
              row == [inst[c] EXCEPT !.state = "OVERDUE", !.fined = TRUE]
  <2>1. c \in Existing /\ inst[c] \in Row
    BY <1>3, OwnChore DEF Fine, At
  <2>2. /\ row.state = "OVERDUE" /\ row.born = inst[c].born
        /\ row.root = inst[c].root /\ row.cycle = inst[c].cycle
    BY <2>1, RowPlace
  <2>3. Save(c, row)
    BY <1>3 DEF Fine
  <2>. HIDE DEF row
  <2>. QED BY <2>1, <2>2, <2>3, Rewriting
<1>4. CASE Reassign(r)
  <2>1. PICK c \in call[r].todo \cap Chores, u \in Maybe(Users) :
          Save(c, [inst[c] EXCEPT !.assignee = u, !.state = AssignedState(u), !.locked = FALSE])
    BY <1>4 DEF Reassign
  <2>2. c \in Existing /\ inst[c] \in Row
    BY <1>0, <1>4, <2>1 DEF Reassign, At, Rebalancers, Knows, Held
  <2>. DEFINE row == [inst[c] EXCEPT !.assignee = u, !.state = AssignedState(u), !.locked = FALSE]
  <2>3. /\ row.state = AssignedState(u) /\ row.born = inst[c].born
        /\ row.root = inst[c].root /\ row.cycle = inst[c].cycle
    BY <2>2, RowPlace
  <2>4. row.state \in {"OPEN", "ASSIGNED"}
    BY <2>3 DEF AssignedState
  <2>. HIDE DEF row
  <2>5. Save(c, row)
    BY <2>1 DEF row
  <2>. QED BY <2>2, <2>3, <2>4, <2>5, Rewriting
<1>. QED
  BY <1>1, <1>2, <1>3, <1>4
     DEF TakeoverStep, AskRead, AskCheck, AskBalance, Ask, AcceptRead, DeclineRead, Decline,
         ExpireList, ExpireOffer, PenaltyStep, FineList, FineBalance, Rebalance, ReadCandidates,
         Break

LEMMA NewRows ==
    ASSUME TypeInv, NEW r \in Requests, CreateFollowUps(r) \/ (Renew(r) /\ Renews(r))
    PROVE  /\ \A c \in Existing : inst'[c] = inst[c]
           /\ \A c \in Chores : inst'[c] # inst[c] => inst'[c].state # "ABSENT"
<1>1. CASE CreateFollowUps(r)
  <2>. DEFINE T == NeedsFollowUps(r)
              id == FreshIds(T)
  <2>1. PICK u \in [T -> Maybe(Users)] :
          /\ id \in [T -> Chores \ Existing]
          /\ inst' = [c \in Chores |-> IF \E t \in T : id[t] = c
                                       THEN FollowUpRow(r, CHOOSE t \in T : id[t] = c,
                                                        u[CHOOSE t \in T : id[t] = c])
                                       ELSE inst[c]]
    BY <1>1 DEF CreateFollowUps
  <2>2. \A c \in Existing : inst'[c] = inst[c]
    BY <2>1 DEF Existing
  <2>3. \A t, v : FollowUpRow(r, t, v).state = AssignedState(v)
    BY DEF FollowUpRow, Blank
  <2>4. \A c \in Chores : inst'[c] # inst[c] => \E v : inst'[c].state = AssignedState(v)
    BY <2>1, <2>3
  <2>. QED BY <2>2, <2>4 DEF AssignedState
<1>2. CASE Renew(r) /\ Renews(r)
  <2>1. PICK u \in Maybe(Users) : Save(Fresh, NextRow(r, Fresh, u))
    BY <1>2 DEF Renew
  <2>2. Fresh \in Chores \ Existing
    BY <1>2 DEF Renew, Fresh
  <2>3. NextRow(r, Fresh, u).state = AssignedState(u)
    BY DEF NextRow, Blank
  <2>4. \A c \in Chores : inst'[c] = IF c = Fresh THEN NextRow(r, Fresh, u) ELSE inst[c]
    BY <2>1, <2>2 DEF Save, TypeInv, TypeOK
  <2>. QED BY <2>2, <2>3, <2>4 DEF AssignedState, Existing
<1>. QED BY <1>1, <1>2

\* Every step keeps the existing rows where they are.
LEMMA KeepingRows ==
    ASSUME TypeInv, KnowInv, NEW r \in Requests, Step(r) \/ Break(r)
    PROVE  RowsKept
<1>1. CASE Edits(r)
  BY <1>1 DEF Edits, RowsKept, Existing
<1>2. CASE Adds
  BY <1>2 DEF Adds, RowsKept, Existing, Save, TypeInv, TypeOK
<1>3. CASE CreateFollowUps(r) \/ (Renew(r) /\ Renews(r))
  BY <1>3, NewRows DEF RowsKept, Existing
<1>. QED BY <1>1, <1>2, <1>3, SettlementRows, EditingRows, OtherRows DEF Step
-----------------------------------------------------------------------------
(* What a step does to the offers.                                           *)

\* Nothing is approved that was not.
NoneApproved ==
    \A o \in Offers : offer'[o].status = "APPROVED" => offer[o].status = "APPROVED"

\* Nor open that was not.
NoneOpened ==
    \A o \in Offers : offer'[o].status = "PENDING" => offer[o].status = "PENDING"

LEMMA CancellingOffers ==
    ASSUME TypeInv, NEW S, offer' = Cancelled(S)
    PROVE  OffersKept /\ NoneApproved /\ NoneOpened
<1>1. ASSUME NEW o \in Offers
      PROVE  /\ offer'[o].chore = offer[o].chore /\ offer'[o].to = offer[o].to
             /\ \/ offer'[o].status = offer[o].status
                \/ offer'[o].status = "CANCELLED" /\ offer[o].status # "ABSENT"
  BY DEF Cancelled, TypeInv, TypeOK, Offer
<1>. QED BY <1>1 DEF OffersKept, NoneApproved, NoneOpened

\* One offer gets another status.
LEMMA AnsweringOffer ==
    ASSUME TypeInv, NEW o \in Offers, NEW s, s \notin {"ABSENT", "PENDING"},
           offer' = [offer EXCEPT ![o].status = s]
    PROVE  OffersKept /\ NoneOpened /\ (s # "APPROVED" => NoneApproved)
<1>1. ASSUME NEW p \in Offers
      PROVE  /\ offer'[p].chore = offer[p].chore /\ offer'[p].to = offer[p].to
             /\ offer'[p].status = IF p = o THEN s ELSE offer[p].status
  BY DEF TypeInv, TypeOK, Offer
<1>. QED BY <1>1 DEF OffersKept, NoneOpened, NoneApproved

\* One offer is accepted, the others of its chore are cancelled.
LEMMA AcceptingOffer ==
    ASSUME TypeInv, NEW c, NEW o \in Offers,
           offer' = [Cancelled({c}) EXCEPT ![o].status = "APPROVED"]
    PROVE  /\ OffersKept /\ NoneOpened
           /\ \A p \in Offers : /\ offer'[p].chore = offer[p].chore
                                /\ offer'[p].status = "PENDING" => offer[p].chore # c
                                /\ p # o /\ offer'[p].status = "APPROVED"
                                   => offer[p].status = "APPROVED"
<1>. DEFINE f == Cancelled({c})
<1>1. /\ f \in [Offers -> Offer]
      /\ \A p \in Offers : /\ f[p].chore = offer[p].chore /\ f[p].to = offer[p].to
                           /\ f[p].status = offer[p].status \/ f[p].status = "CANCELLED"
                           /\ f[p].status = "PENDING" => f[p].chore # c
  BY DEF Cancelled, Offer, Statuses, TypeInv, TypeOK
<1>2. offer' = [f EXCEPT ![o].status = "APPROVED"]
  OBVIOUS
<1>. HIDE DEF f
<1>3. ASSUME NEW p \in Offers
      PROVE  /\ offer'[p].chore = f[p].chore /\ offer'[p].to = f[p].to
             /\ offer'[p].status = IF p = o THEN "APPROVED" ELSE f[p].status
  <2>1. f[p] \in Offer
    BY <1>1
  <2>2. offer'[p] = IF p = o THEN [f[p] EXCEPT !.status = "APPROVED"] ELSE f[p]
    BY <1>1, <1>2
  <2>. QED BY <2>1, <2>2 DEF Offer
<1>4. ASSUME NEW p \in Offers
      PROVE  /\ offer'[p].chore = offer[p].chore /\ offer'[p].to = offer[p].to
             /\ offer[p].status # "ABSENT" => offer'[p].status # "ABSENT"
             /\ offer'[p].status = "PENDING" => offer[p].status = "PENDING"
             /\ offer'[p].status = "PENDING" => offer[p].chore # c
             /\ p # o /\ offer'[p].status = "APPROVED" => offer[p].status = "APPROVED"
  <2>1. /\ offer'[p].chore = f[p].chore /\ offer'[p].to = f[p].to
        /\ offer'[p].status = IF p = o THEN "APPROVED" ELSE f[p].status
    BY <1>3
  <2>2. /\ f[p].chore = offer[p].chore /\ f[p].to = offer[p].to
        /\ f[p].status = offer[p].status \/ f[p].status = "CANCELLED"
        /\ f[p].status = "PENDING" => f[p].chore # c
    BY <1>1
  <2>3. offer'[p].chore = offer[p].chore /\ offer'[p].to = offer[p].to
    BY <2>1, <2>2
  <2>4. offer[p].status # "ABSENT" => offer'[p].status # "ABSENT"
    BY <2>1, <2>2
  <2>5. offer'[p].status = "PENDING" => offer[p].status = "PENDING"
    BY <2>1, <2>2
  <2>6. offer'[p].status = "PENDING" => offer[p].chore # c
    BY <2>1, <2>2
  <2>7. p # o /\ offer'[p].status = "APPROVED" => offer[p].status = "APPROVED"
    BY <2>1, <2>2
  <2>. QED BY <2>3, <2>4, <2>5, <2>6, <2>7
<1>. QED BY <1>4 DEF OffersKept, NoneOpened

LEMMA StepOffers ==
    ASSUME TypeInv, KnowInv, NEW r \in Requests, Step(r) \/ Break(r)
    PROVE  OffersKept /\ OffersKnown' /\ (NoneApproved \/ Accept(r))
<1>0. Existing \subseteq Existing' /\ OffersKnown
  BY KeepingRows DEF RowsKept, Existing, KnowInv
<1>1. OffersKept /\ NoneOpened => OffersKnown'
  BY <1>0 DEF OffersKept, NoneOpened, OffersKnown
<1>2. CASE UNCHANGED offer
  BY <1>1, <1>2 DEF OffersKept, NoneOpened, NoneApproved
<1>3. CASE \E S : offer' = Cancelled(S)
  BY <1>1, <1>3, CancellingOffers
<1>4. CASE Ask(r)
  <2>1. call[r].chore \in Existing
    BY <1>4, OwnChore DEF Ask, At
  <2>2. FreshOffer \in Offers /\ offer[FreshOffer].status = "ABSENT"
    BY <1>4 DEF Ask, FreshOffer
  <2>3. \A o \in Offers : offer'[o] = IF o = FreshOffer
                             THEN [chore |-> call[r].chore, from |-> call[r].actor,
                                   to |-> call[r].to, status |-> "PENDING"]
                             ELSE offer[o]
    BY <1>4, <2>2 DEF Ask, TypeInv, TypeOK
  <2>. QED BY <1>0, <2>1, <2>2, <2>3 DEF OffersKept, OffersKnown, NoneApproved
<1>5. CASE Accept(r)
  <2>1. /\ call[r].offer \in Offers
        /\ offer' = [Cancelled({call[r].chore}) EXCEPT ![call[r].offer].status = "APPROVED"]
    BY <1>5 DEF Accept, At, TypeInv, Fit
  <2>. QED BY <1>1, <1>5, <2>1, AcceptingOffer
<1>6. CASE Decline(r)
  <2>1. /\ call[r].offer \in Offers
        /\ offer' = [offer EXCEPT ![call[r].offer].status = "DECLINED"]
    BY <1>6 DEF Decline, At, TypeInv, Fit
  <2>2. "DECLINED" \notin {"ABSENT", "PENDING"} /\ "DECLINED" # "APPROVED"
    OBVIOUS
  <2>3. OffersKept /\ NoneOpened /\ ("DECLINED" # "APPROVED" => NoneApproved)
    BY <2>1, <2>2, AnsweringOffer, Zenon
  <2>. QED BY <1>1, <2>2, <2>3
<1>7. CASE ExpireOffer(r)
  <2>1. PICK p \in Offers : offer' = [offer EXCEPT ![p].status = "CANCELLED"]
    BY <1>7 DEF ExpireOffer
  <2>2. "CANCELLED" \notin {"ABSENT", "PENDING"} /\ "CANCELLED" # "APPROVED"
    OBVIOUS
  <2>3. OffersKept /\ NoneOpened /\ ("CANCELLED" # "APPROVED" => NoneApproved)
    BY <2>1, <2>2, AnsweringOffer, Zenon
  <2>. QED BY <1>1, <2>2, <2>3
<1>. QED
  BY <1>2, <1>3, <1>4, <1>5, <1>6, <1>7
     DEF Step, Break, Settlement, SubmitRead, ExternalRead, ReviewRead, SubmitWin, SubmitLose,
         ReviewWin, ReviewLose, Credit, RecordCompletion, CreateFollowUps, Renew,
         Editing, StartRead, TakeOverRead, Claim, CancelOffers, UpdateRead, UpdateReread, Update,
         CancelRead, CancelOccurrenceRead, CloseCycleRead, ListSiblings, Cancel, Release,
         Snooze, List, Create, QuickLogRead, QuickLog, QuickLogNew,
         TakeoverStep, AskRead, AskCheck, AskBalance, AcceptRead, DeclineRead, ExpireList,
         PenaltyStep, FineList, FineBalance, Fine, Rebalance, ReadCandidates, Reassign
-----------------------------------------------------------------------------
(* What a step does to the record of its call.                               *)

Settling == {"credit", "ledger", "follow", "renew"}

\* A call that keeps a row to make successors from.
Placed(x) ==
    \/ x.op \in Winners /\ x.at \in Settling
    \/ x.op = "cancelOccurrence" /\ x.at \in {"write", "renew"}

\* Record y is record x one statement later, with no more on its list.
Follows(x, y) ==
    /\ y.op = x.op /\ y.actor = x.actor /\ y.chore = x.chore /\ y.offer = x.offer
    /\ y.todo \subseteq x.todo
    /\ y.at = "write" /\ y.op \in {"update", "accept"} => x.at = "write" /\ y.row = x.row

\* It has won what x had won, and is not back before the renewal.
Lasts(x, y) ==
    /\ Placed(x) /\ y.op = x.op /\ y.chore = x.chore /\ y.row = x.row /\ y.won = x.won
    /\ x.at = "renew" => y.at = "renew"

\* The row that call r keeps is in the place of its chore.
InPlace(r) ==
    LET x == call[r]
    IN  x.row.root = inst[x.chore].root /\ x.row.cycle = inst[x.chore].cycle

\* Call r has just read or written the row it keeps.
Snaps(r) ==
    /\ InPlace(r)'
    /\ call'[r].op = "cancelOccurrence" \/ \E row, p : Wins(r, row, p)

CallStep(r) ==
    /\ \A s \in Requests : s # r => call'[s] = call[s]
    /\ Knows(call[r])'
    /\ Placed(call'[r]) => Lasts(call[r], call'[r]) \/ Snaps(r)

\* Record y differs from record x at most in place, list, row and win.
Onward(x, y, p, T, row, n) ==
    /\ y.op = x.op /\ y.actor = x.actor /\ y.chore = x.chore /\ y.offer = x.offer
    /\ y.at = p /\ y.todo = T /\ y.row = row /\ y.won = n

LEMMA OnwardFields ==
    ASSUME NEW x \in Call, NEW p, NEW T, NEW row, NEW n, NEW v
    PROVE  /\ Onward(x, [x EXCEPT !.at = p], p, x.todo, x.row, x.won)
           /\ Onward(x, [x EXCEPT !.at = p, !.to = v], p, x.todo, x.row, x.won)
           /\ Onward(x, [x EXCEPT !.at = p, !.bal = v], p, x.todo, x.row, x.won)
           /\ Onward(x, [x EXCEPT !.failed = v], x.at, x.todo, x.row, x.won)
           /\ Onward(x, [x EXCEPT !.todo = T], x.at, T, x.row, x.won)
           /\ Onward(x, [x EXCEPT !.at = p, !.todo = T], p, T, x.row, x.won)
           /\ Onward(x, [x EXCEPT !.todo = T, !.at = p], p, T, x.row, x.won)
           /\ Onward(x, [x EXCEPT !.at = p, !.row = row], p, x.todo, row, x.won)
           /\ Onward(x, [x EXCEPT !.at = p, !.todo = T, !.row = row], p, T, row, x.won)
           /\ Onward(x, [x EXCEPT !.at = p, !.row = row, !.won = n], p, x.todo, row, n)
BY DEF Onward, Call

\* Record x is a call that has begun.
Starts(x, op, u, p, c, o, T) ==
    /\ x.op = op /\ x.actor = u /\ x.at = p /\ x.chore = c /\ x.offer = o /\ x.todo = T

LEMMA StartingFields ==
    ASSUME NEW op, NEW u, NEW p, NEW c, NEW v, NEW o, NEW row, NEW T
    PROVE  /\ Starts([Begin(op, u, p) EXCEPT !.chore = c], op, u, p, c, None, {})
           /\ Starts([Begin(op, u, p) EXCEPT !.chore = c, !.todo = T], op, u, p, c, None, T)
           /\ Starts([Begin(op, u, p) EXCEPT !.chore = c, !.row = row], op, u, p, c, None, {})
           /\ Starts([Begin(op, u, p) EXCEPT !.chore = c, !.to = v], op, u, p, c, None, {})
           /\ Starts([Begin(op, u, p) EXCEPT !.chore = c, !.offer = o], op, u, p, c, o, {})
           /\ Starts([Begin(op, u, p) EXCEPT !.offer = o], op, u, p, None, o, {})
           /\ Starts([Begin(op, u, p) EXCEPT !.todo = T], op, u, p, None, None, T)
<1>. DEFINE b == Begin(op, u, p)
<1>1. /\ {"op", "actor", "at", "chore", "offer", "todo", "row", "to"} \subseteq DOMAIN b
      /\ Starts(b, op, u, p, None, None, {})
  BY DEF Begin, Idle, Starts
<1>. HIDE DEF b
<1>2. /\ Starts([b EXCEPT !.chore = c], op, u, p, c, None, {})
      /\ Starts([b EXCEPT !.chore = c, !.todo = T], op, u, p, c, None, T)
      /\ Starts([b EXCEPT !.chore = c, !.row = row], op, u, p, c, None, {})
      /\ Starts([b EXCEPT !.chore = c, !.to = v], op, u, p, c, None, {})
      /\ Starts([b EXCEPT !.chore = c, !.offer = o], op, u, p, c, o, {})
      /\ Starts([b EXCEPT !.offer = o], op, u, p, None, o, {})
      /\ Starts([b EXCEPT !.todo = T], op, u, p, None, None, T)
  BY <1>1 DEF Starts
<1>. QED BY <1>2 DEF b

LEMMA FollowingKnows ==
    ASSUME KnowInv, RowsKept, OffersKept, NEW s \in Requests, Follows(call[s], call'[s])
    PROVE  Knows(call[s])'
<1>1. Existing \subseteq Existing'
  BY DEF RowsKept, Existing
<1>2. Held(call'[s]) \subseteq Held(call[s])
  BY DEF Held, Follows
<1>. QED BY <1>1, <1>2 DEF KnowInv, Knows, Follows, OffersKept

\* The call goes on with the same list or a part of it.
LEMMA OnwardStep ==
    ASSUME TypeInv, KnowInv, RowsKept, OffersKept, NEW r \in Requests,
           NEW x, NEW p, NEW T, T \subseteq call[r].todo,
           Becomes(r, x), Onward(call[r], x, p, T, call[r].row, call[r].won),
           p = "write" => call[r].op \notin {"update", "accept"},
           \/ p \notin Settling /\ (p = "write" => call[r].op # "cancelOccurrence")
           \/ call[r].op \notin Winners \cup {"cancelOccurrence"}
           \/ Placed(call[r]) /\ (call[r].at = "renew" => p = "renew")
    PROVE  CallStep(r)
<1>1. call'[r] = x /\ \A s \in Requests : s # r => call'[s] = call[s]
  BY Became
<1>2. Follows(call[r], call'[r])
  BY <1>1 DEF Onward, Follows
<1>3. Placed(call'[r]) => Lasts(call[r], call'[r])
  BY <1>1 DEF Onward, Placed, Lasts, Settling
<1>. QED BY <1>1, <1>2, <1>3, FollowingKnows DEF CallStep

LEMMA ReturningStep ==
    ASSUME TypeInv, NEW r \in Requests, Return(r)
    PROVE  CallStep(r)
<1>1. call'[r] = Returned /\ \A s \in Requests : s # r => call'[s] = call[s]
  BY Became DEF Return
<1>2. Returned.op = None /\ Returned.at = "done" /\ Returned.chore = None /\ Returned.todo = {}
  BY DEF Returned, Idle
<1>3. None \notin Chores /\ None \notin OpNames
  BY NoneAssumption
<1>4. Knows(call[r])'
  <2>1. Held(call'[r]) = {}
    BY <1>1, <1>2, <1>3 DEF Held
  <2>2. call'[r].op \notin Graded /\ call'[r].op \notin {"update", "accept"}
    BY <1>1, <1>2, <1>3 DEF Graded, OpNames
  <2>. QED BY <2>1, <2>2 DEF Knows
<1>5. ~Placed(call'[r])
  BY <1>1, <1>2 DEF Placed, Settling
<1>. QED BY <1>1, <1>4, <1>5 DEF CallStep

\* A call on chore c begins.
LEMMA StartingStep ==
    ASSUME TypeInv, KnowInv, RowsKept, NEW r \in Requests,
           NEW x, NEW op \in OpNames, NEW u, NEW p, NEW c \in Existing, NEW T,
           T \in {{}, {c}}, op # "fine", Becomes(r, x), Starts(x, op, u, p, c, None, T),
           op \in Graded => u \in Adults, op # "accept",
           p \notin Settling, p = "write" => op \notin {"update", "cancelOccurrence"}
    PROVE  CallStep(r)
<1>1. call'[r] = x /\ \A s \in Requests : s # r => call'[s] = call[s]
  BY Became
<1>2. Held(x) \subseteq {c}
  BY DEF Starts, Held
<1>3. Held(x) \subseteq Existing'
  BY <1>2 DEF RowsKept, Existing
<1>4. Knows(call[r])'
  BY <1>1, <1>3 DEF Knows, Starts
<1>5. ~Placed(call'[r])
  BY <1>1 DEF Placed, Starts, Settling
<1>. QED BY <1>1, <1>4, <1>5 DEF CallStep

LEMMA SettlementCalls ==
    ASSUME TypeInv, KnowInv, RowsKept, OffersKept, NEW r \in Requests, Settlement(r)
    PROVE  CallStep(r)
<1>0. call[r] \in Call /\ Fit(call[r]) /\ Knows(call[r]) /\ inst \in [Chores -> Row]
  BY DEF TypeInv, TypeOK, KnowInv
<1>1. CASE SubmitRead(r) \/ ExternalRead(r) \/ ReviewRead(r)
  <2>1. PICK op \in {"submit", "external", "approve", "reject"}, u \in Users,
             c \in Existing :
          Checked(r, op, u, c, "write") /\ (op \in Graded => u \in Adults)
    BY <1>1, PeopleAssumption DEF SubmitRead, ExternalRead, ReviewRead, Reviews, Graded
  <2>2. Starts([Begin(op, u, "write") EXCEPT !.chore = c], op, u, "write", c, None, {})
    BY StartingFields
  <2>. QED BY <2>1, <2>2, StartingStep DEF Checked, Settling, OpNames
<1>2. CASE Return(r)
  BY <1>2, ReturningStep
<1>3. ASSUME NEW row, NEW p, Wins(r, row, p), Save(call[r].chore, row), row \in Row,
             row.root = inst[call[r].chore].root, row.cycle = inst[call[r].chore].cycle
      PROVE  CallStep(r)
  <2>. DEFINE c == call[r].chore
              n == Made(c, row)
              x == [call[r] EXCEPT !.at = p, !.row = row, !.won = n]
  <2>1. Becomes(r, x) /\ c \in Chores /\ call[r].op \in Winners /\ p \in {"credit", "follow"}
    BY <1>3 DEF Wins, Won
  <2>2. Onward(call[r], x, p, call[r].todo, row, n)
    BY <1>0, OnwardFields
  <2>. HIDE DEF x, n
  <2>3. call'[r] = x /\ \A s \in Requests : s # r => call'[s] = call[s]
    BY <2>1, Became
  <2>4. Follows(call[r], call'[r])
    BY <2>1, <2>2, <2>3 DEF Onward, Follows
  <2>5. inst'[c] = row
    BY <1>0, <1>3, <2>1 DEF Save
  <2>6. Snaps(r)
    BY <1>3, <2>2, <2>3, <2>5 DEF Snaps, InPlace, Onward
  <2>. QED BY <2>3, <2>4, <2>6, FollowingKnows DEF CallStep
<1>4. CASE SubmitWin(r) /\ ~Return(r)
  <2>. DEFINE c == call[r].chore
              row == [inst[c] EXCEPT !.state = SubmitTarget(r), !.submitter = call[r].actor]
              p == IF call[r].op = "external" THEN "follow" ELSE "credit"
  <2>1. /\ SubmitTarget(r) = "COMPLETED" /\ Won(r, row, p) /\ Save(c, row)
        /\ call[r].op \in Winners /\ c \in Chores /\ ledger' = ledger
        /\ inst[c].state \in Submittable /\ call[r].at = "write"
        /\ call[r].actor \in Users
    BY <1>0, <1>4 DEF SubmitWin, At, Submits, Winners, Fit
  <2>2. inst[c] \in Row /\ inst'[c] = row
    BY <1>0, <2>1 DEF Save
  <2>3. /\ row.state = "COMPLETED" /\ row.root = inst[c].root /\ row.cycle = inst[c].cycle
    BY <2>1, <2>2, RowPlace
  <2>4. row \in Row
    BY <2>1, <2>2, RowFields DEF States, Maybe
  <2>5. Wins(r, row, p)
    <3>. HIDE DEF row
    <3>. QED BY <2>1, <2>2, <2>3 DEF Wins, Submittable
  <2>. HIDE DEF row, p
  <2>. QED BY <1>3, <2>1, <2>3, <2>4, <2>5
<1>5. CASE ReviewWin(r) /\ ~Return(r)
  <2>. DEFINE c == call[r].chore
              row == [inst[c] EXCEPT !.state = ReviewTarget(r)]
  <2>1. /\ ReviewTarget(r) = "COMPLETED" /\ Won(r, row, "credit") /\ Save(c, row)
        /\ call[r].op \in Winners /\ c \in Chores /\ ledger' = ledger
        /\ inst[c].state = "PENDING_APPROVAL" /\ call[r].at = "write"
    BY <1>0, <1>5 DEF ReviewWin, At, Reviews, Winners, Fit, ReviewTarget
  <2>2. inst[c] \in Row /\ inst'[c] = row
    BY <1>0, <2>1 DEF Save
  <2>3. /\ row.state = "COMPLETED" /\ row.root = inst[c].root /\ row.cycle = inst[c].cycle
    BY <2>1, <2>2, RowPlace
  <2>4. row \in Row
    BY <2>1, <2>2, Restating DEF States
  <2>5. Wins(r, row, "credit")
    <3>. HIDE DEF row
    <3>. QED BY <2>1, <2>2, <2>3 DEF Wins
  <2>. HIDE DEF row
  <2>. QED BY <1>3, <2>1, <2>3, <2>4, <2>5
<1>6. CASE Credit(r)
  <2>. DEFINE p == IF Beneficiary(r) = None THEN "follow" ELSE "ledger"
              x == [call[r] EXCEPT !.at = p, !.to = Beneficiary(r)]
  <2>1. Becomes(r, x) /\ Placed(call[r]) /\ call[r].at # "renew" /\ p # "write"
    BY <1>6 DEF Credit, At, Placed, Winners, Settling
  <2>2. Onward(call[r], x, p, call[r].todo, call[r].row, call[r].won)
    BY <1>0, OnwardFields
  <2>. HIDE DEF x, p
  <2>. QED BY <2>1, <2>2, OnwardStep
<1>7. ASSUME NEW p \in {"follow", "renew"}, Go(r, p), Placed(call[r]), call[r].at # "renew"
      PROVE  CallStep(r)
  <2>1. Onward(call[r], [call[r] EXCEPT !.at = p], p, call[r].todo, call[r].row, call[r].won)
    BY <1>0, OnwardFields
  <2>. QED BY <1>7, <2>1, OnwardStep DEF Go
<1>8. CASE Go(r, "flex")
  <2>1. Onward(call[r], [call[r] EXCEPT !.at = "flex"], "flex", call[r].todo, call[r].row,
               call[r].won)
    BY <1>0, OnwardFields
  <2>. QED BY <1>8, <2>1, OnwardStep DEF Go, Settling
<1>9. CASE RecordCompletion(r)
  BY <1>7, <1>9 DEF RecordCompletion, At, Placed, Winners, Settling
<1>10. CASE CreateFollowUps(r)
  BY <1>7, <1>10 DEF CreateFollowUps, At, Placed, Winners, Settling
<1>. QED
  BY <1>1, <1>2, <1>4, <1>5, <1>6, <1>8, <1>9, <1>10
     DEF Settlement, SubmitLose, ReviewLose, Renew, AfterRenewal

LEMMA EditingCalls ==
    ASSUME TypeInv, KnowInv, RowsKept, OffersKept, NEW r \in Requests, Editing(r)
    PROVE  CallStep(r)
<1>0. /\ call[r] \in Call /\ Fit(call[r]) /\ Knows(call[r]) /\ inst \in [Chores -> Row]
      /\ None \notin Chores
  BY NoneAssumption DEF TypeInv, TypeOK, KnowInv
<1>1. ASSUME NEW op \in {"start", "takeOver", "update", "cancelOccurrence", "closeCycle", "create"},
             NEW u, op = "update" => u \in Adults, NEW c \in Existing,
             NEW p \in {"write", "reread", "flex"},
             p = "write" => op \notin {"update", "cancelOccurrence"}, Checked(r, op, u, c, p)
      PROVE  CallStep(r)
  <2>1. Starts([Begin(op, u, p) EXCEPT !.chore = c], op, u, p, c, None, {})
    BY StartingFields
  <2>. QED BY <1>1, <2>1, StartingStep DEF Settling, OpNames, Graded, Checked
<1>2. CASE StartRead(r) \/ TakeOverRead(r) \/ UpdateRead(r) \/ CancelOccurrenceRead(r)
           \/ CloseCycleRead(r)
  BY <1>1, <1>2 DEF StartRead, TakeOverRead, UpdateRead, CancelOccurrenceRead, CloseCycleRead
<1>3. CASE Return(r)
  BY <1>3, ReturningStep
<1>4. ASSUME NEW p \in {"flex", "offers"}, Go(r, p)
      PROVE  CallStep(r)
  <2>1. Onward(call[r], [call[r] EXCEPT !.at = p], p, call[r].todo, call[r].row, call[r].won)
    BY <1>0, OnwardFields
  <2>. QED BY <1>4, <2>1, OnwardStep DEF Go, Settling
<1>5. CASE Claim(r) \/ CancelOffers(r) \/ Update(r)
  BY <1>4, <1>5 DEF Claim, CancelOffers, Update
<1>6. CASE UpdateReread(r)
  <2>. DEFINE c == call[r].chore
              x == [call[r] EXCEPT !.at = "write", !.row = inst[c]]
  <2>1. Becomes(r, x) /\ call[r].op = "update" /\ c \in Existing
    BY <1>6, OwnChore DEF UpdateReread, At
  <2>2. Onward(call[r], x, "write", call[r].todo, inst[c], call[r].won)
    BY <1>0, OnwardFields
  <2>. HIDE DEF x
  <2>3. call'[r] = x /\ \A s \in Requests : s # r => call'[s] = call[s]
    BY <2>1, Became
  <2>4. Held(x) \subseteq Existing'
    BY <1>0, <2>2 DEF Held, Onward, Knows, RowsKept, Existing
  <2>5. inst[c].state # "ABSENT"
    BY <2>1 DEF Existing
  <2>6. Knows(call[r])'
    BY <1>0, <2>1, <2>2, <2>3, <2>4, <2>5 DEF Knows, Onward
  <2>7. ~Placed(call'[r])
    BY <2>1, <2>2, <2>3 DEF Placed, Onward, Winners
  <2>. QED BY <2>3, <2>6, <2>7 DEF CallStep
<1>7. CASE CancelRead(r)
  <2>1. PICK u \in Adults, c \in Existing :
          Becomes(r, [Begin("cancel", u, "write") EXCEPT !.chore = c, !.todo = {c}])
    BY <1>7 DEF CancelRead
  <2>2. Starts([Begin("cancel", u, "write") EXCEPT !.chore = c, !.todo = {c}],
               "cancel", u, "write", c, None, {c})
    BY StartingFields
  <2>. QED BY <2>1, <2>2, StartingStep DEF Settling, OpNames
<1>8. CASE QuickLogRead(r)
  <2>1. PICK u \in Adults, c \in Existing :
          Becomes(r, [Begin("quickLog", u, "write") EXCEPT !.chore = c, !.row = inst[c]])
    BY <1>8 DEF QuickLogRead
  <2>2. Starts([Begin("quickLog", u, "write") EXCEPT !.chore = c, !.row = inst[c]],
               "quickLog", u, "write", c, None, {})
    BY StartingFields
  <2>. QED BY <2>1, <2>2, StartingStep DEF Settling, OpNames
<1>9. CASE ListSiblings(r) /\ ~Return(r)
  <2>. DEFINE c == call[r].chore
              x == [call[r] EXCEPT !.at = "write", !.todo = Siblings(r), !.row = inst[c]]
  <2>1. /\ Becomes(r, x) /\ call[r].op \in {"cancelOccurrence", "closeCycle"} /\ c \in Existing
        /\ inst' = inst
    BY <1>9, OwnChore DEF ListSiblings, At
  <2>2. Onward(call[r], x, "write", Siblings(r), inst[c], call[r].won)
    BY <1>0, OnwardFields
  <2>3. Siblings(r) \subseteq Existing
    BY DEF Siblings
  <2>. HIDE DEF x
  <2>4. call'[r] = x /\ \A s \in Requests : s # r => call'[s] = call[s]
    BY <2>1, Became
  <2>5. Held(x) \subseteq Existing'
    BY <1>0, <2>1, <2>2, <2>3 DEF Held, Onward, Knows, RowsKept, Existing
  <2>6. Knows(call[r])'
    BY <1>0, <2>1, <2>2, <2>4, <2>5 DEF Knows, Onward, Graded
  <2>7. Placed(call'[r]) => Snaps(r)
    BY <2>1, <2>2, <2>4 DEF Placed, Onward, Winners, Snaps, InPlace
  <2>. QED BY <2>4, <2>6, <2>7 DEF CallStep
<1>10. CASE Cancel(r)
  <2>. DEFINE p == IF call[r].op = "cancelOccurrence" THEN "renew" ELSE "flex"
              x == [call[r] EXCEPT !.todo = {}, !.at = p]
  <2>1. Becomes(r, x) /\ call[r].op \in {"cancel", "cancelOccurrence", "closeCycle"}
        /\ call[r].at = "write"
    BY <1>10 DEF Cancel, At
  <2>2. Onward(call[r], x, p, {}, call[r].row, call[r].won)
    BY <1>0, OnwardFields
  <2>3. p \in {"flex", "renew"} /\ (p = "renew" => Placed(call[r]))
    BY <2>1 DEF Placed
  <2>. HIDE DEF x, p
  <2>. QED BY <2>1, <2>2, <2>3, OnwardStep DEF Settling
<1>11. CASE Create(r)
  <2>1. PICK a \in Adults : Checked(r, "create", a, Fresh, "flex")
    BY <1>11 DEF Create
  <2>2. PICK t, recurs, left, u, locked :
          Save(Fresh, CreateRow(Fresh, t, recurs, left, u, locked))
    BY <1>11 DEF Create
  <2>3. Fresh \in Chores \ Existing
    BY <1>11 DEF Create, Fresh
  <2>. DEFINE c == Fresh
              x == [Begin("create", a, "flex") EXCEPT !.chore = c]
  <2>4. Starts(x, "create", a, "flex", c, None, {}) /\ Becomes(r, x)
    BY <2>1, StartingFields DEF Checked
  <2>5. CreateRow(c, t, recurs, left, u, locked).state = AssignedState(u)
    BY DEF CreateRow, Blank
  <2>6. c \in Existing'
    BY <1>0, <2>2, <2>3, <2>5 DEF Save, Existing, AssignedState
  <2>. HIDE DEF x, c
  <2>7. call'[r] = x /\ \A s \in Requests : s # r => call'[s] = call[s]
    BY <2>4, Became
  <2>8. Knows(call[r])'
    BY <2>4, <2>6, <2>7 DEF Knows, Held, Starts, Graded
  <2>9. ~Placed(call'[r])
    BY <2>4, <2>7 DEF Placed, Starts, Winners
  <2>. QED BY <2>7, <2>8, <2>9 DEF CallStep
<1>. QED
  BY <1>2, <1>3, <1>5, <1>6, <1>7, <1>8, <1>9, <1>10, <1>11
     DEF Editing, Release, Snooze, List, QuickLog, QuickLogNew

LEMMA TakeoverCalls ==
    ASSUME TypeInv, KnowInv, RowsKept, OffersKept, NEW r \in Requests, TakeoverStep(r)
    PROVE  CallStep(r)
<1>0. /\ call[r] \in Call /\ Fit(call[r]) /\ Knows(call[r])
      /\ None \notin Chores
  BY NoneAssumption DEF TypeInv, TypeOK, KnowInv
<1>1. CASE Return(r)
  BY <1>1, ReturningStep
<1>2. CASE AskRead(r)
  <2>1. PICK u \in Adults, v \in Users, c \in Existing :
          Becomes(r, [Begin("ask", u, "pending") EXCEPT !.chore = c, !.to = v])
    BY <1>2 DEF AskRead
  <2>2. Starts([Begin("ask", u, "pending") EXCEPT !.chore = c, !.to = v],
               "ask", u, "pending", c, None, {})
    BY StartingFields
  <2>. QED BY <2>1, <2>2, StartingStep DEF Settling, OpNames
<1>3. ASSUME NEW p \in {"balance", "write", "flex"}, Go(r, p),
             p = "write" => call[r].op = "ask"
      PROVE  CallStep(r)
  <2>1. Onward(call[r], [call[r] EXCEPT !.at = p], p, call[r].todo, call[r].row, call[r].won)
    BY <1>0, OnwardFields
  <2>. QED BY <1>3, <2>1, OnwardStep DEF Go, Settling
<1>4. CASE AskCheck(r)
  BY <1>1, <1>3, <1>4 DEF AskCheck, At
<1>5. CASE AskBalance(r)
  <2>1. Becomes(r, [call[r] EXCEPT !.at = "write", !.bal = points[call[r].actor]])
        /\ call[r].op = "ask"
    BY <1>5 DEF AskBalance, At
  <2>2. Onward(call[r], [call[r] EXCEPT !.at = "write", !.bal = points[call[r].actor]],
               "write", call[r].todo, call[r].row, call[r].won)
    BY <1>0, OnwardFields
  <2>. QED BY <2>1, <2>2, OnwardStep DEF Settling
<1>6. CASE AcceptRead(r)
  <2>1. PICK o \in Offers :
          /\ offer[o].status = "PENDING"
          /\ Becomes(r, [Begin("accept", offer[o].to, "write") EXCEPT
                            !.chore = offer[o].chore, !.offer = o])
          /\ offer' = offer
    BY <1>6 DEF AcceptRead
  <2>. DEFINE c == offer[o].chore
              u == offer[o].to
              x == [Begin("accept", u, "write") EXCEPT !.chore = c, !.offer = o]
  <2>2. Starts(x, "accept", u, "write", c, o, {})
    BY StartingFields
  <2>3. c \in Existing
    BY <2>1 DEF KnowInv, OffersKnown
  <2>4. call'[r] = x /\ \A s \in Requests : s # r => call'[s] = call[s]
    BY <2>1, Became
  <2>. HIDE DEF x
  <2>5. Held(x) \subseteq Existing'
    BY <2>2, <2>3 DEF Held, Starts, RowsKept, Existing
  <2>6. Knows(call[r])'
    BY <2>1, <2>2, <2>4, <2>5 DEF Knows, Starts, Graded
  <2>7. ~Placed(call'[r])
    BY <2>2, <2>4 DEF Placed, Starts, Winners
  <2>. QED BY <2>4, <2>6, <2>7 DEF CallStep
<1>7. CASE Accept(r)
  BY <1>3, <1>7 DEF Accept
<1>8. ASSUME NEW x, NEW u, NEW o, NEW T, NEW op \in {"decline", "expire"}, NEW p,
             Becomes(r, x), Starts(x, op, u, p, None, o, T), op = "expire" \/ T = {}
      PROVE  CallStep(r)
  <2>1. call'[r] = x /\ \A s \in Requests : s # r => call'[s] = call[s]
    BY <1>8, Became
  <2>2. Held(x) = {}
    BY <1>0, <1>8 DEF Held, Starts
  <2>3. Knows(call[r])' /\ ~Placed(call'[r])
    BY <1>8, <2>1, <2>2 DEF Knows, Starts, Graded, Placed, Winners
  <2>. QED BY <2>1, <2>3 DEF CallStep
<1>9. CASE DeclineRead(r)
  <2>1. PICK u, o : Becomes(r, [Begin("decline", u, "write") EXCEPT !.offer = o])
    BY <1>9 DEF DeclineRead
  <2>2. Starts([Begin("decline", u, "write") EXCEPT !.offer = o], "decline", u, "write", None, o, {})
    BY StartingFields
  <2>. QED BY <1>8, <2>1, <2>2
<1>10. CASE ExpireList(r)
  <2>1. PICK T : Becomes(r, [Begin("expire", None, "sweep") EXCEPT !.todo = T])
    BY <1>10 DEF ExpireList
  <2>2. Starts([Begin("expire", None, "sweep") EXCEPT !.todo = T],
               "expire", None, "sweep", None, None, T)
    BY StartingFields
  <2>. QED BY <1>8, <2>1, <2>2
<1>11. CASE ExpireOffer(r) /\ ~Return(r)
  <2>1. PICK o : Becomes(r, [call[r] EXCEPT !.todo = @ \ {o}]) /\ call[r].at = "sweep"
    BY <1>11 DEF ExpireOffer, Visited, At
  <2>2. Onward(call[r], [call[r] EXCEPT !.todo = @ \ {o}], "sweep", call[r].todo \ {o},
               call[r].row, call[r].won)
    BY <1>0, <2>1, OnwardFields
  <2>. QED BY <2>1, <2>2, OnwardStep DEF Settling
<1>. QED
  BY <1>1, <1>2, <1>4, <1>5, <1>6, <1>7, <1>9, <1>10, <1>11
     DEF TakeoverStep, Ask, Decline

LEMMA PenaltyCalls ==
    ASSUME TypeInv, KnowInv, RowsKept, OffersKept, NEW r \in Requests, PenaltyStep(r)
    PROVE  CallStep(r)
<1>0. /\ call[r] \in Call /\ Fit(call[r]) /\ Knows(call[r])
      /\ None \notin Chores
  BY NoneAssumption DEF TypeInv, TypeOK, KnowInv
<1>1. CASE FineList(r)
  <2>1. PICK S \in SUBSET Existing :
          Becomes(r, [Begin("fine", None, "bill") EXCEPT
                        !.todo = {<<c, inst[c].assignee>> : c \in S}])
    BY <1>1 DEF FineList, Finable
  <2>. DEFINE T == {<<c, inst[c].assignee>> : c \in S}
              x == [Begin("fine", None, "bill") EXCEPT !.todo = T]
  <2>2. Starts(x, "fine", None, "bill", None, None, T)
    BY StartingFields
  <2>3. call'[r] = x /\ \A s \in Requests : s # r => call'[s] = call[s]
    BY <2>1, Became
  <2>4. \A c, u : <<c, u>> \in T => c \in S
    OBVIOUS
  <2>. HIDE DEF T, x
  <2>5. Held(x) \subseteq Existing'
    BY <1>0, <2>2, <2>4 DEF Held, Starts, RowsKept, Existing
  <2>6. Knows(call[r])' /\ ~Placed(call'[r])
    BY <2>2, <2>3, <2>5 DEF Knows, Starts, Graded, Placed, Winners
  <2>. QED BY <2>3, <2>6 DEF CallStep
<1>2. CASE FineBalance(r)
  <2>1. PICK bill \in call[r].todo \cap (Chores \X Maybe(Users)) :
            Becomes(r, [call[r] EXCEPT !.at = "write", !.todo = @ \ {bill},
                       !.chore = bill[1], !.to = bill[2],
                       !.bal = IF bill[2] = None THEN 0 ELSE points[bill[2]]])
    BY <1>2 DEF FineBalance
  <2>. DEFINE n == IF bill[2] = None THEN 0 ELSE points[bill[2]]
              x == [call[r] EXCEPT !.at = "write", !.todo = @ \ {bill},
                       !.chore = bill[1], !.to = bill[2], !.bal = n]
  <2>2. call'[r] = x /\ \A s \in Requests : s # r => call'[s] = call[s]
    BY <2>1, Became
  <2>3. call[r].op = "fine"
    BY <1>2 DEF FineBalance, At
  <2>4. x.op = "fine" /\ x.chore = bill[1] /\ x.todo \subseteq call[r].todo
    <3>. HIDE DEF n
    <3>. QED BY <1>0, <2>3 DEF Call
  <2>5. bill[1] \in Held(call[r])
    <3>1. bill = <<bill[1], bill[2]>> /\ bill[1] \in Chores /\ bill[2] \in Maybe(Users)
      BY <2>1
    <3>. QED BY <2>1, <2>3, <3>1 DEF Held
  <2>. HIDE DEF x
  <2>6. Held(x) \subseteq Held(call[r])
    BY <2>3, <2>4, <2>5 DEF Held
  <2>7. Held(x) \subseteq Existing'
    BY <1>0, <2>6 DEF Knows, RowsKept, Existing
  <2>8. Knows(call[r])' /\ ~Placed(call'[r])
    BY <2>2, <2>4, <2>7 DEF Knows, Graded, Placed, Winners
  <2>. QED BY <2>2, <2>8 DEF CallStep
<1>3. CASE Return(r)
  BY <1>3, ReturningStep
<1>4. CASE Go(r, "bill")
  <2>1. Onward(call[r], [call[r] EXCEPT !.at = "bill"], "bill", call[r].todo, call[r].row,
               call[r].won)
    BY <1>0, OnwardFields
  <2>. QED BY <1>4, <2>1, OnwardStep DEF Go, Settling
<1>. QED BY <1>1, <1>2, <1>3, <1>4 DEF PenaltyStep, Fine

LEMMA RebalanceCalls ==
    ASSUME TypeInv, KnowInv, RowsKept, OffersKept, NEW r \in Requests, Rebalance(r)
    PROVE  CallStep(r)
<1>0. call[r] \in Call /\ Fit(call[r]) /\ Knows(call[r])
  BY DEF TypeInv, TypeOK, KnowInv
<1>1. CASE Return(r)
  BY <1>1, ReturningStep
<1>2. CASE ReadCandidates(r) /\ ~Return(r)
  <2>1. PICK S \in SUBSET Existing : Becomes(r, [call[r] EXCEPT !.at = "sweep", !.todo = S])
    BY <1>2 DEF ReadCandidates, Candidates, Flexible
  <2>. DEFINE x == [call[r] EXCEPT !.at = "sweep", !.todo = S]
  <2>2. Onward(call[r], x, "sweep", S, call[r].row, call[r].won)
    BY <1>0, OnwardFields
  <2>3. call[r].op \in Rebalancers
    BY <1>2 DEF ReadCandidates, At
  <2>4. call'[r] = x /\ \A s \in Requests : s # r => call'[s] = call[s]
    BY <2>1, Became
  <2>. HIDE DEF x
  <2>5. Held(x) \subseteq Existing'
    BY <1>0, <2>2, <2>3 DEF Held, Onward, Rebalancers, Knows, RowsKept, Existing
  <2>6. Knows(call[r])' /\ ~Placed(call'[r])
    BY <1>0, <2>2, <2>4, <2>5 DEF Knows, Onward, Placed, Settling
  <2>. QED BY <2>4, <2>6 DEF CallStep
<1>3. CASE Reassign(r) /\ ~Return(r)
  <2>1. PICK c : Becomes(r, [call[r] EXCEPT !.todo = @ \ {c}]) /\ call[r].at = "sweep"
    BY <1>3 DEF Reassign, Visited, At
  <2>2. Onward(call[r], [call[r] EXCEPT !.todo = @ \ {c}], "sweep", call[r].todo \ {c},
               call[r].row, call[r].won)
    BY <1>0, <2>1, OnwardFields
  <2>. QED BY <2>1, <2>2, OnwardStep DEF Settling
<1>. QED BY <1>1, <1>2, <1>3 DEF Rebalance

LEMMA BreakCalls ==
    ASSUME TypeInv, KnowInv, RowsKept, OffersKept, NEW r \in Requests, Break(r)
    PROVE  CallStep(r)
<1>. DEFINE x == [call[r] EXCEPT !.failed = TRUE]
<1>1. Onward(call[r], x, call[r].at, call[r].todo, call[r].row, call[r].won)
  BY OnwardFields DEF TypeInv, TypeOK
<1>2. call'[r] = x /\ \A s \in Requests : s # r => call'[s] = call[s]
  BY Became DEF Break
<1>. HIDE DEF x
<1>3. Follows(call[r], call'[r])
  BY <1>1, <1>2 DEF Onward, Follows
<1>4. Placed(call'[r]) => Lasts(call[r], call'[r])
  BY <1>1, <1>2 DEF Onward, Placed, Lasts
<1>. QED BY <1>2, <1>3, <1>4, FollowingKnows DEF CallStep

\* Every step keeps what the calls know.
LEMMA KnowingStep ==
    ASSUME TypeInv, KnowInv, NEW r \in Requests, Step(r) \/ Break(r)
    PROVE  CallStep(r) /\ KnowInv'
<1>1. RowsKept /\ OffersKept /\ OffersKnown'
  BY KeepingRows, StepOffers
<1>2. CallStep(r)
  BY <1>1, SettlementCalls, EditingCalls, TakeoverCalls, PenaltyCalls, RebalanceCalls,
     BreakCalls DEF Step
<1>3. ASSUME NEW s \in Requests, s # r PROVE Knows(call[s])'
  <2>1. call'[s] = call[s]
    BY <1>2, <1>3 DEF CallStep
  <2>2. Follows(call[s], call'[s])
    BY <2>1 DEF Follows
  <2>. QED BY <1>1, <2>2, FollowingKnows
<1>. QED BY <1>1, <1>2, <1>3 DEF KnowInv, CallStep

LEMMA InitKnows == Init => KnowInv
<1>. SUFFICES ASSUME Init PROVE KnowInv
  OBVIOUS
<1>1. /\ \A r \in Requests : call[r] = Idle
      /\ \A o \in Offers : offer[o].status = "ABSENT"
  BY DEF Init, NoOffer
<1>2. Idle.op = None /\ Idle.chore = None /\ Idle.todo = {}
  BY DEF Idle
<1>3. None \notin Chores /\ None \notin OpNames
  BY NoneAssumption
<1>. QED BY <1>1, <1>2, <1>3 DEF KnowInv, OffersKnown, Knows, Held, Graded, OpNames

LEMMA NextKnows == TypeInv /\ KnowInv /\ [Next]_vars => KnowInv'
<1>. SUFFICES ASSUME TypeInv, KnowInv, [Next]_vars PROVE KnowInv'
  OBVIOUS
<1>1. CASE UNCHANGED vars
  BY <1>1 DEF vars, KnowInv, OffersKnown, Knows, Existing
<1>2. ASSUME NEW r \in Requests, Step(r) \/ Break(r) PROVE KnowInv'
  BY <1>2, KnowingStep
<1>. QED BY <1>1, <1>2 DEF Next, Quiet

\* However stale what the calls act on, a chore that exists is only ever
\* completed by the call of an adult: what a child hands in waits for a review.
THEOREM OnlyAdultsComplete == Spec => ChildNeverCompletes
<1>1. Init => TypeInv /\ KnowInv
  BY InitType, InitKnows
<1>2. TypeInv /\ KnowInv /\ [Next]_vars => TypeInv' /\ KnowInv'
  BY NextType, NextKnows
<1>3. TypeInv /\ KnowInv /\ [Next]_vars =>
        [\A c \in Existing :
            inst'[c].state = "COMPLETED" /\ inst[c].state # "COMPLETED" =>
            \E r \in Requests : call'[r] # call[r] /\ call[r].actor \in Adults]_vars
  <2>. SUFFICES ASSUME TypeInv, KnowInv, [Next]_vars, NEW c \in Existing, ~UNCHANGED vars,
                       inst'[c].state = "COMPLETED", inst[c].state # "COMPLETED"
                PROVE  \E r \in Requests : call'[r] # call[r] /\ call[r].actor \in Adults
    OBVIOUS
  <2>1. PICK r \in Requests : Step(r) \/ Break(r)
    BY DEF Next, Quiet
  <2>2. CASE Edits(r)
    BY <2>2 DEF Edits, Existing
  <2>3. CASE Adds
    BY <2>3 DEF Adds, Save, Existing, TypeInv, TypeOK
  <2>4. CASE CreateFollowUps(r) \/ (Renew(r) /\ Renews(r))
    BY <2>4, NewRows
  <2>. QED BY <2>1, <2>2, <2>3, <2>4, SettlementRows, EditingRows, OtherRows DEF Step
<1>. QED BY <1>1, <1>2, <1>3, PTL DEF Spec, ChildNeverCompletes

\* Accepting an offer hands its chore over in the same step, to the member it
\* was made to, and leaves no other offer of the chore open, even if offers and
\* chores change between the answer's check and its transaction.
THEOREM AcceptingHandsOver == Spec => HandoverIsAtomic
<1>1. Init => TypeInv /\ KnowInv
  BY InitType, InitKnows
<1>2. TypeInv /\ KnowInv /\ [Next]_vars => TypeInv' /\ KnowInv'
  BY NextType, NextKnows
<1>3. TypeInv /\ KnowInv /\ [Next]_vars =>
        [\A o \in Offers :
            offer'[o].status = "APPROVED" /\ offer[o].status # "APPROVED" =>
            LET row == inst'[offer[o].chore]
            IN  /\ row.assignee = offer[o].to /\ row.state = "ASSIGNED" /\ row.locked
                /\ \A p \in Offers : offer'[p].chore = offer[o].chore
                                     => offer'[p].status # "PENDING"]_vars
  <2>. SUFFICES ASSUME TypeInv, KnowInv, [Next]_vars, NEW o \in Offers, ~UNCHANGED vars,
                       offer'[o].status = "APPROVED", offer[o].status # "APPROVED"
                PROVE  LET row == inst'[offer[o].chore]
                       IN  /\ row.assignee = offer[o].to /\ row.state = "ASSIGNED" /\ row.locked
                           /\ \A p \in Offers : offer'[p].chore = offer[o].chore
                                                => offer'[p].status # "PENDING"
    OBVIOUS
  <2>1. PICK r \in Requests : Accept(r)
    <3>1. PICK r \in Requests : Step(r) \/ Break(r)
      BY DEF Next, Quiet
    <3>. QED BY <3>1, StepOffers DEF NoneApproved
  <2>. DEFINE c == call[r].chore
  <2>2. /\ call[r].offer \in Offers /\ offer[call[r].offer].chore = c
        /\ offer[call[r].offer].to = call[r].actor
        /\ c \in Existing /\ inst[c] \in Row
        /\ offer' = [Cancelled({c}) EXCEPT ![call[r].offer].status = "APPROVED"]
        /\ inst' = [inst EXCEPT ![c] = [inst[c] EXCEPT !.assignee = call[r].actor,
                                           !.state = "ASSIGNED", !.locked = TRUE]]
    BY <2>1, OwnChore DEF Accept, At, KnowInv, Knows, Save
  <2>3. \A p \in Offers : /\ offer'[p].chore = offer[p].chore
                          /\ offer'[p].status = "PENDING" => offer[p].chore # c
                          /\ p # call[r].offer /\ offer'[p].status = "APPROVED"
                             => offer[p].status = "APPROVED"
    BY <2>2, AcceptingOffer
  <2>4. o = call[r].offer
    BY <2>3
  <2>5. inst'[c] = [inst[c] EXCEPT !.assignee = call[r].actor, !.state = "ASSIGNED",
                                   !.locked = TRUE]
    BY <2>2 DEF Existing, TypeInv, TypeOK
  <2>6. inst'[c].assignee = offer[o].to /\ inst'[c].state = "ASSIGNED" /\ inst'[c].locked = TRUE
    <3>. DEFINE u == call[r].actor
                y == [inst[c] EXCEPT !.assignee = u, !.state = "ASSIGNED", !.locked = TRUE]
    <3>1. y.assignee = u /\ y.state = "ASSIGNED" /\ y.locked = TRUE
      BY <2>2, HandedOver
    <3>2. inst'[c] = y
      BY <2>5
    <3>. HIDE DEF y
    <3>. QED BY <2>2, <2>4, <3>1, <3>2
  <2>. QED BY <2>2, <2>3, <2>4, <2>6
<1>. QED BY <1>1, <1>2, <1>3, PTL DEF Spec, HandoverIsAtomic
-----------------------------------------------------------------------------
(* The successors of a completion.                                           *)

\* The chores made for a completion, and the kinds of birth they have.
Heirs == {"followUp", "renewal"}
Begotten == {c \in Chores : inst[c].born.kind \in Heirs}

BornOnce == \A c, d \in Begotten : inst[c].born = inst[d].born => c = d

\* A birth answers a revision that the chore has reached.
BirthsReached ==
    \A c \in Begotten :
        inst[c].born.from \in Chores /\ inst[c].born.rev <= rev[inst[c].born.from]

\* A call that has won and not yet renewed has begotten at most follow-ups,
\* and these only when it is about to renew.
Expecting(r) == call[r].op \in Winners /\ call[r].at \in Settling
HeirsDue ==
    \A r \in Requests : Expecting(r) =>
        /\ call[r].won > 0
        /\ \A c \in Begotten :
              inst[c].born.from = call[r].chore /\ inst[c].born.rev = call[r].won
              => call[r].at = "renew" /\ inst[c].born.kind = "followUp"

HeirInv == BornOnce /\ BirthsReached /\ HeirsDue

\* No row is begotten.
Barren == \A c \in Begotten' : c \in Begotten /\ inst'[c].born = inst[c].born

LEMMA BarrenStep ==
    ASSUME TypeInv, HeirInv, Track, NEW r \in Requests, CallStep(r), Barren
    PROVE  HeirInv'
<1>1. \A c \in Chores : rev[c] \in Nat /\ rev'[c] \in Nat /\ rev[c] <= rev'[c]
  BY Advancing
<1>2. \A c \in Begotten : inst[c].born.rev \in Nat
  BY DEF TypeInv, TypeOK, Row, Birth, Begotten
<1>3. BornOnce'
  BY DEF HeirInv, BornOnce, Barren
<1>4. BirthsReached'
  BY <1>1, <1>2 DEF HeirInv, BirthsReached, Barren
<1>5. ASSUME NEW s \in Requests, Expecting(s)', s # r \/ Lasts(call[r], call'[r])
      PROVE  /\ call'[s].won > 0
             /\ \A c \in Begotten' :
                  inst'[c].born.from = call'[s].chore /\ inst'[c].born.rev = call'[s].won
                  => call'[s].at = "renew" /\ inst'[c].born.kind = "followUp"
  <2>1. /\ call'[s].op = call[s].op /\ call'[s].chore = call[s].chore
        /\ call'[s].won = call[s].won
        /\ call[s].at = "renew" => call'[s].at = "renew"
        /\ Expecting(s)
    BY <1>5 DEF CallStep, Lasts, Placed, Expecting, Winners
  <2>. QED BY <2>1 DEF HeirInv, HeirsDue, Barren
<1>6. ASSUME NEW row, NEW p, Wins(r, row, p)
      PROVE  /\ call'[r].won > 0
             /\ \A c \in Begotten' :
                  ~(inst'[c].born.from = call'[r].chore /\ inst'[c].born.rev = call'[r].won)
  <2>. DEFINE c == call[r].chore
  <2>1. /\ call' = [call EXCEPT ![r] = [call[r] EXCEPT !.at = p, !.row = row, !.won = rev[c] + 1]]
        /\ call \in [Requests -> Call] /\ c \in Chores
    BY <1>6 DEF Wins, Won, Becomes, Made, TypeInv, TypeOK
  <2>2. call'[r].won = rev[c] + 1 /\ call'[r].chore = c
    BY <2>1 DEF Call
  <2>. QED BY <1>1, <1>2, <2>1, <2>2 DEF HeirInv, BirthsReached, Barren
<1>7. Expecting(r)' => Lasts(call[r], call'[r]) \/ \E row, p : Wins(r, row, p)
  BY DEF CallStep, Expecting, Placed, Snaps, Winners
<1>8. HeirsDue'
  BY <1>5, <1>6, <1>7 DEF HeirsDue
<1>. QED BY <1>3, <1>4, <1>8 DEF HeirInv

\* The rows written are new, of one kind k, each for a template of its own.
Begets(r, k) ==
    /\ \A c \in Chores : inst'[c] = inst[c] \/ \E t : inst'[c].born = BornOf(r, k, t)
    /\ \A c, d \in Chores :
          inst'[c] # inst[c] /\ inst'[d] # inst[d] /\ inst'[c].born = inst'[d].born => c = d

LEMMA BegettingStep ==
    ASSUME TypeInv, PayInv, HeirInv, Track, NEW r \in Requests, NEW k \in Heirs,
           Begets(r, k), Expecting(r), \A s \in Requests : s # r => call'[s] = call[s],
           \/ /\ k = "followUp" /\ call[r].at = "follow" /\ call'[r].at = "renew"
              /\ call'[r].won = call[r].won /\ call'[r].chore = call[r].chore
           \/ k = "renewal" /\ call[r].at = "renew" /\ call'[r].at \notin Settling
    PROVE  HeirInv'
<1>. DEFINE c0 == call[r].chore
            n == call[r].won
<1>1. \A c \in Chores : rev[c] \in Nat /\ rev'[c] \in Nat /\ rev[c] <= rev'[c]
  BY Advancing
<1>2. n > 0 /\ n \in Nat /\ c0 \in Chores /\ n <= rev[c0]
  BY DEF HeirInv, HeirsDue, PayInv, WinsReached, TypeInv, TypeOK, Call
<1>3. \A c \in Begotten : inst[c].born.rev \in Nat
  BY DEF TypeInv, TypeOK, Row, Birth, Begotten
<1>4. ASSUME NEW c \in Begotten'
      PROVE  \/ c \in Begotten /\ inst'[c] = inst[c]
             \/ /\ inst'[c] # inst[c] /\ inst'[c].born.from = c0 /\ inst'[c].born.rev = n
                /\ inst'[c].born.kind = k
  <2>1. CASE inst'[c] = inst[c]
    BY <2>1 DEF Begotten
  <2>2. CASE inst'[c] # inst[c]
    <3>1. PICK t : inst'[c].born = BornOf(r, k, t)
      BY <2>2 DEF Begets, Begotten
    <3>. QED BY <2>2, <3>1 DEF BornOf
  <2>. QED BY <2>1, <2>2
<1>5. ASSUME NEW c \in Begotten, inst[c].born.from = c0, inst[c].born.rev = n
      PROVE  inst[c].born.kind # k
  BY <1>5 DEF HeirInv, HeirsDue
<1>6. BornOnce'
  <2>. SUFFICES ASSUME NEW c \in Begotten', NEW d \in Begotten', inst'[c].born = inst'[d].born
                PROVE  c = d
    BY DEF BornOnce
  <2>1. CASE inst'[c] = inst[c] /\ inst'[d] = inst[d]
    BY <1>4, <2>1 DEF HeirInv, BornOnce
  <2>2. CASE inst'[c] # inst[c] /\ inst'[d] # inst[d]
    BY <2>2 DEF Begets, Begotten
  <2>3. CASE inst'[c] # inst[c] /\ inst'[d] = inst[d]
    BY <1>4, <1>5, <2>3
  <2>4. CASE inst'[c] = inst[c] /\ inst'[d] # inst[d]
    BY <1>4, <1>5, <2>4
  <2>. QED BY <2>1, <2>2, <2>3, <2>4
<1>7. BirthsReached'
  <2>. SUFFICES ASSUME NEW c \in Begotten'
                PROVE  /\ inst'[c].born.from \in Chores
                       /\ inst'[c].born.rev <= rev'[inst'[c].born.from]
    BY DEF BirthsReached
  <2>1. CASE c \in Begotten /\ inst'[c] = inst[c]
    BY <1>1, <1>3, <2>1 DEF HeirInv, BirthsReached
  <2>2. CASE inst'[c].born.from = c0 /\ inst'[c].born.rev = n
    BY <1>1, <1>2, <2>2
  <2>. QED BY <1>4, <2>1, <2>2
<1>8. HeirsDue'
  <2>. SUFFICES ASSUME NEW s \in Requests, Expecting(s)'
                PROVE  /\ call'[s].won > 0
                       /\ \A c \in Begotten' :
                            inst'[c].born.from = call'[s].chore /\ inst'[c].born.rev = call'[s].won
                            => call'[s].at = "renew" /\ inst'[c].born.kind = "followUp"
    BY DEF HeirsDue
  <2>1. CASE s = r
    <3>1. k = "followUp" /\ call'[r].at = "renew" /\ call'[r].won = n /\ call'[r].chore = c0
      BY <2>1 DEF Expecting
    <3>2. \A c \in Begotten' : inst'[c].born.from = c0 /\ inst'[c].born.rev = n
             => inst'[c].born.kind = "followUp"
      BY <1>4, <1>5, <3>1 DEF HeirInv, HeirsDue
    <3>. QED BY <1>2, <2>1, <3>1, <3>2
  <2>2. CASE s # r
    <3>1. call'[s] = call[s] /\ Expecting(s)
      BY <2>2 DEF Expecting
    <3>2. call[s].won > 0 /\ ~(call[s].chore = c0 /\ call[s].won = n)
      BY <1>2, <2>2, <3>1 DEF HeirInv, HeirsDue, PayInv, OneWinner
    <3>. QED BY <1>4, <3>1, <3>2 DEF HeirInv, HeirsDue
  <2>. QED BY <2>1, <2>2
<1>. QED BY <1>6, <1>7, <1>8 DEF HeirInv

LEMMA FollowUpsBorn ==
    ASSUME TypeInv, NEW r \in Requests, CreateFollowUps(r)
    PROVE  Begets(r, "followUp")
<1>. DEFINE T == NeedsFollowUps(r)
            id == FreshIds(T)
            made(c) == CHOOSE t \in T : id[t] = c
<1>1. PICK u \in [T -> Maybe(Users)] :
        inst' = [c \in Chores |-> IF \E t \in T : id[t] = c
                                  THEN FollowUpRow(r, made(c), u[made(c)]) ELSE inst[c]]
  BY DEF CreateFollowUps
<1>2. \A t, v : FollowUpRow(r, t, v).born = BornOf(r, "followUp", t)
  BY DEF FollowUpRow, Blank
<1>3. \A t, v : BornOf(r, "followUp", t) = BornOf(r, "followUp", v) => t = v
  BY DEF BornOf
<1>4. ASSUME NEW c \in Chores, inst'[c] # inst[c]
      PROVE  id[made(c)] = c /\ inst'[c].born = BornOf(r, "followUp", made(c))
  <2>1. \E t \in T : id[t] = c
    BY <1>1, <1>4
  <2>2. id[made(c)] = c
    BY <2>1
  <2>3. inst'[c] = FollowUpRow(r, made(c), u[made(c)])
    BY <1>1, <2>1
  <2>. QED BY <1>2, <2>2, <2>3
<1>. HIDE DEF made, id, T
<1>5. \A c, d \in Chores :
        inst'[c] # inst[c] /\ inst'[d] # inst[d] /\ inst'[c].born = inst'[d].born => c = d
  <2>. SUFFICES ASSUME NEW c \in Chores, NEW d \in Chores, inst'[c] # inst[c],
                       inst'[d] # inst[d], inst'[c].born = inst'[d].born
                PROVE  c = d
    OBVIOUS
  <2>1. made(c) = made(d)
    BY <1>3, <1>4
  <2>. QED BY <1>4, <2>1
<1>. QED BY <1>4, <1>5 DEF Begets

LEMMA RenewalBorn ==
    ASSUME TypeInv, NEW r \in Requests, Renew(r), Renews(r)
    PROVE  IF call[r].op = "cancelOccurrence" THEN Barren ELSE Begets(r, "renewal")
<1>. DEFINE k == IF call[r].op = "cancelOccurrence" THEN "reissue" ELSE "renewal"
            t == call[r].row.tmpl
<1>1. PICK u \in Maybe(Users) : Save(Fresh, NextRow(r, Fresh, u))
  BY DEF Renew
<1>2. Fresh \in Chores \ Existing
  BY DEF Renew, Fresh
<1>3. NextRow(r, Fresh, u).born = BornOf(r, k, t)
  BY DEF NextRow, Blank
<1>4. \A c \in Chores : inst'[c] = IF c = Fresh THEN NextRow(r, Fresh, u) ELSE inst[c]
  BY <1>1, <1>2 DEF Save, TypeInv, TypeOK
<1>5. BornOf(r, k, t).kind = k
  BY DEF BornOf
<1>6. CASE call[r].op = "cancelOccurrence"
  <2>1. k = "reissue"
    BY <1>6
  <2>. HIDE DEF k
  <2>. QED BY <1>3, <1>4, <1>5, <1>6, <2>1 DEF Barren, Begotten, Heirs
<1>7. CASE call[r].op # "cancelOccurrence"
  BY <1>3, <1>4, <1>7 DEF Begets
<1>. QED BY <1>6, <1>7

LEMMA HeirStep ==
    ASSUME TypeInv, PayInv, KnowInv, HeirInv, Track, NEW r \in Requests, Step(r) \/ Break(r)
    PROVE  HeirInv'
<1>0. CallStep(r) /\ call[r] \in Call
  BY KnowingStep DEF TypeInv, TypeOK
<1>1. CASE Barren
  BY <1>0, <1>1, BarrenStep
<1>2. CASE Edits(r)
  <2>1. Barren
    BY <1>2 DEF Edits, Barren, Begotten
  <2>. QED BY <1>1, <2>1
<1>3. CASE Adds
  <2>1. PICK c \in Chores : \E row : Save(c, row) /\ row.born = Created
    BY <1>3 DEF Adds
  <2>2. Created.kind = "created"
    BY DEF Created, Unborn
  <2>3. Barren
    BY <2>1, <2>2 DEF Save, Barren, Begotten, Heirs, TypeInv, TypeOK
  <2>. QED BY <1>1, <2>3
<1>4. CASE CreateFollowUps(r)
  <2>1. Becomes(r, [call[r] EXCEPT !.at = "renew"]) /\ call[r].at = "follow"
        /\ call[r].op \in Winners
    BY <1>4 DEF CreateFollowUps, Go, At, Winners
  <2>2. call'[r].at = "renew" /\ call'[r].won = call[r].won /\ call'[r].chore = call[r].chore
    BY <1>0, <2>1, Became DEF Call
  <2>3. Begets(r, "followUp") /\ Expecting(r) /\ "followUp" \in Heirs
    BY <1>4, <2>1, FollowUpsBorn DEF Expecting, Settling, Heirs
  <2>. QED BY <1>0, <2>1, <2>2, <2>3, BegettingStep DEF CallStep
<1>5. CASE Renew(r) /\ Renews(r) /\ call[r].op = "cancelOccurrence"
  BY <1>1, <1>5, RenewalBorn
<1>6. CASE Renew(r) /\ Renews(r) /\ call[r].op # "cancelOccurrence"
  <2>1. call[r].at = "renew" /\ call[r].op \in Winners
        /\ (Return(r) \/ Becomes(r, [call[r] EXCEPT !.at = "flex"]))
    BY <1>6 DEF Renew, At, Winners, AfterRenewal, Go
  <2>2. Returned.at = "done"
    BY DEF Returned, Idle
  <2>3. call'[r].at \in {"done", "flex"}
    BY <1>0, <2>1, <2>2, Became DEF Return, Call
  <2>4. Begets(r, "renewal") /\ Expecting(r) /\ "renewal" \in Heirs
    BY <1>6, <2>1, RenewalBorn DEF Expecting, Settling, Heirs
  <2>. QED BY <1>0, <2>1, <2>3, <2>4, BegettingStep DEF CallStep, Settling
<1>. QED
  BY <1>2, <1>3, <1>4, <1>5, <1>6, SettlementRows, EditingRows, OtherRows DEF Step

LEMMA InitHeirs == Init => HeirInv
<1>. SUFFICES ASSUME Init PROVE HeirInv
  OBVIOUS
<1>1. \A c \in Chores : inst[c].born = Unborn
  BY HouseholdAssumption DEF Init, Household
<1>2. Begotten = {}
  BY <1>1 DEF Begotten, Heirs, Unborn
<1>3. \A r \in Requests : call[r].op = None
  BY DEF Init, Idle
<1>4. None \notin Winners
  BY NoneAssumption DEF Winners, OpNames
<1>. QED BY <1>2, <1>3, <1>4 DEF HeirInv, BornOnce, BirthsReached, HeirsDue, Expecting

LEMMA NextHeirs == TypeInv /\ PayInv /\ KnowInv /\ HeirInv /\ [Next]_vars => HeirInv'
<1>. SUFFICES ASSUME TypeInv, PayInv, KnowInv, HeirInv, [Next]_vars PROVE HeirInv'
  OBVIOUS
<1>1. CASE UNCHANGED vars
  BY <1>1 DEF vars, HeirInv, BornOnce, BirthsReached, HeirsDue, Expecting, Begotten
<1>2. ASSUME NEW r \in Requests, Step(r) \/ Break(r), Track PROVE HeirInv'
  BY <1>2, HeirStep
<1>. QED BY <1>1, <1>2 DEF Next, Quiet

\* However many submits and approvals of a chore run, are retried or break off
\* together, a completion gets its next occurrence once, and the follow-up of
\* each template once.
THEOREM CompletionsSucceededOnce == Spec => []SucceededOncePerCompletion
<1>1. Init => TypeInv /\ PayInv /\ KnowInv /\ HeirInv
  BY InitType, InitPays, InitKnows, InitHeirs
<1>2. TypeInv /\ PayInv /\ KnowInv /\ HeirInv /\ [Next]_vars
        => TypeInv' /\ PayInv' /\ KnowInv' /\ HeirInv'
  BY NextType, NextPays, NextKnows, NextHeirs
<1>3. HeirInv => SucceededOncePerCompletion
  BY DEF HeirInv, BornOnce, Begotten, Heirs, SucceededOncePerCompletion, Existing
<1>. QED BY <1>1, <1>2, <1>3, PTL DEF Spec

-----------------------------------------------------------------------------
(* The place of a row in its occurrence.                                     *)

\* What a call keeps of its chore's place is still so.
TreeInv ==
    /\ OccurrenceTree
    /\ \A r \in Requests : Placed(call[r]) => InPlace(r)

\* A row written new is the root of its occurrence, or hangs where the chore of
\* call r hangs and joins its cycle.
Hangs(r) ==
    \A c \in Existing' :
        \/ c \in Existing
        \/ inst'[c].root = c
        \/ /\ Placed(call[r])
           /\ inst'[c].root = call[r].row.root /\ inst'[c].cycle = CycleOf(r)

LEMMA PlacedExists ==
    ASSUME TypeInv, KnowInv, NEW r \in Requests, Placed(call[r])
    PROVE  call[r].chore \in Existing
BY OwnChore DEF Placed, Settling, Winners

LEMMA HangingStep ==
    ASSUME TypeInv, KnowInv, TreeInv, RowsKept, NEW r \in Requests, CallStep(r), Hangs(r)
    PROVE  TreeInv'
<1>0. Existing \subseteq Existing'
  BY DEF RowsKept, Existing
<1>1. ASSUME NEW c \in Existing'
      PROVE  LET top == inst'[c].root
             IN  /\ top \in Existing' /\ inst'[top].root = top
                 /\ inst'[top].cycle # None => inst'[c].cycle = inst'[top].cycle
  <2>1. CASE c \in Existing
    BY <1>0, <2>1 DEF TreeInv, OccurrenceTree, RowsKept
  <2>2. CASE inst'[c].root = c
    BY <2>2
  <2>3. CASE Placed(call[r]) /\ inst'[c].root = call[r].row.root /\ inst'[c].cycle = CycleOf(r)
    <3>. DEFINE d == call[r].chore
                top == inst[d].root
    <3>1. /\ d \in Existing /\ call[r].row.root = top /\ call[r].row.cycle = inst[d].cycle
      BY <2>3, PlacedExists DEF TreeInv, InPlace
    <3>2. /\ top \in Existing /\ inst[top].root = top
          /\ inst[top].cycle # None => inst[d].cycle = inst[top].cycle
      BY <3>1 DEF TreeInv, OccurrenceTree
    <3>3. inst'[top].root = top /\ inst'[top].cycle = inst[top].cycle /\ top \in Existing'
      BY <1>0, <3>2 DEF RowsKept
    <3>4. inst[top].cycle # None => CycleOf(r) = inst[top].cycle
      BY <3>1, <3>2 DEF CycleOf
    <3>. QED BY <2>3, <3>1, <3>3, <3>4
  <2>. QED BY <1>1, <2>1, <2>2, <2>3 DEF Hangs
<1>2. ASSUME NEW s \in Requests, Placed(call'[s]), s # r \/ Lasts(call[r], call'[r])
      PROVE  InPlace(s)'
  <2>1. /\ Placed(call[s]) /\ call'[s].chore = call[s].chore /\ call'[s].row = call[s].row
    BY <1>2 DEF CallStep, Lasts
  <2>2. call[s].chore \in Existing /\ InPlace(s)
    BY <2>1, PlacedExists DEF TreeInv
  <2>. QED BY <2>1, <2>2 DEF InPlace, RowsKept
<1>3. \A s \in Requests : Placed(call'[s]) => InPlace(s)'
  BY <1>2 DEF CallStep, Snaps
<1>4. OccurrenceTree'
  BY <1>1 DEF OccurrenceTree
<1>. QED BY <1>3, <1>4 DEF TreeInv, Placed

LEMMA FollowUpsHang ==
    ASSUME TypeInv, NEW r \in Requests, CreateFollowUps(r)
    PROVE  Hangs(r)
<1>1. ASSUME NEW c \in Chores
      PROVE  inst'[c] = inst[c] \/ \E t, u : inst'[c] = FollowUpRow(r, t, u)
  BY DEF CreateFollowUps
<1>2. \A t, u : FollowUpRow(r, t, u).root = call[r].row.root
                /\ FollowUpRow(r, t, u).cycle = CycleOf(r)
  BY DEF FollowUpRow, Blank
<1>3. Placed(call[r])
  BY DEF CreateFollowUps, At, Placed, Winners, Settling
<1>. QED BY <1>1, <1>2, <1>3 DEF Hangs, Existing

LEMMA RenewalHangs ==
    ASSUME TypeInv, NEW r \in Requests, Renew(r), Renews(r)
    PROVE  Hangs(r)
<1>1. PICK u : Save(Fresh, NextRow(r, Fresh, u)) /\ Fresh \in Chores
  BY DEF Renew, Fresh
<1>2. NextRow(r, Fresh, u).root = Fresh
  BY DEF NextRow, Blank
<1>. QED BY <1>1, <1>2 DEF Hangs, Existing, Save, TypeInv, TypeOK

LEMMA TreeStep ==
    ASSUME TypeInv, KnowInv, TreeInv, NEW r \in Requests, Step(r) \/ Break(r)
    PROVE  TreeInv'
<1>1. CallStep(r) /\ RowsKept
  BY KnowingStep, KeepingRows
<1>2. CASE Edits(r)
  BY <1>1, <1>2, HangingStep DEF Edits, Hangs, Existing
<1>3. CASE Adds
  BY <1>1, <1>3, HangingStep DEF Adds, Hangs, Existing, Save, TypeInv, TypeOK
<1>4. CASE CreateFollowUps(r) \/ (Renew(r) /\ Renews(r))
  BY <1>1, <1>4, FollowUpsHang, RenewalHangs, HangingStep
<1>. QED BY <1>2, <1>3, <1>4, SettlementRows, EditingRows, OtherRows DEF Step

LEMMA InitTree == Init /\ OccurrenceTree => TreeInv
<1>. SUFFICES ASSUME Init, OccurrenceTree PROVE TreeInv
  OBVIOUS
<1>1. \A r \in Requests : call[r].op = None
  BY DEF Init, Idle
<1>2. None \notin Winners \cup {"cancelOccurrence"}
  BY NoneAssumption DEF Winners, OpNames
<1>. QED BY <1>1, <1>2 DEF TreeInv, Placed

LEMMA NextTree == TypeInv /\ KnowInv /\ TreeInv /\ [Next]_vars => TreeInv'
<1>. SUFFICES ASSUME TypeInv, KnowInv, TreeInv, [Next]_vars PROVE TreeInv'
  OBVIOUS
<1>1. CASE UNCHANGED vars
  BY <1>1 DEF vars, TreeInv, OccurrenceTree, Placed, InPlace, Existing
<1>2. ASSUME NEW r \in Requests, Step(r) \/ Break(r) PROVE TreeInv'
  BY <1>2, TreeStep
<1>. QED BY <1>1, <1>2 DEF Next, Quiet

\* A household whose chores hang under the roots of their occurrences keeps
\* them there: the successors that a call makes from the row it remembers join
\* the occurrence and the cycle that its chore is still in.
THEOREM OccurrencesStayTogether == Spec /\ OccurrenceTree => []OccurrenceTree
<1>1. Init /\ OccurrenceTree => TypeInv /\ KnowInv /\ TreeInv
  BY InitType, InitKnows, InitTree
<1>2. TypeInv /\ KnowInv /\ TreeInv /\ [Next]_vars => TypeInv' /\ KnowInv' /\ TreeInv'
  BY NextType, NextKnows, NextTree
<1>3. TreeInv => OccurrenceTree
  BY DEF TreeInv
<1>. QED BY <1>1, <1>2, <1>3, PTL DEF Spec
=============================================================================
