--------------------------- MODULE Household_proofs ---------------------------
(***************************************************************************)
(* What holds of a household for every set of members, chores, offers and  *)
(* calls: everything stays well formed; a completion is paid once, keeps   *)
(* its promises, and balances follow the ledger.  The argument for the     *)
(* payments: a conditional update that is won makes a new revision of its  *)
(* chore, larger than any that a call or a ledger entry already holds; so  *)
(* a revision has one holder, and the holder writes one entry.             *)
(***************************************************************************)
EXTENDS Household, Sums

Winners == {"submit", "external", "approve"}

\* A call in progress has the arguments its next statement needs.
Fit(x) ==
    /\ x \in Call
    /\ x.at \notin {"idle", "done"} =>
        /\ x.op \in OpNames
        /\ x.op \notin {"expire", "decline"} /\ x.at # "bill" => x.chore \in Chores
        /\ x.op \notin {"expire", "fine"} => x.actor \in Users
        /\ x.op \in {"accept", "decline"} => x.offer \in Offers
        /\ x.op = "ask" \/ x.at = "ledger" => x.to \in Users
        /\ x.at = "ledger" => x.op \in {"submit", "approve"}

OffersFit ==
    \A o \in Offers : offer[o].status = "PENDING" =>
        offer[o].chore \in Chores /\ offer[o].from \in Users /\ offer[o].to \in Users

TypeInv == TypeOK /\ OffersFit /\ \A r \in Requests : Fit(call[r])

-----------------------------------------------------------------------------
(* Records and the operators that change them.                               *)

LEMMA Blanks == Blank \in Row /\ Fit(Idle) /\ Fit(Returned)
<1>1. Unborn \in Birth
  BY DEF Unborn, Birth, BirthKinds, Maybe
<1>2. Blank \in Row
  BY <1>1 DEF Blank, Row, States, Maybe
<1>3. Idle \in Call /\ Idle.at = "idle"
  BY <1>2 DEF Idle, Call, Maybe, Places
<1>4. Returned \in Call /\ Returned.at = "done"
  BY <1>3 DEF Returned, Call, Places
<1>. QED BY <1>2, <1>3, <1>4 DEF Fit

LEMMA Beginning ==
    ASSUME NEW op \in OpNames, NEW u \in Maybe(Users), NEW p \in Places
    PROVE  /\ Begin(op, u, p) \in Call
           /\ Begin(op, u, p).op = op /\ Begin(op, u, p).actor = u
           /\ Begin(op, u, p).at = p /\ Begin(op, u, p).won = 0
<1>1. Idle \in Call /\ Idle.won = 0
  BY Blanks DEF Fit, Idle
<1>. QED BY <1>1 DEF Begin, Call, Maybe

\* When call r becomes a fit record, every call is fit.
LEMMA Becoming ==
    ASSUME TypeInv, NEW r \in Requests, NEW x, Fit(x), Becomes(r, x)
    PROVE  /\ call' \in [Requests -> Call]
           /\ call'[r] = x
           /\ \A s \in Requests : s # r => call'[s] = call[s]
           /\ \A s \in Requests : Fit(call'[s])
<1>1. call' = [call EXCEPT ![r] = x] /\ x \in Call /\ call \in [Requests -> Call]
  BY DEF TypeInv, TypeOK, Becomes, Fit
<1>2. call' \in [Requests -> Call] /\ call'[r] = x
      /\ \A s \in Requests : s # r => call'[s] = call[s]
  BY <1>1
<1>. QED BY <1>2 DEF TypeInv

LEMMA ReadingCall ==
    ASSUME NEW r \in Requests, NEW op \in OpNames, NEW u \in Users, NEW c \in Chores,
           NEW p \in Places, p \notin {"idle", "done", "ledger"},
           op \notin {"ask", "accept", "decline"}
    PROVE  LET x == [Begin(op, u, p) EXCEPT !.chore = c] IN Fit(x)
<1>1. Begin(op, u, p) \in Call /\ Begin(op, u, p).op = op /\ Begin(op, u, p).actor = u
      /\ Begin(op, u, p).at = p
  BY Beginning DEF Maybe
<1>. QED BY <1>1 DEF Fit, Call, Maybe

LEMMA Going ==
    ASSUME NEW x \in Call, Fit(x), x.at \notin {"idle", "done", "bill"},
           NEW p \in Places \ {"ledger"}
    PROVE  Fit([x EXCEPT !.at = p])
BY DEF Fit, Call

LEMMA Saving ==
    ASSUME TypeOK, NEW c \in Chores, NEW row \in Row, Save(c, row)
    PROVE  inst' \in [Chores -> Row]
BY DEF TypeOK, Save

LEMMA Tracking == TypeOK /\ Track => rev' \in [Chores -> Nat]
BY DEF TypeOK, Track

LEMMA Cancelling ==
    ASSUME TypeInv, NEW S, offer' = Cancelled(S)
    PROVE  /\ offer' \in [Offers -> Offer]
           /\ OffersFit'
BY DEF TypeInv, TypeOK, OffersFit, Cancelled, Offer, Statuses

\* Settled rows are typed rows.
LEMMA RowFields ==
    ASSUME NEW row \in Row, NEW s \in States, NEW u \in Maybe(Users), NEW l \in BOOLEAN
    PROVE  /\ [row EXCEPT !.state = s, !.submitter = u] \in Row
           /\ [row EXCEPT !.assignee = u, !.state = s, !.locked = l] \in Row
BY DEF Row

LEMMA Restating ==
    ASSUME NEW row \in Row, NEW s \in States
    PROVE  [row EXCEPT !.state = s] \in Row
BY DEF Row

LEMMA Overdueing ==
    ASSUME NEW row \in Row
    PROVE  [row EXCEPT !.state = "OVERDUE", !.fined = TRUE] \in Row
BY DEF Row, States

LEMMA Assigning == \A u : AssignedState(u) \in States
BY DEF AssignedState, States

LEMMA Paying ==
    ASSUME NEW x \in Call, NEW u \in Users, Fit(x), x.op \in {"submit", "approve"},
           x.at = "credit"
    PROVE  Fit([x EXCEPT !.at = "ledger", !.to = u])
BY DEF Fit, Call, Places, Maybe, OpNames

LEMMA Forgoing ==
    ASSUME NEW x \in Call, Fit(x), x.op \in {"submit", "approve"}, x.at = "credit"
    PROVE  Fit([x EXCEPT !.at = "follow", !.to = None])
BY DEF Fit, Call, Places, Maybe, OpNames

-----------------------------------------------------------------------------
(* Every step keeps the types: settlement.                                   *)

LEMMA SettlementType ==
    ASSUME TypeInv, NEW r \in Requests, Settlement(r), Track
    PROVE  TypeInv'
<1>. USE DEF TypeInv
<1>0. rev' \in [Chores -> Nat] /\ call[r] \in Call /\ Fit(call[r])
  BY Tracking DEF TypeOK
<1>1. CASE SubmitRead(r) \/ ExternalRead(r) \/ ReviewRead(r)
  <2>1. PICK op \in {"submit", "external", "approve", "reject"}, u \in Users, c \in Chores :
            Becomes(r, [Begin(op, u, "write") EXCEPT !.chore = c])
    BY <1>1, PeopleAssumption DEF SubmitRead, ExternalRead, ReviewRead, Checked, Existing, Reviews
  <2>2. Fit([Begin(op, u, "write") EXCEPT !.chore = c])
    BY ReadingCall DEF OpNames, Places
  <2>. QED BY <1>0, <1>1, <2>1, <2>2, Becoming
           DEF SubmitRead, ExternalRead, ReviewRead, TypeOK, OffersFit
<1>2. CASE SubmitWin(r)
  <2>. DEFINE c == call[r].chore
              row == [inst[c] EXCEPT !.state = SubmitTarget(r), !.submitter = call[r].actor]
  <2>1. c \in Chores /\ call[r].actor \in Users
    BY <1>0, <1>2 DEF SubmitWin, At, Submits, Fit
  <2>2. row \in Row
    BY <2>1, RowFields DEF TypeOK, SubmitTarget, States, Maybe
  <2>3. inst' \in [Chores -> Row]
    BY <1>2, <2>1, <2>2, Saving DEF SubmitWin
  <2>4. offer' \in [Offers -> Offer] /\ OffersFit'
    BY <1>2, Cancelling DEF SubmitWin
  <2>5. call' \in [Requests -> Call] /\ \A s \in Requests : Fit(call'[s])
    <3>1. CASE Return(r)
      BY <3>1, Blanks, Becoming DEF Return
    <3>2. CASE Won(r, row, IF call[r].op = "external" THEN "follow" ELSE "credit")
      <4>. DEFINE p == IF call[r].op = "external" THEN "follow" ELSE "credit"
                  x == [call[r] EXCEPT !.at = p, !.row = row, !.won = Made(c, row)]
      <4>1. Made(c, row) \in Nat /\ p \in Places
        BY <2>1 DEF TypeOK, Places, Made
      <4>2. x \in Call /\ Fit(x)
        BY <1>0, <1>2, <2>1, <2>2, <4>1 DEF Fit, Call, SubmitWin, At, Submits
      <4>3. Becomes(r, x)
        BY <3>2 DEF Won
      <4>. QED BY <4>2, <4>3, Becoming
    <3>. QED BY <1>2, <3>1, <3>2 DEF SubmitWin
  <2>. QED BY <1>0, <1>2, <2>3, <2>4, <2>5 DEF SubmitWin, TypeOK
<1>3. CASE SubmitLose(r) \/ ReviewLose(r)
  BY <1>0, <1>3, Blanks, Becoming DEF SubmitLose, ReviewLose, Return, TypeOK, OffersFit
<1>4. CASE ReviewWin(r)
  <2>. DEFINE c == call[r].chore
              row == [inst[c] EXCEPT !.state = ReviewTarget(r)]
  <2>1. c \in Chores
    BY <1>0, <1>4 DEF ReviewWin, At, Reviews, Fit
  <2>2. row \in Row
    BY <2>1, Restating DEF TypeOK, ReviewTarget, States
  <2>3. inst' \in [Chores -> Row]
    BY <1>4, <2>1, <2>2, Saving DEF ReviewWin
  <2>4. call' \in [Requests -> Call] /\ \A s \in Requests : Fit(call'[s])
    <3>1. CASE Return(r)
      BY <3>1, Blanks, Becoming DEF Return
    <3>2. CASE Won(r, row, "credit")
      <4>. DEFINE x == [call[r] EXCEPT !.at = "credit", !.row = row, !.won = Made(c, row)]
      <4>1. Made(c, row) \in Nat /\ "credit" \in Places
        BY <2>1 DEF TypeOK, Places, Made
      <4>2. x \in Call /\ Fit(x)
        BY <1>0, <1>4, <2>1, <2>2, <4>1 DEF Fit, Call, ReviewWin, At, Reviews
      <4>3. Becomes(r, x)
        BY <3>2 DEF Won
      <4>. QED BY <4>2, <4>3, Becoming
    <3>. QED BY <1>4, <3>1, <3>2 DEF ReviewWin
  <2>. QED BY <1>0, <1>4, <2>3, <2>4 DEF ReviewWin, TypeOK, OffersFit
<1>5. CASE Credit(r)
  <2>. DEFINE u == Beneficiary(r)
              p == IF u = None THEN "follow" ELSE "ledger"
              x == [call[r] EXCEPT !.at = p, !.to = u]
  <2>1. u \in Maybe(Users)
    BY <1>0, <1>5 DEF Credit, At, Fit, Beneficiary, Call, Row, Maybe
  <2>2. x \in Call /\ Fit(x)
    <3>1. CASE u = None
      BY <1>0, <1>5, <3>1, Forgoing DEF Credit, At, Fit
    <3>2. CASE u # None
      <4>1. u \in Users
        BY <2>1, <3>2 DEF Maybe
      <4>. QED BY <1>0, <1>5, <3>2, <4>1, Paying DEF Credit, At, Fit
    <3>. QED BY <3>1, <3>2
  <2>3. points' \in [Users -> Int]
    BY <1>5, <2>1, NumberAssumption DEF Credit, TypeOK, Maybe
  <2>. QED BY <1>0, <1>5, <2>2, <2>3, Becoming DEF Credit, TypeOK, OffersFit
<1>6. CASE RecordCompletion(r)
  <2>1. call[r].to \in Users /\ call[r].chore \in Chores /\ call[r].won \in Nat
    BY <1>0, <1>6 DEF RecordCompletion, At, Fit, Call
  <2>2. Paid(r) \in Entry
    BY <2>1, NumberAssumption DEF Paid, Entry, EntryKinds, Maybe
  <2>3. Fit([call[r] EXCEPT !.at = "follow"])
    BY <1>0, <1>6, Going DEF RecordCompletion, At, Places
  <2>. QED BY <1>0, <1>6, <2>2, <2>3, Becoming DEF RecordCompletion, Go, TypeOK, OffersFit
<1>7. CASE CreateFollowUps(r)
  <2>. DEFINE T == NeedsFollowUps(r)
              id == FreshIds(T)
  <2>1. T \subseteq Templates /\ call[r].row \in Row /\ call[r].chore \in Chores
    BY <1>0, <1>7, TemplateAssumption DEF CreateFollowUps, At, Fit, NeedsFollowUps, Call, Row, Maybe
  <2>2. \A t \in T, u \in Maybe(Users) : FollowUpRow(r, t, u) \in Row
    <3>. SUFFICES ASSUME NEW t \in T, NEW u \in Maybe(Users) PROVE FollowUpRow(r, t, u) \in Row
      OBVIOUS
    <3>1. BornOf(r, "followUp", t) \in Birth
      BY <1>0, <2>1 DEF BornOf, Birth, BirthKinds, Maybe, Call
    <3>2. CycleOf(r) \in Maybe(Chores) /\ call[r].row.root \in Maybe(Chores)
      BY <2>1 DEF CycleOf, Row, Maybe
    <3>3. t \in Maybe(Templates) /\ AssignedState(u) \in States /\ Repeats(t) \in BOOLEAN
      BY <2>1, Assigning DEF Maybe, Repeats
    <3>. QED BY <3>1, <3>2, <3>3, Blanks DEF FollowUpRow, Row
  <2>3. inst' \in [Chores -> Row]
    <3>1. PICK u \in [T -> Maybe(Users)] :
            inst' = [c \in Chores |-> IF \E t \in T : id[t] = c
                                     THEN FollowUpRow(r, CHOOSE t \in T : id[t] = c,
                                                      u[CHOOSE t \in T : id[t] = c])
                                     ELSE inst[c]]
      BY <1>7 DEF CreateFollowUps
    <3>2. \A c \in Chores : (\E t \in T : id[t] = c) => (CHOOSE t \in T : id[t] = c) \in T
      OBVIOUS
    <3>. QED BY <3>1, <3>2, <2>2 DEF TypeOK
  <2>4. Fit([call[r] EXCEPT !.at = "renew"])
    BY <1>0, <1>7, Going DEF CreateFollowUps, At, Places
  <2>. QED BY <1>0, <1>7, <2>3, <2>4, Becoming DEF CreateFollowUps, Go, TypeOK, OffersFit
<1>8. CASE Renew(r)
  <2>1. call[r].row \in Row /\ call[r].chore \in Chores
    BY <1>0, <1>8 DEF Renew, At, Fit, Call
  <2>2. inst' \in [Chores -> Row]
    <3>1. CASE Renews(r) /\ Chores \ Existing # {}
               /\ \E u \in Maybe(Users) : Save(Fresh, NextRow(r, Fresh, u))
      <4>1. PICK u \in Maybe(Users) : Save(Fresh, NextRow(r, Fresh, u))
        BY <3>1
      <4>2. Fresh \in Chores
        BY <3>1 DEF Fresh
      <4>3. /\ \A k \in {"renewal", "reissue"} : BornOf(r, k, call[r].row.tmpl) \in Birth
            /\ CycleOf(r) \in Maybe(Chores)
        BY <1>0, <2>1 DEF BornOf, Birth, BirthKinds, Maybe, Call, CycleOf, Row
      <4>4. NextRow(r, Fresh, u) \in Row
        <5>1. call[r].row.left \in Int /\ call[r].row.tmpl \in Maybe(Templates)
              /\ Fresh \in Maybe(Chores) /\ AssignedState(u) \in States
          BY <2>1, <4>2, Assigning DEF Row, Maybe
        <5>2. (IF call[r].row.left > 0 THEN call[r].row.left - 1 ELSE call[r].row.left) \in Int
          BY <5>1
        <5>3. BornOf(r, IF call[r].op = "cancelOccurrence" THEN "reissue" ELSE "renewal",
                     call[r].row.tmpl) \in Birth
          BY <4>3
        <5>. QED BY <4>3, <5>1, <5>2, <5>3, Blanks DEF NextRow, Row
      <4>. QED BY <4>1, <4>2, <4>4, Saving
    <3>. QED BY <1>8, <3>1 DEF Renew, TypeOK
  <2>3. call' \in [Requests -> Call] /\ \A s \in Requests : Fit(call'[s])
    <3>1. Fit([call[r] EXCEPT !.at = "flex"])
      BY <1>0, <1>8, Going DEF Renew, At, Places
    <3>. QED BY <1>8, <3>1, Blanks, Becoming DEF Renew, AfterRenewal, Go, Return
  <2>. QED BY <1>0, <1>8, <2>2, <2>3 DEF Renew, TypeOK, OffersFit
<1>. QED
  BY <1>1, <1>2, <1>3, <1>4, <1>5, <1>6, <1>7, <1>8 DEF Settlement
-----------------------------------------------------------------------------
(* Every step keeps the types: editing.                                      *)

\* A chore is read into the record of a call that begins.
LEMMA ListingCall ==
    ASSUME NEW op \in {"cancel", "quickLog"}, NEW u \in Users, NEW c \in Chores,
           NEW row \in Row, NEW T \in SUBSET Items
    PROVE  /\ Fit([Begin(op, u, "write") EXCEPT !.chore = c, !.todo = T])
           /\ Fit([Begin(op, u, "write") EXCEPT !.chore = c, !.row = row])
<1>. DEFINE b == Begin(op, u, "write")
<1>1. b \in Call /\ b.op = op /\ b.actor = u /\ b.at = "write"
  BY Beginning DEF Maybe, OpNames, Places
<1>. HIDE DEF b
<1>2. Fit([b EXCEPT !.chore = c, !.todo = T]) /\ Fit([b EXCEPT !.chore = c, !.row = row])
  BY <1>1 DEF Fit, Call, Maybe, OpNames
<1>. QED BY <1>2 DEF b

\* A call in progress remembers a row, or rows to visit.
LEMMA Remembering ==
    ASSUME NEW x \in Call, Fit(x), x.at \notin {"idle", "done", "bill"},
           NEW p \in Places \ {"ledger"}, NEW row \in Row, NEW T \in SUBSET Items
    PROVE  /\ Fit([x EXCEPT !.at = p, !.row = row])
           /\ Fit([x EXCEPT !.at = p, !.todo = T, !.row = row])
           /\ Fit([x EXCEPT !.todo = T, !.at = p])
BY DEF Fit, Call

\* The same without a row.
LEMMA Listing ==
    ASSUME NEW x \in Call, Fit(x), x.at \notin {"idle", "done", "bill"},
           NEW p \in Places \ {"ledger"}, NEW T \in SUBSET Items
    PROVE  Fit([x EXCEPT !.at = p, !.todo = T])
BY DEF Fit, Call

LEMMA EditingType ==
    ASSUME TypeInv, NEW r \in Requests, Editing(r), Track
    PROVE  TypeInv'
<1>. USE DEF TypeInv
<1>0. /\ rev' \in [Chores -> Nat] /\ call[r] \in Call /\ Fit(call[r])
      /\ \A c \in Chores : inst[c] \in Row
  BY Tracking DEF TypeOK
<1>1. CASE StartRead(r) \/ TakeOverRead(r) \/ UpdateRead(r) \/ CancelOccurrenceRead(r)
           \/ CloseCycleRead(r)
  <2>1. PICK op \in {"start", "takeOver", "update", "cancelOccurrence", "closeCycle"},
             u \in Users, c \in Chores, p \in {"write", "reread"} :
            Becomes(r, [Begin(op, u, p) EXCEPT !.chore = c])
    BY <1>1, PeopleAssumption
       DEF StartRead, TakeOverRead, UpdateRead, CancelOccurrenceRead, CloseCycleRead,
           Checked, Existing
  <2>2. Fit([Begin(op, u, p) EXCEPT !.chore = c])
    BY ReadingCall DEF OpNames, Places
  <2>. QED BY <1>0, <1>1, <2>1, <2>2, Becoming
           DEF StartRead, TakeOverRead, UpdateRead, CancelOccurrenceRead, CloseCycleRead,
               TypeOK, OffersFit
<1>2. CASE CancelRead(r)
  <2>1. PICK u \in Users, c \in Chores :
            Becomes(r, [Begin("cancel", u, "write") EXCEPT !.chore = c, !.todo = {c}])
    BY <1>2, PeopleAssumption DEF CancelRead, Existing
  <2>2. Fit([Begin("cancel", u, "write") EXCEPT !.chore = c, !.todo = {c}])
    BY <1>0, ListingCall DEF Items
  <2>. QED BY <1>0, <1>2, <2>1, <2>2, Becoming DEF CancelRead, TypeOK, OffersFit
<1>3. CASE QuickLogRead(r)
  <2>1. PICK u \in Users, c \in Chores :
            Becomes(r, [Begin("quickLog", u, "write") EXCEPT !.chore = c, !.row = inst[c]])
    BY <1>3, PeopleAssumption DEF QuickLogRead, Existing
  <2>2. Fit([Begin("quickLog", u, "write") EXCEPT !.chore = c, !.row = inst[c]])
    BY <1>0, ListingCall
  <2>. QED BY <1>0, <1>3, <2>1, <2>2, Becoming DEF QuickLogRead, TypeOK, OffersFit
<1>4. CASE Claim(r)
  <2>1. call[r].chore \in Chores /\ call[r].actor \in Users
    BY <1>0, <1>4 DEF Claim, At, Fit
  <2>2. inst' \in [Chores -> Row]
    BY <1>0, <1>4, <2>1, RowFields, Saving DEF Claim, States, Maybe
  <2>3. Fit([call[r] EXCEPT !.at = IF call[r].op = "start" THEN "flex" ELSE "offers"])
    BY <1>0, <1>4, Going DEF Claim, At, Places
  <2>. QED BY <1>0, <1>4, <2>2, <2>3, Becoming DEF Claim, Go, TypeOK, OffersFit
<1>5. CASE CancelOffers(r)
  <2>1. Fit([call[r] EXCEPT !.at = "flex"])
    BY <1>0, <1>5, Going DEF CancelOffers, At, Places
  <2>. QED BY <1>0, <1>5, <2>1, Becoming, Cancelling DEF CancelOffers, Go, TypeOK
<1>6. CASE UpdateReread(r)
  <2>1. call[r].chore \in Chores
    BY <1>0, <1>6 DEF UpdateReread, At, Fit
  <2>2. Fit([call[r] EXCEPT !.at = "write", !.row = inst[call[r].chore]])
    BY <1>0, <1>6, <2>1, Remembering DEF UpdateReread, At, Places
  <2>. QED BY <1>0, <1>6, <2>2, Becoming DEF UpdateReread, TypeOK, OffersFit
<1>7. CASE Update(r)
  <2>1. call[r].chore \in Chores /\ call[r].row \in Row
    BY <1>0, <1>7 DEF Update, At, Fit, Call
  <2>2. PICK u \in Maybe(Users), locked \in BOOLEAN, recurs \in BOOLEAN, t \in Templates,
             left \in Counts \cup {call[r].row.left} :
            Save(call[r].chore,
                 [inst[call[r].chore] EXCEPT !.assignee = u, !.locked = locked, !.tmpl = t,
                                       !.recurs = recurs, !.left = left,
                                       !.state = call[r].row.state])
    BY <1>7 DEF Update
  <2>3. left \in Int /\ t \in Maybe(Templates) /\ call[r].row.state \in States
    BY <2>1, <2>2 DEF Row, Counts, Maybe
  <2>4. inst[call[r].chore] \in Row
    BY <1>0, <2>1
  <2>5. [inst[call[r].chore] EXCEPT !.assignee = u, !.locked = locked, !.tmpl = t,
                                       !.recurs = recurs, !.left = left,
                                       !.state = call[r].row.state] \in Row
    BY <2>3, <2>4 DEF Row
  <2>6. inst' \in [Chores -> Row]
    BY <2>1, <2>2, <2>5, Saving
  <2>7. Fit([call[r] EXCEPT !.at = "flex"])
    BY <1>0, <1>7, Going DEF Update, At, Places
  <2>. QED BY <1>0, <1>7, <2>6, <2>7, Becoming DEF Update, Go, TypeOK, OffersFit
<1>8. CASE ListSiblings(r)
  <2>1. call[r].chore \in Chores /\ Siblings(r) \in SUBSET Items
    BY <1>0, <1>8 DEF ListSiblings, At, Fit, Siblings, Existing, Items
  <2>2. Fit([call[r] EXCEPT !.at = "write", !.todo = Siblings(r),
                            !.row = inst[call[r].chore]])
    BY <1>0, <1>8, <2>1, Remembering DEF ListSiblings, At, Places
  <2>. QED BY <1>0, <1>8, <2>2, Blanks, Becoming DEF ListSiblings, Return, TypeOK, OffersFit
<1>9. CASE Cancel(r)
  <2>1. inst' \in [Chores -> Row]
    BY <1>0, <1>9, Restating DEF Cancel, States
  <2>2. Fit([call[r] EXCEPT !.todo = {}, !.at = IF call[r].op = "cancelOccurrence"
                                                THEN "renew" ELSE "flex"])
    BY <1>0, <1>9, Remembering, Blanks DEF Cancel, At, Places
  <2>. QED BY <1>0, <1>9, <2>1, <2>2, Becoming, Cancelling DEF Cancel, TypeOK
<1>10. CASE Release(r) \/ Snooze(r)
  <2>1. PICK c \in Chores, s \in States : Save(c, [inst[c] EXCEPT !.state = s])
    BY <1>10 DEF Release, Snooze, Existing, States
  <2>2. inst' \in [Chores -> Row]
    BY <1>0, <2>1, Restating, Saving
  <2>. QED BY <1>0, <1>10, <2>2, Blanks, Becoming DEF Release, Snooze, Return, TypeOK, OffersFit
<1>11. CASE List(r)
  <2>1. inst' \in [Chores -> Row]
    BY <1>0, <1>11, Restating DEF List, States
  <2>. QED BY <1>0, <1>11, <2>1, Blanks, Becoming DEF List, Return, TypeOK, OffersFit
<1>12. CASE Create(r)
  <2>1. Fresh \in Chores
    BY <1>12 DEF Create, Fresh
  <2>2. PICK a \in Users, t \in Templates, recurs \in BOOLEAN, left \in Counts,
             u \in Maybe(Users), locked \in BOOLEAN :
            /\ Save(Fresh, CreateRow(Fresh, t, recurs, left, u, locked))
            /\ Becomes(r, [Begin("create", a, "flex") EXCEPT !.chore = Fresh])
    BY <1>12, PeopleAssumption DEF Create, Checked
  <2>3. /\ t \in Maybe(Templates) /\ left \in Int /\ AssignedState(u) \in States
        /\ (IF recurs \/ FollowUps[t] # {} THEN Fresh ELSE None) \in Maybe(Chores)
        /\ Fresh \in Maybe(Chores) /\ Created \in Birth
    BY <2>1, <2>2, Assigning DEF Counts, Maybe, Created, Unborn, Birth, BirthKinds
  <2>4. CreateRow(Fresh, t, recurs, left, u, locked) \in Row
    BY <2>3, Blanks DEF CreateRow, Row
  <2>5. inst' \in [Chores -> Row]
    BY <2>1, <2>2, <2>4, Saving
  <2>6. Fit([Begin("create", a, "flex") EXCEPT !.chore = Fresh])
    BY <2>1, ReadingCall DEF OpNames, Places
  <2>. QED BY <1>0, <1>12, <2>2, <2>5, <2>6, Becoming DEF Create, TypeOK, OffersFit
<1>13. CASE QuickLog(r)
  <2>1. call[r].chore \in Chores /\ call[r].actor \in Users /\ call[r].row \in Row
    BY <1>0, <1>13 DEF QuickLog, At, Fit, Call
  <2>2. (IF call[r].row.submitter = None THEN call[r].actor ELSE call[r].row.submitter)
        \in Maybe(Users)
    BY <2>1 DEF Row, Maybe
  <2>3. inst' \in [Chores -> Row]
    BY <1>0, <1>13, <2>1, <2>2, RowFields, Saving DEF QuickLog, States
  <2>. QED BY <1>0, <1>13, <2>3, Blanks, Becoming DEF QuickLog, Return, TypeOK, OffersFit
<1>14. CASE QuickLogNew(r)
  <2>1. Fresh \in Chores
    BY <1>14 DEF QuickLogNew, Fresh
  <2>2. PICK u \in Users, t \in Maybe(Templates) :
            Save(Fresh, [Blank EXCEPT !.state = "COMPLETED", !.assignee = u,
                         !.locked = TRUE, !.submitter = u, !.tmpl = t,
                         !.root = Fresh, !.born = Created])
    BY <1>14, PeopleAssumption DEF QuickLogNew
  <2>3. "COMPLETED" \in States /\ u \in Maybe(Users) /\ Created \in Birth
        /\ Fresh \in Maybe(Chores)
    BY <2>1 DEF States, Maybe, Created, Unborn, Birth, BirthKinds
  <2>4. [Blank EXCEPT !.state = "COMPLETED", !.assignee = u, !.locked = TRUE,
                      !.submitter = u, !.tmpl = t, !.root = Fresh, !.born = Created] \in Row
    BY <2>2, <2>3, Blanks DEF Row
  <2>5. inst' \in [Chores -> Row]
    BY <2>1, <2>2, <2>4, Saving
  <2>. QED BY <1>0, <1>14, <2>5, Blanks, Becoming DEF QuickLogNew, Return, TypeOK, OffersFit
<1>. QED
  BY <1>1, <1>2, <1>3, <1>4, <1>5, <1>6, <1>7, <1>8, <1>9, <1>10, <1>11, <1>12, <1>13, <1>14
  DEF Editing
-----------------------------------------------------------------------------
(* Every step keeps the types: takeover requests, penalties, rebalancing.    *)

LEMMA AskingCall ==
    ASSUME NEW u \in Users, NEW v \in Users, NEW c \in Chores
    PROVE  Fit([Begin("ask", u, "pending") EXCEPT !.chore = c, !.to = v])
<1>. DEFINE b == Begin("ask", u, "pending")
<1>1. b \in Call /\ b.op = "ask" /\ b.actor = u /\ b.at = "pending"
  BY Beginning DEF OpNames, Maybe, Places
<1>. HIDE DEF b
<1>2. Fit([b EXCEPT !.chore = c, !.to = v])
  BY <1>1 DEF Fit, Call, Maybe, OpNames
<1>. QED BY <1>2 DEF b

LEMMA AnsweringCall ==
    ASSUME NEW u \in Users, NEW c \in Chores, NEW o \in Offers
    PROVE  /\ Fit([Begin("accept", u, "write") EXCEPT !.chore = c, !.offer = o])
           /\ Fit([Begin("decline", u, "write") EXCEPT !.offer = o])
<1>1. Fit([Begin("accept", u, "write") EXCEPT !.chore = c, !.offer = o])
  <2>. DEFINE b == Begin("accept", u, "write")
  <2>1. b \in Call /\ b.op = "accept" /\ b.actor = u /\ b.at = "write"
    BY Beginning DEF OpNames, Maybe, Places
  <2>. HIDE DEF b
  <2>2. Fit([b EXCEPT !.chore = c, !.offer = o])
    BY <2>1 DEF Fit, Call, Maybe, OpNames
  <2>. QED BY <2>2 DEF b
<1>2. Fit([Begin("decline", u, "write") EXCEPT !.offer = o])
  <2>. DEFINE b == Begin("decline", u, "write")
  <2>1. b \in Call /\ b.op = "decline" /\ b.actor = u /\ b.at = "write"
    BY Beginning DEF OpNames, Maybe, Places
  <2>. HIDE DEF b
  <2>2. Fit([b EXCEPT !.offer = o])
    BY <2>1 DEF Fit, Call, Maybe, OpNames
  <2>. QED BY <2>2 DEF b
<1>. QED BY <1>1, <1>2

\* A worker pass begins without an actor.
LEMMA PassBeginning ==
    ASSUME NEW T \in SUBSET Items
    PROVE  /\ Fit([Begin("expire", None, "sweep") EXCEPT !.todo = T])
           /\ Fit([Begin("fine", None, "bill") EXCEPT !.todo = T])
<1>1. None \in Maybe(Users)
  BY DEF Maybe
<1>2. Fit([Begin("expire", None, "sweep") EXCEPT !.todo = T])
  <2>. DEFINE b == Begin("expire", None, "sweep")
  <2>1. b \in Call /\ b.op = "expire" /\ b.at = "sweep"
    BY <1>1, Beginning DEF OpNames, Places
  <2>. HIDE DEF b
  <2>2. Fit([b EXCEPT !.todo = T])
    BY <2>1 DEF Fit, Call, OpNames
  <2>. QED BY <2>2 DEF b
<1>3. Fit([Begin("fine", None, "bill") EXCEPT !.todo = T])
  <2>. DEFINE b == Begin("fine", None, "bill")
  <2>1. b \in Call /\ b.op = "fine" /\ b.at = "bill"
    BY <1>1, Beginning DEF OpNames, Places
  <2>. HIDE DEF b
  <2>2. Fit([b EXCEPT !.todo = T])
    BY <2>1 DEF Fit, Call, OpNames
  <2>. QED BY <2>2 DEF b
<1>. QED BY <1>2, <1>3

\* Visiting one more item of the list.
LEMMA Visiting ==
    ASSUME TypeInv, NEW r \in Requests, NEW item, Visited(r, item)
    PROVE  call' \in [Requests -> Call] /\ \A s \in Requests : Fit(call'[s])
<1>1. call[r] \in Call /\ Fit(call[r])
  BY DEF TypeInv, TypeOK
<1>2. Fit([call[r] EXCEPT !.todo = call[r].todo \ {item}])
  BY <1>1 DEF Fit, Call
<1>. QED BY <1>2, Blanks, Becoming DEF Visited, Return

LEMMA TakeoverType ==
    ASSUME TypeInv, NEW r \in Requests, TakeoverStep(r), Track
    PROVE  TypeInv'
<1>. USE DEF TypeInv
<1>0. rev' \in [Chores -> Nat] /\ call[r] \in Call /\ Fit(call[r])
  BY Tracking DEF TypeOK
<1>1. CASE AskRead(r)
  <2>1. PICK u \in Users, v \in Users, c \in Chores :
            Becomes(r, [Begin("ask", u, "pending") EXCEPT !.chore = c, !.to = v])
    BY <1>1, PeopleAssumption DEF AskRead, Existing
  <2>2. Fit([Begin("ask", u, "pending") EXCEPT !.chore = c, !.to = v])
    BY AskingCall
  <2>. QED BY <1>0, <1>1, <2>1, <2>2, Becoming DEF AskRead, TypeOK, OffersFit
<1>2. CASE AskCheck(r)
  <2>1. Fit([call[r] EXCEPT !.at = IF Delta < 0 THEN "balance" ELSE "write"])
    BY <1>0, <1>2, Going DEF AskCheck, At, Places
  <2>. QED BY <1>0, <1>2, <2>1, Blanks, Becoming DEF AskCheck, Return, Go, TypeOK, OffersFit
<1>3. CASE AskBalance(r)
  <2>1. call[r].actor \in Users
    BY <1>0, <1>3 DEF AskBalance, At, Fit
  <2>2. points[call[r].actor] \in Int
    BY <2>1 DEF TypeOK
  <2>3. Fit([call[r] EXCEPT !.at = "write", !.bal = points[call[r].actor]])
    BY <1>0, <1>3, <2>2 DEF AskBalance, At, Fit, Call, Places
  <2>. QED BY <1>0, <1>3, <2>3, Becoming DEF AskBalance, TypeOK, OffersFit
<1>4. CASE Ask(r)
  <2>1. /\ call[r].actor \in Users /\ call[r].chore \in Chores /\ call[r].to \in Users
        /\ call[r].bal \in Int
    BY <1>0, <1>4 DEF Ask, At, Fit, Call
  <2>2. AskCost(r) \in Int
    BY <2>1, NumberAssumption DEF AskCost, Least
  <2>3. points' \in [Users -> Int]
    <3>1. points' = [points EXCEPT ![call[r].actor] = @ - AskCost(r)]
      BY <1>4 DEF Ask
    <3>. QED BY <2>1, <2>2, <3>1 DEF TypeOK
  <2>4. Takeover(r, -AskCost(r)) \in Entry
    BY <2>1, <2>2 DEF Takeover, Entry, EntryKinds, Maybe, TypeOK
  <2>5. FreshOffer \in Offers
    BY <1>4 DEF Ask, FreshOffer
  <2>6. offer' = [offer EXCEPT ![FreshOffer] =
                    [chore |-> call[r].chore, from |-> call[r].actor,
                     to |-> call[r].to, status |-> "PENDING"]]
    BY <1>4 DEF Ask
  <2>7. offer' \in [Offers -> Offer] /\ OffersFit'
    BY <2>1, <2>5, <2>6 DEF OffersFit, TypeOK, Offer, Statuses, Maybe
  <2>. QED BY <1>0, <1>4, <2>3, <2>4, <2>7, Blanks, Becoming DEF Ask, Return, TypeOK
<1>5. CASE AcceptRead(r)
  <2>1. PICK o \in Offers :
            /\ offer[o].status = "PENDING"
            /\ Becomes(r, [Begin("accept", offer[o].to, "write") EXCEPT
                              !.chore = offer[o].chore, !.offer = o])
    BY <1>5 DEF AcceptRead
  <2>2. offer[o].chore \in Chores /\ offer[o].to \in Users
    BY <2>1 DEF OffersFit
  <2>3. Fit([Begin("accept", offer[o].to, "write") EXCEPT !.chore = offer[o].chore,
                                                          !.offer = o])
    BY <2>2, AnsweringCall
  <2>. QED BY <1>0, <1>5, <2>1, <2>3, Becoming DEF AcceptRead, TypeOK, OffersFit
<1>6. CASE Accept(r)
  <2>1. call[r].actor \in Users /\ call[r].chore \in Chores /\ call[r].offer \in Offers
    BY <1>0, <1>6 DEF Accept, At, Fit
  <2>2. inst[call[r].chore] \in Row
    BY <2>1 DEF TypeOK
  <2>3. inst' \in [Chores -> Row]
    BY <1>6, <2>1, <2>2, RowFields, Saving DEF Accept, States, Maybe
  <2>4. points' \in [Users -> Int] /\ Takeover(r, Delta) \in Entry
    <3>1. points' = IF Delta > 0 THEN [points EXCEPT ![call[r].actor] = @ + Delta] ELSE points
      BY <1>6 DEF Accept
    <3>2. points' \in [Users -> Int]
      <4>1. CASE Delta > 0
        <5>1. points' = [points EXCEPT ![call[r].actor] = @ + Delta]
          BY <3>1, <4>1
        <5>. QED BY <2>1, <5>1, NumberAssumption DEF TypeOK
      <4>. QED BY <3>1, <4>1 DEF TypeOK
    <3>3. rev[call[r].chore] \in Nat
      BY <2>1 DEF TypeOK
    <3>. QED BY <2>1, <3>2, <3>3, NumberAssumption DEF Takeover, Entry, EntryKinds, Maybe
  <2>5. offer' = [Cancelled({call[r].chore}) EXCEPT ![call[r].offer].status = "APPROVED"]
    BY <1>6 DEF Accept
  <2>6. Fit([call[r] EXCEPT !.at = "flex"])
    BY <1>0, <1>6, Going DEF Accept, At, Places
  <2>. DEFINE off == Cancelled({call[r].chore})
  <2>7. off \in [Offers -> Offer] /\ \A o \in Offers :
           off[o].status = "PENDING" => off[o] = offer[o]
    BY DEF Cancelled, TypeOK, Offer, Statuses
  <2>8. offer' \in [Offers -> Offer] /\ \A o \in Offers :
           offer'[o].status = "PENDING" => offer'[o] = off[o]
    <3>. HIDE DEF off
    <3>1. offer' = [off EXCEPT ![call[r].offer].status = "APPROVED"]
      BY <2>5 DEF off
    <3>. QED BY <3>1, <2>1, <2>7 DEF Offer, Statuses
  <2>9. OffersFit'
    <3>. HIDE DEF off
    <3>. QED BY <2>7, <2>8 DEF OffersFit
  <2>. QED BY <1>0, <1>6, <2>3, <2>4, <2>6, <2>8, <2>9, Becoming DEF Accept, Go, TypeOK
<1>7. CASE DeclineRead(r)
  <2>1. PICK o \in Offers :
            /\ offer[o].status = "PENDING"
            /\ Becomes(r, [Begin("decline", offer[o].to, "write") EXCEPT !.offer = o])
    BY <1>7 DEF DeclineRead
  <2>2. offer[o].chore \in Chores /\ offer[o].to \in Users
    BY <2>1 DEF OffersFit
  <2>3. Fit([Begin("decline", offer[o].to, "write") EXCEPT !.offer = o])
    BY <2>2, AnsweringCall
  <2>. QED BY <1>0, <1>7, <2>1, <2>3, Becoming DEF DeclineRead, TypeOK, OffersFit
<1>8. CASE Decline(r)
  <2>1. offer' \in [Offers -> Offer] /\ OffersFit'
    BY <1>8 DEF Decline, TypeOK, OffersFit, Offer, Statuses
  <2>. QED BY <1>0, <1>8, <2>1, Blanks, Becoming DEF Decline, Return, TypeOK
<1>9. CASE ExpireList(r)
  <2>1. PICK S \in SUBSET Offers :
            Becomes(r, [Begin("expire", None, "sweep") EXCEPT !.todo = S])
    BY <1>9 DEF ExpireList
  <2>2. Fit([Begin("expire", None, "sweep") EXCEPT !.todo = S])
    BY <2>1, PassBeginning DEF Items
  <2>. QED BY <1>0, <1>9, <2>1, <2>2, Becoming DEF ExpireList, TypeOK, OffersFit
<1>10. CASE ExpireOffer(r)
  <2>1. PICK o \in Offers : offer' = [offer EXCEPT ![o].status = "CANCELLED"] /\ Visited(r, o)
    BY <1>10 DEF ExpireOffer
  <2>2. offer' \in [Offers -> Offer] /\ OffersFit'
    BY <2>1 DEF TypeOK, OffersFit, Offer, Statuses
  <2>. QED BY <1>0, <1>10, <2>1, <2>2, Visiting DEF ExpireOffer, TypeOK
<1>. QED
  BY <1>1, <1>2, <1>3, <1>4, <1>5, <1>6, <1>7, <1>8, <1>9, <1>10 DEF TakeoverStep

\* A penalty pass turns to the next bill.
LEMMA Billing ==
    ASSUME NEW x \in Call, x.op = "fine", NEW T \in SUBSET Items, NEW c \in Chores,
           NEW u \in Maybe(Users), NEW n \in Int
    PROVE  Fit([x EXCEPT !.at = "write", !.todo = T, !.chore = c, !.to = u, !.bal = n])
<1>. DEFINE y == [x EXCEPT !.at = "write", !.todo = T, !.chore = c, !.to = u, !.bal = n]
<1>1. "write" \in Places /\ c \in Maybe(Chores)
  BY DEF Places, Maybe
<1>2. y \in Call
  BY <1>1 DEF Call
<1>3. y.op = "fine" /\ y.at = "write" /\ y.chore = c
  BY DEF Call
<1>. HIDE DEF y
<1>4. Fit(y)
  BY <1>2, <1>3 DEF Fit, OpNames
<1>. QED BY <1>4 DEF y

LEMMA PenaltyType ==
    ASSUME TypeInv, NEW r \in Requests, PenaltyStep(r), Track
    PROVE  TypeInv'
<1>. USE DEF TypeInv
<1>0. rev' \in [Chores -> Nat] /\ call[r] \in Call /\ Fit(call[r])
  BY Tracking DEF TypeOK
<1>1. CASE FineList(r)
  <2>1. PICK S \in SUBSET Chores :
            Becomes(r, [Begin("fine", None, "bill") EXCEPT
                           !.todo = {<<c, inst[c].assignee>> : c \in S}])
    BY <1>1 DEF FineList, Finable, Existing
  <2>2. {<<c, inst[c].assignee>> : c \in S} \in SUBSET Items
    BY <2>1 DEF TypeOK, Row, Items
  <2>3. Fit([Begin("fine", None, "bill") EXCEPT !.todo = {<<c, inst[c].assignee>> : c \in S}])
    BY <2>2, PassBeginning
  <2>. QED BY <1>0, <1>1, <2>1, <2>3, Becoming DEF FineList, TypeOK, OffersFit
<1>2. CASE FineBalance(r)
  <2>1. PICK bill \in call[r].todo \cap (Chores \X Maybe(Users)) :
            Becomes(r, [call[r] EXCEPT !.at = "write", !.todo = @ \ {bill},
                       !.chore = bill[1], !.to = bill[2],
                       !.bal = IF bill[2] = None THEN 0 ELSE points[bill[2]]])
    BY <1>2 DEF FineBalance
  <2>2. bill[1] \in Chores /\ bill[2] \in Maybe(Users)
    BY <2>1
  <2>3. (IF bill[2] = None THEN 0 ELSE points[bill[2]]) \in Int
    BY <2>2 DEF TypeOK, Maybe
  <2>4. call[r].op = "fine"
    BY <1>2 DEF FineBalance, At
  <2>. DEFINE n == IF bill[2] = None THEN 0 ELSE points[bill[2]]
  <2>5. Fit([call[r] EXCEPT !.at = "write", !.todo = @ \ {bill}, !.chore = bill[1],
                            !.to = bill[2], !.bal = n])
    <3>1. n \in Int /\ call[r].todo \ {bill} \in SUBSET Items
      BY <1>0, <2>3 DEF Call
    <3>. HIDE DEF n
    <3>. QED BY <1>0, <2>2, <2>4, <3>1, Billing
  <2>. QED BY <1>0, <1>2, <2>1, <2>5, Becoming DEF FineBalance, TypeOK, OffersFit
<1>3. CASE Fine(r)
  <2>1. call[r].chore \in Chores /\ call[r].to \in Maybe(Users) /\ call[r].bal \in Int
    BY <1>0, <1>3 DEF Fine, At, Fit, Call
  <2>2. Least(call[r].bal, Penalty) \in Int
    BY <2>1, NumberAssumption DEF Least
  <2>3. points' \in [Users -> Int]
    BY <1>3, <2>1, <2>2 DEF Fine, TypeOK, Maybe
  <2>4. call[r].to # None => Fined(r) \in Entry
    BY <2>1, <2>2 DEF Fined, Entry, EntryKinds, Maybe, TypeOK
  <2>5. inst[call[r].chore] \in Row
    BY <2>1 DEF TypeOK
  <2>6. inst' \in [Chores -> Row]
    BY <1>3, <2>1, <2>5, Saving, Overdueing DEF Fine
  <2>7. Fit([call[r] EXCEPT !.at = "bill"])
    BY <1>0, <1>3, Going DEF Fine, At, Places
  <2>. QED BY <1>0, <1>3, <2>3, <2>4, <2>6, <2>7, Blanks, Becoming
           DEF Fine, Return, Go, TypeOK, OffersFit
<1>. QED BY <1>1, <1>2, <1>3 DEF PenaltyStep

LEMMA RebalanceType ==
    ASSUME TypeInv, NEW r \in Requests, Rebalance(r), Track
    PROVE  TypeInv'
<1>. USE DEF TypeInv
<1>0. rev' \in [Chores -> Nat] /\ call[r] \in Call /\ Fit(call[r])
  BY Tracking DEF TypeOK
<1>1. CASE ReadCandidates(r)
  <2>1. PICK S \in SUBSET Chores :
            Return(r) \/ Becomes(r, [call[r] EXCEPT !.at = "sweep", !.todo = S])
    BY <1>1 DEF ReadCandidates, Candidates, Flexible, Existing
  <2>2. Fit([call[r] EXCEPT !.at = "sweep", !.todo = S])
    BY <1>0, <1>1, <2>1, Listing DEF ReadCandidates, At, Places, Items
  <2>. QED BY <1>0, <1>1, <2>1, <2>2, Blanks, Becoming
           DEF ReadCandidates, Return, TypeOK, OffersFit
<1>2. CASE Reassign(r)
  <2>1. PICK c \in Chores, u \in Maybe(Users) :
            /\ Save(c, [inst[c] EXCEPT !.assignee = u, !.state = AssignedState(u),
                                      !.locked = FALSE])
            /\ Visited(r, c)
    BY <1>2 DEF Reassign
  <2>2. inst' \in [Chores -> Row]
    BY <2>1, RowFields, Assigning, Saving DEF TypeOK
  <2>. QED BY <1>0, <1>2, <2>1, <2>2, Visiting DEF Reassign, TypeOK, OffersFit
<1>. QED BY <1>1, <1>2 DEF Rebalance

\* A call that breaks off keeps its record.
LEMMA BreakType ==
    ASSUME TypeInv, NEW r \in Requests, Break(r), Track
    PROVE  TypeInv'
<1>. USE DEF TypeInv
<1>0. rev' \in [Chores -> Nat] /\ call[r] \in Call /\ Fit(call[r])
  BY Tracking DEF TypeOK
<1>1. Fit([call[r] EXCEPT !.failed = TRUE])
  BY <1>0 DEF Fit, Call
<1>. QED BY <1>0, <1>1, Becoming DEF Break, TypeOK, OffersFit

-----------------------------------------------------------------------------

LEMMA InitType == Init => TypeInv
<1>. SUFFICES ASSUME Init PROVE TypeInv
  OBVIOUS
<1>1. PICK h \in Households :
        /\ inst = h.inst
        /\ points = h.points
        /\ ledger = {Opening(u, h.points[u]) : u \in Users}
  BY DEF Init
<1>2. inst \in [Chores -> Row] /\ points \in [Users -> Nat]
  BY <1>1, HouseholdAssumption DEF Household
<1>3. \A u \in Users, n \in Nat : Opening(u, n) \in Entry
  BY DEF Opening, Entry, EntryKinds, Maybe
<1>4. ledger \subseteq Entry
  BY <1>1, <1>2, <1>3
<1>5. NoOffer \in Offer /\ NoOffer.status = "ABSENT"
  BY DEF NoOffer, Offer, Statuses, Maybe
<1>6. Idle \in Call /\ Fit(Idle)
  BY Blanks DEF Fit
<1>. QED BY <1>2, <1>4, <1>5, <1>6 DEF Init, TypeInv, TypeOK, OffersFit

LEMMA NextType == TypeInv /\ [Next]_vars => TypeInv'
<1>. SUFFICES ASSUME TypeInv, [Next]_vars PROVE TypeInv'
  OBVIOUS
<1>1. CASE UNCHANGED vars
  BY <1>1 DEF vars, TypeInv, TypeOK, OffersFit
<1>2. ASSUME NEW r \in Requests, Step(r), Track
      PROVE  TypeInv'
  BY <1>2, SettlementType, EditingType, TakeoverType, PenaltyType, RebalanceType DEF Step
<1>3. ASSUME NEW r \in Requests, Break(r), Track
      PROVE  TypeInv'
  BY <1>3, BreakType
<1>. QED BY <1>1, <1>2, <1>3 DEF Next, Quiet

\* Whatever calls run and break off together, the rows, the ledger and the
\* records of the calls stay well formed (TypeOK), and no call ever lacks an
\* argument that its next statement uses.
THEOREM TypeCorrect == Spec => []TypeOK
<1>1. Init => TypeInv
  BY InitType
<1>2. TypeInv /\ [Next]_vars => TypeInv'
  BY NextType
<1>3. TypeInv => TypeOK
  BY DEF TypeInv
<1>. QED BY <1>1, <1>2, <1>3, PTL DEF Spec

-----------------------------------------------------------------------------
(* Payments.                                                                 *)

\* A ledger entry answers a revision that the chore has reached.
EntriesReached == \A e \in Completions : e.chore \in Chores /\ e.rev <= rev[e.chore]

\* So does the revision a call has won.
WinsReached ==
    \A r \in Requests : call[r].won > 0 =>
        call[r].op \in Winners /\ call[r].chore \in Chores /\ call[r].won <= rev[call[r].chore]

\* A revision is won by one call.
OneWinner ==
    \A r, s \in Requests :
        call[r].won > 0 /\ call[r].won = call[s].won /\ call[r].chore = call[s].chore => r = s

\* Whoever is still to write its entry has a revision nobody has been paid for.
Due == {"credit", "ledger"}
DueUnpaid ==
    \A r \in Requests : call[r].at \in Due =>
        /\ call[r].won > 0
        /\ \A e \in Completions : e.chore = call[r].chore => e.rev # call[r].won

PayInv == EntriesReached /\ WinsReached /\ OneWinner /\ DueUnpaid /\ PaidOncePerCompletion

-----------------------------------------------------------------------------

LEMMA Advancing ==
    ASSUME TypeInv, Track
    PROVE  /\ \A c \in Chores : rev[c] \in Nat /\ rev'[c] \in Nat /\ rev[c] <= rev'[c]
           /\ \A c \in Chores : inst'[c].state # inst[c].state => rev'[c] = rev[c] + 1
BY DEF TypeInv, TypeOK, Track

\* What most steps of call r do to the payments: nothing.
Idles(r) ==
    /\ \A s \in Requests : s # r => call'[s] = call[s]
    /\ Completions' = Completions
    /\ call'[r].at \in Due => call[r].at \in Due /\ call'[r].won = call[r].won
    /\ \/ call'[r].won = 0
       \/ /\ call'[r].won = call[r].won /\ call'[r].op = call[r].op
          /\ call'[r].chore = call[r].chore

LEMMA IdlingPays ==
    ASSUME TypeInv, PayInv, TypeInv', NEW r \in Requests, Idles(r), Track
    PROVE  PayInv'
<1>1. \A s \in Requests : call[s].won \in Nat /\ call'[s].won \in Nat
  BY DEF TypeInv, TypeOK, Call
<1>2. \A c \in Chores : rev[c] \in Nat /\ rev'[c] \in Nat /\ rev[c] <= rev'[c]
  BY Advancing
<1>3. \A e \in Completions : e.rev \in Nat
  BY DEF TypeInv, TypeOK, Completions, Entry
<1>4. EntriesReached'
  BY <1>2, <1>3 DEF PayInv, EntriesReached, Idles
<1>5. WinsReached'
  BY <1>1, <1>2 DEF PayInv, WinsReached, Idles
<1>6. OneWinner'
  BY <1>1 DEF PayInv, OneWinner, Idles
<1>7. DueUnpaid'
  <2>. SUFFICES ASSUME NEW s \in Requests, call'[s].at \in Due
                PROVE  /\ call'[s].won > 0
                       /\ \A e \in Completions : e.chore = call'[s].chore => e.rev # call'[s].won
    BY DEF DueUnpaid, Idles
  <2>1. call[s].at \in Due /\ call'[s].won = call[s].won
    BY DEF Idles
  <2>2. call[s].won > 0
    BY <2>1 DEF PayInv, DueUnpaid
  <2>3. call'[s].chore = call[s].chore
    BY <2>1, <2>2 DEF Idles
  <2>. QED BY <2>1, <2>2, <2>3 DEF PayInv, DueUnpaid
<1>8. PaidOncePerCompletion'
  BY DEF PayInv, PaidOncePerCompletion, Idles
<1>. QED BY <1>4, <1>5, <1>6, <1>7, <1>8 DEF PayInv

\* A win makes a revision nobody holds.
LEMMA WinningPays ==
    ASSUME TypeInv, PayInv, TypeInv', Track,
           NEW r \in Requests, NEW c \in Chores, NEW row, NEW p,
           call[r].chore = c, call[r].op \in Winners,
           inst'[c].state # inst[c].state, row.state # inst[c].state, ledger' = ledger,
           Won(r, row, p)
    PROVE  PayInv'
<1>1. /\ call' = [call EXCEPT ![r] = [call[r] EXCEPT !.at = p, !.row = row, !.won = rev[c] + 1]]
      /\ call \in [Requests -> Call]
  BY DEF Won, Becomes, Made, TypeInv, TypeOK
<1>2. /\ call'[r].won = rev[c] + 1 /\ call'[r].chore = c /\ call'[r].op = call[r].op
      /\ \A s \in Requests : s # r => call'[s] = call[s]
  BY <1>1 DEF Call
<1>3. \A s \in Requests : call[s].won \in Nat /\ call'[s].won \in Nat
  BY DEF TypeInv, TypeOK, Call
<1>4. /\ \A d \in Chores : rev[d] \in Nat /\ rev'[d] \in Nat /\ rev[d] <= rev'[d]
      /\ rev'[c] = rev[c] + 1
  BY Advancing
<1>5. \A e \in Completions : e.rev \in Nat
  BY DEF TypeInv, TypeOK, Completions, Entry
<1>6. Completions' = Completions
  BY DEF Completions
<1>7. EntriesReached'
  BY <1>4, <1>5, <1>6 DEF PayInv, EntriesReached
<1>8. WinsReached'
  BY <1>2, <1>3, <1>4 DEF PayInv, WinsReached
<1>9. OneWinner'
  <2>1. \A s \in Requests : s # r /\ call[s].won > 0 /\ call[s].chore = c => call[s].won # rev[c] + 1
    BY <1>3, <1>4 DEF PayInv, WinsReached
  <2>. QED BY <1>2, <1>3, <1>4, <2>1 DEF PayInv, OneWinner
<1>10. DueUnpaid'
  <2>1. \A e \in Completions : e.chore = c => e.rev # rev[c] + 1
    BY <1>4, <1>5 DEF PayInv, EntriesReached
  <2>2. rev[c] + 1 > 0
    BY <1>4
  <2>. QED BY <1>2, <1>6, <2>1, <2>2 DEF PayInv, DueUnpaid
<1>11. PaidOncePerCompletion'
  BY <1>6 DEF PayInv, PaidOncePerCompletion
<1>. QED BY <1>7, <1>8, <1>9, <1>10, <1>11 DEF PayInv

\* The entry of a win is written.
LEMMA RecordingPays ==
    ASSUME TypeInv, PayInv, TypeInv', Track, NEW r \in Requests, RecordCompletion(r)
    PROVE  PayInv'
<1>. DEFINE c == call[r].chore
<1>1. /\ call' = [call EXCEPT ![r] = [call[r] EXCEPT !.at = "follow"]]
      /\ call \in [Requests -> Call] /\ call[r].at = "ledger"
      /\ ledger' = ledger \cup {Paid(r)}
  BY DEF RecordCompletion, At, Go, Becomes, TypeInv, TypeOK
<1>2. /\ call'[r].won = call[r].won /\ call'[r].chore = c /\ call'[r].op = call[r].op
      /\ call'[r].at = "follow"
      /\ \A s \in Requests : s # r => call'[s] = call[s]
  BY <1>1 DEF Call
<1>3. Completions' = Completions \cup {Paid(r)} /\ Paid(r).chore = c /\ Paid(r).rev = call[r].won
  BY <1>1 DEF Completions, Paid
<1>4. call[r].won > 0 /\ \A e \in Completions : e.chore = c => e.rev # call[r].won
  BY <1>1 DEF PayInv, DueUnpaid, Due
<1>5. c \in Chores /\ call[r].won <= rev[c]
  BY <1>4 DEF PayInv, WinsReached
<1>6. \A d \in Chores : rev[d] \in Nat /\ rev'[d] \in Nat /\ rev[d] <= rev'[d]
  BY Advancing
<1>7. \A s \in Requests : call[s].won \in Nat
  BY DEF TypeInv, TypeOK, Call
<1>8. \A e \in Completions : e.rev \in Nat
  BY DEF TypeInv, TypeOK, Completions, Entry
<1>9. EntriesReached'
  BY <1>3, <1>5, <1>6, <1>7, <1>8 DEF PayInv, EntriesReached
<1>10. WinsReached'
  BY <1>2, <1>6, <1>7 DEF PayInv, WinsReached
<1>11. OneWinner'
  BY <1>2 DEF PayInv, OneWinner
<1>12. DueUnpaid'
  <2>. SUFFICES ASSUME NEW s \in Requests, call'[s].at \in Due
                PROVE  /\ call'[s].won > 0
                       /\ \A e \in Completions' : e.chore = call'[s].chore => e.rev # call'[s].won
    BY DEF DueUnpaid
  <2>1. s # r
    BY <1>2 DEF Due
  <2>2. call'[s] = call[s] /\ call[s].at \in Due
    BY <1>2, <2>1
  <2>3. call[s].won > 0 /\ \A e \in Completions : e.chore = call[s].chore => e.rev # call[s].won
    BY <2>2 DEF PayInv, DueUnpaid
  <2>4. call[s].chore = c => call[s].won # call[r].won
    BY <1>4, <2>1, <2>3 DEF PayInv, OneWinner
  <2>. QED BY <1>3, <2>2, <2>3, <2>4
<1>13. PaidOncePerCompletion'
  BY <1>3, <1>4 DEF PayInv, PaidOncePerCompletion
<1>. QED BY <1>9, <1>10, <1>11, <1>12, <1>13 DEF PayInv

-----------------------------------------------------------------------------
(* The other steps.                                                          *)

LEMMA BecomingIdles ==
    ASSUME TypeInv, NEW r \in Requests, NEW x, Becomes(r, x), Completions' = Completions,
           x.at \notin Due,
           \/ x.won = 0
           \/ x.won = call[r].won /\ x.op = call[r].op /\ x.chore = call[r].chore
    PROVE  Idles(r)
<1>1. call' = [call EXCEPT ![r] = x] /\ call \in [Requests -> Call]
  BY DEF Becomes, TypeInv, TypeOK
<1>. QED BY <1>1 DEF Idles

LEMMA ReturningIdles ==
    ASSUME TypeInv, NEW r \in Requests, Return(r), Completions' = Completions
    PROVE  Idles(r)
<1>1. Returned.won = 0 /\ Returned.at = "done"
  BY DEF Returned, Idle
<1>. QED BY <1>1, BecomingIdles DEF Return, Due

\* Record y is record x at another place, with the win of x if it had one.
Keeps(x, y, p) == y.at = p /\ y.won = x.won /\ y.op = x.op /\ y.chore = x.chore

LEMMA KeepingFields ==
    ASSUME NEW x \in Call, NEW p, NEW T, NEW row, NEW n
    PROVE  /\ Keeps(x, [x EXCEPT !.at = p], p)
           /\ Keeps(x, [x EXCEPT !.at = p, !.todo = T], p)
           /\ Keeps(x, [x EXCEPT !.todo = T, !.at = p], p)
           /\ Keeps(x, [x EXCEPT !.at = p, !.row = row], p)
           /\ Keeps(x, [x EXCEPT !.at = p, !.todo = T, !.row = row], p)
           /\ Keeps(x, [x EXCEPT !.at = p, !.bal = n], p)
           /\ Keeps(x, [x EXCEPT !.todo = T], x.at)
BY DEF Keeps, Call

LEMMA KeepingIdles ==
    ASSUME TypeInv, NEW r \in Requests, Completions' = Completions, NEW p, p \notin Due,
           NEW x, Keeps(call[r], x, p), Becomes(r, x)
    PROVE  Idles(r)
BY BecomingIdles DEF Keeps

\* Going on, with or without another list, row or balance.
LEMMA GoingIdles ==
    ASSUME TypeInv, NEW r \in Requests, Completions' = Completions, NEW p, p \notin Due,
           NEW T, NEW row, NEW n,
           \/ Go(r, p)
           \/ Becomes(r, [call[r] EXCEPT !.at = p, !.todo = T])
           \/ Becomes(r, [call[r] EXCEPT !.todo = T, !.at = p])
           \/ Becomes(r, [call[r] EXCEPT !.at = p, !.row = row])
           \/ Becomes(r, [call[r] EXCEPT !.at = p, !.todo = T, !.row = row])
           \/ Becomes(r, [call[r] EXCEPT !.at = p, !.bal = n])
    PROVE  Idles(r)
<1>1. call[r] \in Call
  BY DEF TypeInv, TypeOK
<1>2. PICK x : Becomes(r, x) /\ Keeps(call[r], x, p)
  BY <1>1, KeepingFields DEF Go
<1>. QED BY <1>2, KeepingIdles

\* Record x is a call that has begun: it has won nothing.
Begun(x, p) == x.at = p /\ x.won = 0

LEMMA BeginningFields ==
    ASSUME NEW op, NEW u, NEW p, NEW c, NEW v, NEW o, NEW row, NEW T
    PROVE  /\ Begun([Begin(op, u, p) EXCEPT !.chore = c], p)
           /\ Begun([Begin(op, u, p) EXCEPT !.chore = c, !.todo = T], p)
           /\ Begun([Begin(op, u, p) EXCEPT !.chore = c, !.row = row], p)
           /\ Begun([Begin(op, u, p) EXCEPT !.chore = c, !.to = v], p)
           /\ Begun([Begin(op, u, p) EXCEPT !.chore = c, !.offer = o], p)
           /\ Begun([Begin(op, u, p) EXCEPT !.offer = o], p)
           /\ Begun([Begin(op, u, p) EXCEPT !.todo = T], p)
<1>. DEFINE b == Begin(op, u, p)
<1>1. /\ DOMAIN b = DOMAIN Idle /\ {"at", "won"} \subseteq DOMAIN Idle
      /\ b.at = p /\ b.won = 0
  BY DEF Begin, Idle
<1>. HIDE DEF b
<1>2. /\ Begun([b EXCEPT !.chore = c], p)
      /\ Begun([b EXCEPT !.chore = c, !.todo = T], p)
      /\ Begun([b EXCEPT !.chore = c, !.row = row], p)
      /\ Begun([b EXCEPT !.chore = c, !.to = v], p)
      /\ Begun([b EXCEPT !.chore = c, !.offer = o], p)
      /\ Begun([b EXCEPT !.offer = o], p)
      /\ Begun([b EXCEPT !.todo = T], p)
  BY <1>1 DEF Begun
<1>. QED BY <1>2 DEF b

LEMMA BegunIdles ==
    ASSUME TypeInv, NEW r \in Requests, Completions' = Completions,
           NEW p, p \notin Due, NEW x, Begun(x, p), Becomes(r, x)
    PROVE  Idles(r)
BY BecomingIdles DEF Begun

LEMMA ChoreCallIdles ==
    ASSUME TypeInv, NEW r \in Requests, Completions' = Completions,
           NEW op, NEW u, NEW p, p \notin Due, NEW c, NEW row, NEW T,
           \/ Checked(r, op, u, c, p)
           \/ Becomes(r, [Begin(op, u, p) EXCEPT !.chore = c, !.todo = T])
           \/ Becomes(r, [Begin(op, u, p) EXCEPT !.chore = c, !.row = row])
    PROVE  Idles(r)
<1>1. PICK x : Becomes(r, x) /\ Begun(x, p)
  BY BeginningFields DEF Checked
<1>. QED BY <1>1, BegunIdles

LEMMA OfferCallIdles ==
    ASSUME TypeInv, NEW r \in Requests, Completions' = Completions,
           NEW op, NEW u, NEW p, p \notin Due, NEW c, NEW v, NEW o, NEW T,
           \/ Becomes(r, [Begin(op, u, p) EXCEPT !.chore = c, !.to = v])
           \/ Becomes(r, [Begin(op, u, p) EXCEPT !.chore = c, !.offer = o])
           \/ Becomes(r, [Begin(op, u, p) EXCEPT !.offer = o])
           \/ Becomes(r, [Begin(op, u, p) EXCEPT !.todo = T])
    PROVE  Idles(r)
<1>1. PICK x : Becomes(r, x) /\ Begun(x, p)
  BY BeginningFields
<1>. QED BY <1>1, BegunIdles

LEMMA VisitingIdles ==
    ASSUME TypeInv, NEW r \in Requests, NEW item, Visited(r, item),
           Completions' = Completions, call[r].at \notin Due
    PROVE  Idles(r)
<1>1. CASE Return(r)
  BY <1>1, ReturningIdles
<1>2. CASE Becomes(r, [call[r] EXCEPT !.todo = @ \ {item}])
  <2>1. call[r] \in Call
    BY DEF TypeInv, TypeOK
  <2>. QED BY <1>2, <2>1, KeepingFields, KeepingIdles
<1>. QED BY <1>1, <1>2 DEF Visited

\* The entries of takeovers and fines are no completions.
LEMMA OtherEntries ==
    ASSUME NEW r, \/ ledger' = ledger
                  \/ \E n \in Int : ledger' = ledger \cup {Takeover(r, n)}
                  \/ ledger' = ledger \cup {Fined(r)}
    PROVE  Completions' = Completions
BY DEF Completions, Takeover, Fined

-----------------------------------------------------------------------------

\* The update of call r is won: a new revision of its chore.
Wins(r, row, p) ==
    LET c == call[r].chore
    IN  /\ c \in Chores /\ call[r].op \in Winners
        /\ inst'[c].state # inst[c].state /\ row.state # inst[c].state
        /\ call[r].at = "write" /\ p \in {"credit", "follow"} /\ Won(r, row, p)
        /\ ledger' = ledger

LEMMA SettlementKinds ==
    ASSUME TypeInv, NEW r \in Requests, Settlement(r)
    PROVE  Idles(r) \/ RecordCompletion(r) \/ \E row, p : Wins(r, row, p)
<1>0. call[r] \in Call /\ Fit(call[r])
  BY DEF TypeInv, TypeOK
<1>1. CASE SubmitRead(r) \/ ExternalRead(r) \/ ReviewRead(r)
  <2>1. \E op, u, c : Checked(r, op, u, c, "write")
    BY <1>1 DEF SubmitRead, ExternalRead, ReviewRead
  <2>2. Completions' = Completions
    BY <1>1 DEF SubmitRead, ExternalRead, ReviewRead, Completions
  <2>3. PICK op, u, c : Checked(r, op, u, c, "write")
    BY <2>1
  <2>. QED BY <2>2, <2>3, ChoreCallIdles DEF Due
<1>2. CASE SubmitWin(r)
  <2>1. CASE Return(r)
    BY <1>2, <2>1, ReturningIdles DEF SubmitWin, Completions
  <2>2. CASE ~Return(r)
    <3>. DEFINE c == call[r].chore
                row == [inst[c] EXCEPT !.state = SubmitTarget(r), !.submitter = call[r].actor]
                p == IF call[r].op = "external" THEN "follow" ELSE "credit"
    <3>1. /\ SubmitTarget(r) = "COMPLETED" /\ Won(r, row, p) /\ Save(c, row)
          /\ call[r].op \in Winners /\ c \in Chores /\ ledger' = ledger
          /\ inst[c].state \in Submittable /\ call[r].at = "write"
      BY <1>0, <1>2, <2>2 DEF SubmitWin, At, Submits, Winners, Fit
    <3>2. inst \in [Chores -> Row] /\ inst[c] \in Row
      BY <3>1 DEF TypeInv, TypeOK
    <3>3. inst'[c].state # inst[c].state /\ row.state # inst[c].state
      BY <3>1, <3>2 DEF Save, Submittable, Row
    <3>4. Wins(r, row, p)
      BY <3>1, <3>3 DEF Wins
    <3>. QED BY <3>4
  <2>. QED BY <2>1, <2>2
<1>3. CASE SubmitLose(r) \/ ReviewLose(r)
  BY <1>3, ReturningIdles DEF SubmitLose, ReviewLose, Completions
<1>4. CASE ReviewWin(r)
  <2>1. CASE Return(r)
    BY <1>4, <2>1, ReturningIdles DEF ReviewWin, Completions
  <2>2. CASE ~Return(r)
    <3>. DEFINE c == call[r].chore
                row == [inst[c] EXCEPT !.state = ReviewTarget(r)]
    <3>1. /\ ReviewTarget(r) = "COMPLETED" /\ Won(r, row, "credit") /\ Save(c, row)
          /\ call[r].op \in Winners /\ c \in Chores /\ ledger' = ledger
          /\ inst[c].state = "PENDING_APPROVAL" /\ call[r].at = "write"
      BY <1>0, <1>4, <2>2 DEF ReviewWin, At, Reviews, Winners, Fit, ReviewTarget
    <3>2. inst \in [Chores -> Row] /\ inst[c] \in Row
      BY <3>1 DEF TypeInv, TypeOK
    <3>3. inst'[c].state # inst[c].state /\ row.state # inst[c].state
      BY <3>1, <3>2 DEF Save, Row
    <3>4. Wins(r, row, "credit")
      BY <3>1, <3>3 DEF Wins
    <3>. QED BY <3>4
  <2>. QED BY <2>1, <2>2
<1>5. CASE Credit(r)
  <2>. DEFINE p == IF Beneficiary(r) = None THEN "follow" ELSE "ledger"
              x == [call[r] EXCEPT !.at = p, !.to = Beneficiary(r)]
  <2>1. call' = [call EXCEPT ![r] = x] /\ call[r].at = "credit"
    BY <1>5 DEF Credit, Becomes, At
  <2>2. x.won = call[r].won /\ x.op = call[r].op /\ x.chore = call[r].chore
    BY <1>0 DEF Call
  <2>3. call'[r] = x /\ \A s \in Requests : s # r => call'[s] = call[s]
    BY <2>1 DEF TypeInv, TypeOK
  <2>. HIDE DEF x
  <2>. QED BY <1>5, <2>1, <2>2, <2>3 DEF Idles, Due, Credit, Completions
<1>6. CASE RecordCompletion(r)
  BY <1>6
<1>7. CASE CreateFollowUps(r)
  BY <1>7, GoingIdles DEF CreateFollowUps, Completions, Due
<1>8. CASE Renew(r)
  <2>1. Return(r) \/ Go(r, "flex")
    BY <1>8 DEF Renew, AfterRenewal
  <2>2. Completions' = Completions
    BY <1>8 DEF Renew, Completions
  <2>. QED BY <2>1, <2>2, ReturningIdles, GoingIdles DEF Due
<1>. QED
  BY <1>1, <1>2, <1>3, <1>4, <1>5, <1>6, <1>7, <1>8 DEF Settlement

LEMMA SettlementPays ==
    ASSUME TypeInv, PayInv, TypeInv', NEW r \in Requests, Settlement(r), Track
    PROVE  PayInv'
<1>1. CASE Idles(r)
  BY <1>1, IdlingPays
<1>2. CASE RecordCompletion(r)
  BY <1>2, RecordingPays
<1>3. ASSUME NEW row, NEW p, Wins(r, row, p) PROVE PayInv'
  BY <1>3, WinningPays DEF Wins
<1>. QED BY <1>1, <1>2, <1>3, SettlementKinds

LEMMA EditingIdles ==
    ASSUME TypeInv, NEW r \in Requests, Editing(r)
    PROVE  Idles(r)
<1>1. Completions' = Completions
  BY DEF Editing, StartRead, TakeOverRead, Claim, CancelOffers, UpdateRead, UpdateReread,
         Update, CancelRead, CancelOccurrenceRead, CloseCycleRead, ListSiblings, Cancel,
         Release, Snooze, List, Create, QuickLogRead, QuickLog, QuickLogNew, Completions
<1>2. CASE \E op, u, c, row, T : \E p \in {"write", "reread", "flex"} :
            \/ Checked(r, op, u, c, p)
            \/ Becomes(r, [Begin(op, u, p) EXCEPT !.chore = c, !.todo = T])
            \/ Becomes(r, [Begin(op, u, p) EXCEPT !.chore = c, !.row = row])
  BY <1>1, <1>2, ChoreCallIdles DEF Due
<1>3. CASE Return(r)
  BY <1>1, <1>3, ReturningIdles
<1>4. CASE \E T, row : \E p \in {"write", "flex", "offers", "renew"} :
            \/ Go(r, p)
            \/ Becomes(r, [call[r] EXCEPT !.todo = T, !.at = p])
            \/ Becomes(r, [call[r] EXCEPT !.at = p, !.row = row])
            \/ Becomes(r, [call[r] EXCEPT !.at = p, !.todo = T, !.row = row])
  BY <1>1, <1>4, GoingIdles DEF Due
<1>5. CASE StartRead(r) \/ TakeOverRead(r) \/ UpdateRead(r) \/ CancelOccurrenceRead(r)
           \/ CloseCycleRead(r) \/ Create(r)
  BY <1>2, <1>5 DEF StartRead, TakeOverRead, UpdateRead, CancelOccurrenceRead, CloseCycleRead,
                    Create
<1>6. CASE CancelRead(r) \/ QuickLogRead(r)
  BY <1>2, <1>6 DEF CancelRead, QuickLogRead
<1>7. CASE Claim(r) \/ CancelOffers(r) \/ UpdateReread(r) \/ Update(r) \/ Cancel(r)
  BY <1>4, <1>7 DEF Claim, CancelOffers, UpdateReread, Update, Cancel
<1>8. CASE ListSiblings(r)
  BY <1>3, <1>4, <1>8 DEF ListSiblings
<1>9. CASE Release(r) \/ Snooze(r) \/ List(r) \/ QuickLog(r) \/ QuickLogNew(r)
  BY <1>3, <1>9 DEF Release, Snooze, List, QuickLog, QuickLogNew
<1>. QED BY <1>5, <1>6, <1>7, <1>8, <1>9 DEF Editing

LEMMA TakeoverIdles ==
    ASSUME TypeInv, NEW r \in Requests, TakeoverStep(r)
    PROVE  Idles(r)
<1>0. call[r] \in Call /\ Fit(call[r])
  BY DEF TypeInv, TypeOK
<1>1. Completions' = Completions
  <2>1. CASE Ask(r)
    <3>1. AskCost(r) \in Int
      BY <1>0, NumberAssumption DEF AskCost, Least, Call
    <3>2. -AskCost(r) \in Int
      BY <3>1
    <3>. QED BY <2>1, <3>2, OtherEntries DEF Ask
  <2>2. CASE Accept(r)
    BY <2>2, NumberAssumption, OtherEntries DEF Accept
  <2>. QED BY <2>1, <2>2 DEF TakeoverStep, AskRead, AskCheck, AskBalance, AcceptRead,
                             DeclineRead, Decline, ExpireList, ExpireOffer, Completions
<1>2. CASE Return(r)
  BY <1>1, <1>2, ReturningIdles
<1>3. CASE AskRead(r) \/ AcceptRead(r) \/ DeclineRead(r) \/ ExpireList(r)
  <2>1. ASSUME NEW u, NEW v, NEW c,
               Becomes(r, [Begin("ask", u, "pending") EXCEPT !.chore = c, !.to = v])
        PROVE  Idles(r)
    BY <1>1, <2>1, OfferCallIdles DEF Due
  <2>2. ASSUME NEW u, NEW o, NEW c,
               Becomes(r, [Begin("accept", u, "write") EXCEPT !.chore = c, !.offer = o])
        PROVE  Idles(r)
    BY <1>1, <2>2, OfferCallIdles DEF Due
  <2>3. ASSUME NEW u, NEW o, Becomes(r, [Begin("decline", u, "write") EXCEPT !.offer = o])
        PROVE  Idles(r)
    BY <1>1, <2>3, OfferCallIdles DEF Due
  <2>4. ASSUME NEW T, Becomes(r, [Begin("expire", None, "sweep") EXCEPT !.todo = T])
        PROVE  Idles(r)
    BY <1>1, <2>4, OfferCallIdles DEF Due
  <2>. QED BY <1>3, <2>1, <2>2, <2>3, <2>4 DEF AskRead, AcceptRead, DeclineRead, ExpireList
<1>4. CASE AskCheck(r) \/ AskBalance(r) \/ Accept(r)
  <2>1. CASE Return(r)
    BY <1>2, <2>1
  <2>2. CASE \E p \in {"balance", "write", "flex"} : Go(r, p)
    <3>1. PICK p \in {"balance", "write", "flex"} : Go(r, p)
      BY <2>2
    <3>2. call[r] \in Call /\ p \notin Due
      BY <1>0, <3>1 DEF Due
    <3>. QED BY <1>1, <3>1, <3>2, KeepingFields, KeepingIdles DEF Go
  <2>3. CASE \E n : Becomes(r, [call[r] EXCEPT !.at = "write", !.bal = n])
    <3>1. PICK n : Becomes(r, [call[r] EXCEPT !.at = "write", !.bal = n])
      BY <2>3
    <3>. QED BY <1>0, <1>1, <3>1, KeepingFields, KeepingIdles DEF Due
  <2>4. AskCheck(r) => Return(r) \/ Go(r, "balance") \/ Go(r, "write")
    BY DEF AskCheck
  <2>5. AskBalance(r) => \E n : Becomes(r, [call[r] EXCEPT !.at = "write", !.bal = n])
    BY DEF AskBalance
  <2>6. Accept(r) => Go(r, "flex")
    BY DEF Accept
  <2>. QED BY <1>4, <2>1, <2>2, <2>3, <2>4, <2>5, <2>6
<1>5. CASE Ask(r) \/ Decline(r)
  BY <1>2, <1>5 DEF Ask, Decline
<1>6. CASE ExpireOffer(r)
  BY <1>1, <1>6, VisitingIdles DEF ExpireOffer, At, Due
<1>. QED BY <1>3, <1>4, <1>5, <1>6 DEF TakeoverStep

LEMMA PenaltyIdles ==
    ASSUME TypeInv, PayInv, NEW r \in Requests, PenaltyStep(r)
    PROVE  Idles(r)
<1>0. call[r] \in Call
  BY DEF TypeInv, TypeOK
<1>1. Completions' = Completions
  BY OtherEntries DEF PenaltyStep, FineList, FineBalance, Fine
<1>2. CASE FineList(r)
  <2>1. \E T : Becomes(r, [Begin("fine", None, "bill") EXCEPT !.todo = T])
    BY <1>2 DEF FineList
  <2>. QED BY <1>1, <2>1, OfferCallIdles DEF Due
<1>3. CASE FineBalance(r)
  <2>1. call[r].won = 0
    BY <1>0, <1>3 DEF FineBalance, At, PayInv, WinsReached, Winners, Call
  <2>2. PICK bill : Becomes(r, [call[r] EXCEPT !.at = "write", !.todo = @ \ {bill},
                       !.chore = bill[1], !.to = bill[2],
                       !.bal = IF bill[2] = None THEN 0 ELSE points[bill[2]]])
    BY <1>3 DEF FineBalance
  <2>. DEFINE n == IF bill[2] = None THEN 0 ELSE points[bill[2]]
              x == [call[r] EXCEPT !.at = "write", !.todo = @ \ {bill},
                       !.chore = bill[1], !.to = bill[2], !.bal = n]
  <2>3. x.won = 0 /\ x.at = "write"
    <3>. HIDE DEF n
    <3>. QED BY <1>0, <2>1 DEF Call
  <2>4. Becomes(r, x)
    BY <2>2
  <2>. HIDE DEF x
  <2>. QED BY <1>1, <2>3, <2>4, BecomingIdles DEF Due
<1>4. CASE Fine(r)
  BY <1>1, <1>4, ReturningIdles, GoingIdles DEF Fine, Due
<1>. QED BY <1>2, <1>3, <1>4 DEF PenaltyStep

LEMMA RebalanceIdles ==
    ASSUME TypeInv, NEW r \in Requests, Rebalance(r)
    PROVE  Idles(r)
<1>1. Completions' = Completions
  BY DEF Rebalance, ReadCandidates, Reassign, Completions
<1>2. CASE ReadCandidates(r)
  BY <1>1, <1>2, ReturningIdles, GoingIdles DEF ReadCandidates, Due
<1>3. CASE Reassign(r)
  BY <1>1, <1>3, VisitingIdles DEF Reassign, At, Due
<1>. QED BY <1>2, <1>3 DEF Rebalance

LEMMA BreakIdles ==
    ASSUME TypeInv, NEW r \in Requests, Break(r)
    PROVE  Idles(r)
<1>1. call[r] \in Call /\ call \in [Requests -> Call]
  BY DEF TypeInv, TypeOK
<1>2. call' = [call EXCEPT ![r] = [call[r] EXCEPT !.failed = TRUE]] /\ Completions' = Completions
  BY DEF Break, Becomes, Completions
<1>3. call'[r].at = call[r].at /\ call'[r].won = call[r].won /\ call'[r].op = call[r].op
      /\ call'[r].chore = call[r].chore /\ \A s \in Requests : s # r => call'[s] = call[s]
  BY <1>1, <1>2 DEF Call
<1>. QED BY <1>2, <1>3 DEF Idles

\* A step that settles nothing.
OtherStep(r) == Editing(r) \/ TakeoverStep(r) \/ PenaltyStep(r) \/ Rebalance(r)

LEMMA OtherStepIdles ==
    ASSUME TypeInv, PayInv, NEW r \in Requests, OtherStep(r)
    PROVE  Idles(r)
BY EditingIdles, TakeoverIdles, PenaltyIdles, RebalanceIdles DEF OtherStep

LEMMA InitPays == Init => PayInv
<1>. SUFFICES ASSUME Init PROVE PayInv
  OBVIOUS
<1>1. Completions = {}
  BY DEF Init, Completions, Opening
<1>2. \A r \in Requests : call[r].won = 0 /\ call[r].at = "idle"
  BY DEF Init, Idle
<1>. QED BY <1>1, <1>2
         DEF PayInv, EntriesReached, WinsReached, OneWinner, DueUnpaid, Due, PaidOncePerCompletion

LEMMA NextPays == TypeInv /\ PayInv /\ [Next]_vars /\ TypeInv' => PayInv'
<1>. SUFFICES ASSUME TypeInv, PayInv, [Next]_vars, TypeInv' PROVE PayInv'
  OBVIOUS
<1>1. CASE UNCHANGED vars
  BY <1>1 DEF vars, PayInv, EntriesReached, WinsReached, OneWinner, DueUnpaid,
              PaidOncePerCompletion, Completions
<1>2. ASSUME NEW r \in Requests, Step(r), Track
      PROVE  PayInv'
  BY <1>2, SettlementPays, OtherStepIdles, IdlingPays DEF Step, OtherStep
<1>3. ASSUME NEW r \in Requests, Break(r), Track
      PROVE  PayInv'
  BY <1>3, BreakIdles, IdlingPays
<1>. QED BY <1>1, <1>2, <1>3 DEF Next, Quiet

\* However many submits, approvals and other calls run, are retried or break
\* off together, no completion of a chore is paid twice.
THEOREM CompletionsPaidOnce == Spec => []PaidOncePerCompletion
<1>1. Init => TypeInv /\ PayInv
  BY InitType, InitPays
<1>2. TypeInv /\ PayInv /\ [Next]_vars => TypeInv' /\ PayInv'
  BY NextType, NextPays
<1>3. PayInv => PaidOncePerCompletion
  BY DEF PayInv
<1>. QED BY <1>1, <1>2, <1>3, PTL DEF Spec

-----------------------------------------------------------------------------
PromiseOf(x) == [chore |-> x.chore, rev |-> x.won]

\* What is promised and paid stays the same.
Untouched == Promised' = Promised /\ Completions' = Completions

LEMMA OwingFacts ==
    /\ Owing = {r \in Requests : call[r].at \in Due}
    /\ Promised = {PromiseOf(call[r]) : r \in Owing}
BY DEF Owing, Promised, PromiseOf, Due

LEMMA OwingFactsNext ==
    /\ Owing' = {r \in Requests : call'[r].at \in Due}
    /\ Promised' = {PromiseOf(call'[r]) : r \in Owing'}
BY DEF Owing, Promised, PromiseOf, Due

\* Only the credit and the ledger entry are steps of a call that owes.
LEMMA OwingStops ==
    ASSUME NEW r \in Requests, Step(r), call[r].at \in Due
    PROVE  Credit(r) \/ RecordCompletion(r)
<1>1. ~Editing(r)
  BY DEF Due, Editing, StartRead, TakeOverRead, Claim, CancelOffers, UpdateRead, UpdateReread,
         Update, CancelRead, CancelOccurrenceRead, CloseCycleRead, ListSiblings, Cancel,
         Release, Snooze, List, Create, QuickLogRead, QuickLog, QuickLogNew, At, MayBegin
<1>2. ~TakeoverStep(r) /\ ~PenaltyStep(r) /\ ~Rebalance(r)
  BY DEF Due, TakeoverStep, AskRead, AskCheck, AskBalance, Ask, AcceptRead, Accept,
         DeclineRead, Decline, ExpireList, ExpireOffer, PenaltyStep, FineList, FineBalance,
         Fine, Rebalance, ReadCandidates, Reassign, At, MayBegin
<1>3. Settlement(r) => Credit(r) \/ RecordCompletion(r)
  BY DEF Due, Settlement, SubmitRead, ExternalRead, ReviewRead, SubmitWin, SubmitLose,
         ReviewWin, ReviewLose, CreateFollowUps, Renew, At, MayBegin
<1>. QED BY <1>1, <1>2, <1>3 DEF Step

\* A call that owes nothing and idles touches nothing.
LEMMA IdlingTouchesNothing ==
    ASSUME NEW r \in Requests, Idles(r), call[r].at \notin Due
    PROVE  Untouched
<1>1. call'[r].at \notin Due
  BY DEF Idles
<1>2. Owing' = Owing /\ \A s \in Owing : call'[s] = call[s]
  BY <1>1, OwingFacts, OwingFactsNext DEF Idles
<1>3. Promised' = Promised
  BY <1>2, OwingFacts, OwingFactsNext
<1>. QED BY <1>3 DEF Untouched, Idles

\* A won update makes a new promise, or none if it was external.
LEMMA WinningCompletes ==
    ASSUME TypeInv, PayInv, TypeInv', Track, NEW r \in Requests, NEW row, NEW p,
           Wins(r, row, p)
    PROVE  Promises!Complete \/ Untouched
<1>. DEFINE c == call[r].chore
            q == PromiseOf(call'[r])
<1>1. /\ call' = [call EXCEPT ![r] = [call[r] EXCEPT !.at = p, !.row = row, !.won = rev[c] + 1]]
      /\ call \in [Requests -> Call]
  BY DEF Wins, Won, Becomes, Made, TypeInv, TypeOK
<1>2. /\ call'[r].won = rev[c] + 1 /\ call'[r].chore = c /\ call'[r].at = p
      /\ \A s \in Requests : s # r => call'[s] = call[s]
  BY <1>1 DEF Call
<1>3. Completions' = Completions
  BY DEF Wins, Completions
<1>4. call[r].at \notin Due
  BY DEF Wins, Due
<1>5. CASE p = "follow"
  <2>1. Owing' = Owing /\ \A s \in Owing : call'[s] = call[s]
    BY <1>2, <1>4, <1>5, OwingFacts, OwingFactsNext DEF Due
  <2>2. Promised' = Promised
    BY <2>1, OwingFacts, OwingFactsNext
  <2>. QED BY <1>3, <2>2 DEF Untouched
<1>6. CASE p = "credit"
  <2>1. Owing' = Owing \cup {r} /\ \A s \in Owing : call'[s] = call[s]
    BY <1>2, <1>4, <1>6, OwingFacts, OwingFactsNext DEF Due
  <2>2. Promised' = Promised \cup {q}
    BY <2>1, OwingFacts, OwingFactsNext
  <2>3. c \in Chores /\ rev[c] \in Nat
    BY DEF Wins, TypeInv, TypeOK
  <2>4. q.chore = c /\ q.rev = rev[c] + 1
    BY <1>2 DEF PromiseOf
  <2>5. \A e \in Completions : ~Promises!Answers(e, q)
    BY <2>3, <2>4 DEF PayInv, EntriesReached, TypeInv, TypeOK, Completions, Entry,
                      Promises!Answers
  <2>6. q \notin Promised
    <3>1. ASSUME NEW s \in Requests, call[s].at \in Due PROVE PromiseOf(call[s]) # q
      <4>1. call[s].won > 0 /\ call[s].won \in Nat
        BY <3>1 DEF PayInv, DueUnpaid, TypeInv, TypeOK, Call
      <4>2. call[s].won <= rev[call[s].chore]
        BY <4>1 DEF PayInv, WinsReached
      <4>3. PromiseOf(call[s]).chore = call[s].chore /\ PromiseOf(call[s]).rev = call[s].won
        BY DEF PromiseOf
      <4>. QED BY <2>3, <2>4, <4>1, <4>2, <4>3
    <3>. QED BY <3>1, OwingFacts
  <2>7. q \in Promised' \ Promised
    BY <2>2, <2>6
  <2>. HIDE DEF q
  <2>. QED BY <1>3, <2>2, <2>5, <2>7 DEF Promises!Complete
<1>. QED BY <1>5, <1>6 DEF Wins

\* Nobody else owes what call r owes.
LEMMA OwedByOne ==
    ASSUME TypeInv, PayInv, NEW r \in Owing, NEW s \in Owing,
           PromiseOf(call[r]) = PromiseOf(call[s])
    PROVE  r = s
<1>1. call[r].won > 0 /\ r \in Requests /\ s \in Requests
  BY OwingFacts DEF PayInv, DueUnpaid
<1>2. call[r].won = call[s].won /\ call[r].chore = call[s].chore
  BY DEF PromiseOf
<1>. QED BY <1>1, <1>2 DEF PayInv, OneWinner

\* The promise of a call that stops owing is the one that goes.
LEMMA Discharging ==
    ASSUME TypeInv, PayInv, NEW r \in Owing, call'[r].at \notin Due,
           \A s \in Requests : s # r => call'[s] = call[s]
    PROVE  Promised' = Promised \ {PromiseOf(call[r])} /\ PromiseOf(call[r]) \in Promised
<1>1. r \in Requests
  BY OwingFacts
<1>2. Owing' = Owing \ {r} /\ \A s \in Owing \ {r} : call'[s] = call[s]
  BY <1>1, OwingFacts, OwingFactsNext
<1>3. \A s \in Owing \ {r} : PromiseOf(call[s]) # PromiseOf(call[r])
  BY OwedByOne
<1>. QED BY <1>2, <1>3, OwingFacts, OwingFactsNext

LEMMA CreditingKeeps ==
    ASSUME TypeInv, PayInv, NEW r \in Requests, Credit(r)
    PROVE  Promises!Waive \/ Untouched
<1>. DEFINE p == IF Beneficiary(r) = None THEN "follow" ELSE "ledger"
            x == [call[r] EXCEPT !.at = p, !.to = Beneficiary(r)]
<1>1. /\ call' = [call EXCEPT ![r] = x] /\ call[r].at = "credit"
      /\ call \in [Requests -> Call] /\ call[r] \in Call
      /\ Completions' = Completions
  BY DEF Credit, Becomes, At, TypeInv, TypeOK, Completions
<1>2. x.won = call[r].won /\ x.chore = call[r].chore /\ x.at = p
  BY <1>1 DEF Call
<1>3. call'[r] = x /\ \A s \in Requests : s # r => call'[s] = call[s]
  BY <1>1
<1>4. r \in Owing
  BY <1>1, OwingFacts DEF Due
<1>5. CASE Beneficiary(r) = None
  <2>1. call'[r].at \notin Due
    BY <1>2, <1>3, <1>5 DEF Due
  <2>. QED BY <1>1, <1>3, <1>4, <2>1, Discharging DEF Promises!Waive
<1>6. CASE Beneficiary(r) # None
  <2>1. call'[r].at \in Due
    BY <1>2, <1>3, <1>6 DEF Due
  <2>2. Owing' = Owing
    BY <1>3, <1>4, <2>1, OwingFacts, OwingFactsNext
  <2>3. \A s \in Owing : PromiseOf(call'[s]) = PromiseOf(call[s])
    BY <1>2, <1>3, OwingFacts DEF PromiseOf
  <2>4. Promised' = Promised
    BY <2>2, <2>3, OwingFacts, OwingFactsNext
  <2>. QED BY <1>1, <2>4 DEF Untouched
<1>. QED BY <1>5, <1>6

LEMMA RecordingKeeps ==
    ASSUME TypeInv, PayInv, NEW r \in Requests, RecordCompletion(r)
    PROVE  Promises!Pay
<1>. DEFINE q == PromiseOf(call[r])
            e == Paid(r)
<1>1. /\ call' = [call EXCEPT ![r] = [call[r] EXCEPT !.at = "follow"]]
      /\ call \in [Requests -> Call] /\ call[r] \in Call /\ call[r].at = "ledger"
      /\ ledger' = ledger \cup {Paid(r)}
  BY DEF RecordCompletion, At, Go, Becomes, TypeInv, TypeOK
<1>2. call'[r].at \notin Due /\ \A s \in Requests : s # r => call'[s] = call[s]
  BY <1>1 DEF Call, Due
<1>3. r \in Owing
  BY <1>1, OwingFacts DEF Due
<1>4. Promised' = Promised \ {q} /\ q \in Promised
  BY <1>2, <1>3, Discharging
<1>5. Completions' = Completions \cup {e} /\ e.chore = call[r].chore /\ e.rev = call[r].won
  BY <1>1 DEF Completions, Paid
<1>6. e \notin Completions
  BY <1>1, <1>5 DEF PayInv, DueUnpaid, Due
<1>7. Promises!Answers(e, q)
  BY <1>5 DEF Promises!Answers, PromiseOf
<1>. HIDE DEF e, q
<1>8. e \in Completions' \ Completions
  BY <1>5, <1>6
<1>. QED BY <1>4, <1>5, <1>7, <1>8 DEF Promises!Pay

LEMMA BreakingTouchesNothing ==
    ASSUME TypeInv, NEW r \in Requests, Break(r)
    PROVE  Untouched
<1>1. /\ call' = [call EXCEPT ![r] = [call[r] EXCEPT !.failed = TRUE]]
      /\ call \in [Requests -> Call] /\ call[r] \in Call /\ Completions' = Completions
  BY DEF Break, Becomes, Completions, TypeInv, TypeOK
<1>2. /\ call'[r].at = call[r].at /\ call'[r].won = call[r].won
      /\ call'[r].chore = call[r].chore
      /\ \A s \in Requests : s # r => call'[s] = call[s]
  BY <1>1 DEF Call
<1>3. Owing' = Owing /\ \A s \in Owing : PromiseOf(call'[s]) = PromiseOf(call[s])
  BY <1>2, OwingFacts, OwingFactsNext DEF PromiseOf
<1>4. Promised' = Promised
  BY <1>3, OwingFacts, OwingFactsNext
<1>. QED BY <1>1, <1>4 DEF Untouched

LEMMA StepKeeps ==
    ASSUME TypeInv, PayInv, TypeInv', NEW r \in Requests, Step(r), Track
    PROVE  Promises!Next \/ Untouched
<1>1. CASE Credit(r)
  BY <1>1, CreditingKeeps DEF Promises!Next
<1>2. CASE RecordCompletion(r)
  BY <1>2, RecordingKeeps DEF Promises!Next
<1>3. CASE ~Credit(r) /\ ~RecordCompletion(r)
  <2>1. call[r].at \notin Due
    BY <1>3, OwingStops
  <2>2. CASE Idles(r)
    BY <2>1, <2>2, IdlingTouchesNothing
  <2>3. ASSUME NEW row, NEW p, Wins(r, row, p)
        PROVE  Promises!Next \/ Untouched
    BY <2>3, WinningCompletes DEF Promises!Next
  <2>. QED BY <1>3, <2>2, <2>3, SettlementKinds, OtherStepIdles DEF Step, OtherStep
<1>. QED BY <1>1, <1>2, <1>3

\* Whatever calls overlap, are retried or break off, settlement implements the
\* abstract promise: a completion is promised once, by the update that wins it,
\* and the ledger meets every promise at most once and nothing else.
THEOREM SettlementKeepsPromises == Spec => KeepsPromises
<1>1. Init => Promises!Init
  <2>1. Init => Completions = {} /\ \A r \in Requests : call[r].at = "idle"
    BY DEF Init, Completions, Opening, Idle
  <2>2. Init => Owing = {}
    BY <2>1 DEF Owing
  <2>. QED BY <2>1, <2>2 DEF Promised, Promises!Init
<1>2. Init => TypeInv /\ PayInv
  BY InitType, InitPays
<1>3. TypeInv /\ PayInv /\ [Next]_vars => TypeInv' /\ PayInv'
  BY NextType, NextPays
<1>4. TypeInv /\ PayInv /\ TypeInv' /\ [Next]_vars => [Promises!Next]_<<Promised, Completions>>
  <2>. SUFFICES ASSUME TypeInv, PayInv, TypeInv', [Next]_vars
                PROVE  Promises!Next \/ Untouched
    BY DEF Untouched
  <2>1. CASE UNCHANGED vars
    BY <2>1 DEF vars, Untouched, Promised, Owing, Completions
  <2>2. ASSUME NEW r \in Requests, Step(r), Track
        PROVE  Promises!Next \/ Untouched
    BY <2>2, StepKeeps
  <2>3. ASSUME NEW r \in Requests, Break(r), Track
        PROVE  Promises!Next \/ Untouched
    BY <2>3, BreakingTouchesNothing
  <2>. QED BY <2>1, <2>2, <2>3 DEF Next, Quiet
<1>. QED BY <1>1, <1>2, <1>3, <1>4, PTL DEF Spec, KeepsPromises, Promises!Spec

-----------------------------------------------------------------------------
(* The balances.                                                             *)

Account(u) == {e \in ledger : e.user = u}
Recorders(u) == {r \in Requests : call[r].at = "ledger" /\ call[r].to = u}

\* A call that may still write the one entry of its operation.
Owes(x) ==
    \/ x.at = "idle"
    \/ x.op \in {"submit", "approve"} /\ x.at \in {"write", "credit", "ledger"}
    \/ x.op \in {"ask", "accept"} /\ x.at \in {"pending", "balance", "write"}
WritesOnce == \A e \in ledger, r \in Requests : e.by = r => ~Owes(call[r])

\* A penalty pass writes one entry for each chore of its list at most.
Unbilled(r, c) == \A e \in ledger : e.by = r => e.chore # c
Bills(r) ==
    LET x == call[r]
    IN  x.op = "fine" /\ x.at \in {"bill", "write"} =>
            /\ x.todo \subseteq Chores \X Maybe(Users)
            /\ \A a \in x.todo : Unbilled(r, a[1]) /\ \A b \in x.todo : a[1] = b[1] => a = b
            /\ x.at = "write" => Unbilled(r, x.chore) /\ \A a \in x.todo : a[1] # x.chore

Balanced(u) == /\ IsFiniteSet(Account(u)) /\ IsFiniteSet(Recorders(u))
               /\ points[u] = Award * Cardinality(Recorders(u)) + Total(Account(u))
BooksInv == WritesOnce /\ (\A r \in Requests : Bills(r)) /\ \A u \in Users : Balanced(u)

LEMMA BooksAccount == BooksInv => PointsAccountedFor
BY DEF BooksInv, Balanced, PointsAccountedFor, Owed, Balance, Recorders, Account, Total

\* Call r goes on as x.
LEMMA BooksBecoming ==
    ASSUME TypeInv, NEW r \in Requests, NEW x, Becomes(r, x)
    PROVE  call'[r] = x /\ \A s \in Requests : s # r => call'[s] = call[s]
BY DEF Becomes, TypeInv, TypeOK

\* What other calls have written stands, and what they may write.
LEMMA OthersBooks ==
    ASSUME TypeInv, BooksInv, NEW r \in Requests, NEW x, Becomes(r, x), NEW e, e.by = r,
           ledger' \in {ledger, ledger \cup {e}}
    PROVE  /\ \A d \in ledger', s \in Requests : s # r => (d.by = s => ~Owes(call'[s]))
           /\ \A s \in Requests : s # r => Bills(s)'
<1>1. call'[r] = x /\ \A s \in Requests : s # r => call'[s] = call[s]
  BY BooksBecoming
<1>2. \A d \in ledger' : d \in ledger \/ d.by = r
  OBVIOUS
<1>3. ASSUME NEW s \in Requests, s # r PROVE Bills(s)'
  <2>1. \A c : Unbilled(s, c) => Unbilled(s, c)'
    BY <1>2, <1>3 DEF Unbilled
  <2>2. Bills(s) /\ call'[s] = call[s]
    BY <1>1, <1>3 DEF BooksInv
  <2>. QED  BY <2>1, <2>2 DEF Bills
<1>4. \A d \in ledger', s \in Requests : s # r => (d.by = s => ~Owes(call'[s]))
  BY <1>1, <1>2 DEF BooksInv, WritesOnce
<1>. QED  BY <1>3, <1>4

\* A step that pays nobody.
LEMMA NothingPaid ==
    ASSUME TypeInv, BooksInv, NEW r \in Requests, NEW x, Becomes(r, x),
           UNCHANGED <<points, ledger>>, call[r].at # "ledger", x.at # "ledger",
           Owes(x) => Owes(call[r]), Bills(r)'
    PROVE  BooksInv'
<1>1. call'[r] = x /\ \A s \in Requests : s # r => call'[s] = call[s]
  BY BooksBecoming
<1>2. \A u \in Users : Account(u)' = Account(u) /\ Recorders(u)' = Recorders(u)
  BY <1>1 DEF Account, Recorders
<1>3. \A u \in Users : Balanced(u)'
  BY <1>2 DEF BooksInv, Balanced
<1>4. WritesOnce'
  BY <1>1 DEF BooksInv, WritesOnce
<1>5. \A s \in Requests : Bills(s)'
  <2>1. [by |-> r].by = r
    OBVIOUS
  <2>. QED  BY <2>1, OthersBooks
<1>. QED  BY <1>3, <1>4, <1>5 DEF BooksInv

\* Most calls are no penalty passes.
LEMMA NoBill ==
    ASSUME TypeInv, BooksInv, NEW r \in Requests, NEW x, Becomes(r, x),
           UNCHANGED <<points, ledger>>, call[r].at # "ledger", x.at # "ledger",
           Owes(x) => Owes(call[r]), x.op # "fine"
    PROVE  BooksInv'
<1>1. Bills(r)'
  BY BooksBecoming DEF Bills
<1>. QED  BY <1>1, NothingPaid

LEMMA ReturningBooks ==
    ASSUME TypeInv, BooksInv, NEW r \in Requests, Return(r), UNCHANGED <<points, ledger>>,
           call[r].at # "ledger"
    PROVE  BooksInv'
<1>1. Returned.at = "done" /\ Returned.op = None /\ ~Owes(Returned)
  BY NoneAssumption DEF Returned, Idle, Owes, OpNames
<1>2. None # "fine"
  BY NoneAssumption DEF OpNames
<1>. QED  BY <1>1, <1>2, NoBill DEF Return

\* Call r begins operation op, its next statement is p.
Enters(r, op, p) == \E x : Becomes(r, x) /\ x.at = p /\ x.op = op

LEMMA Starting ==
    ASSUME NEW r, NEW op, NEW u, NEW p, NEW c
    PROVE  /\ Checked(r, op, u, c, p) => Enters(r, op, p)
           /\ \A T : Becomes(r, [Begin(op, u, p) EXCEPT !.chore = c, !.todo = T]) => Enters(r, op, p)
           /\ \A row : Becomes(r, [Begin(op, u, p) EXCEPT !.chore = c, !.row = row]) => Enters(r, op, p)
           /\ \A v : Becomes(r, [Begin(op, u, p) EXCEPT !.chore = c, !.to = v]) => Enters(r, op, p)
           /\ \A o : Becomes(r, [Begin(op, u, p) EXCEPT !.chore = c, !.offer = o]) => Enters(r, op, p)
<1>. DEFINE b == Begin(op, u, p)
            Ok(x) == x.at = p /\ x.op = op
<1>1. /\ DOMAIN b = DOMAIN Idle /\ {"at", "op"} \subseteq DOMAIN Idle
      /\ b.at = p /\ b.op = op
  BY DEF Begin, Idle
<1>. HIDE DEF b
<1>2. Ok([b EXCEPT !.chore = c])
  BY <1>1
<1>3. /\ \A T : Ok([b EXCEPT !.chore = c, !.todo = T])
      /\ \A row : Ok([b EXCEPT !.chore = c, !.row = row])
      /\ \A v : Ok([b EXCEPT !.chore = c, !.to = v])
      /\ \A o : Ok([b EXCEPT !.chore = c, !.offer = o])
  BY <1>1
<1>4. \A x : Becomes(r, x) /\ Ok(x) => Enters(r, op, p)
  BY DEF Enters
<1>. HIDE DEF Ok
<1>. QED BY <1>2, <1>3, <1>4 DEF b, Checked

LEMMA StartingBare ==
    ASSUME NEW r, NEW op, NEW u, NEW p
    PROVE  /\ \A o : Becomes(r, [Begin(op, u, p) EXCEPT !.offer = o]) => Enters(r, op, p)
           /\ \A T : Becomes(r, [Begin(op, u, p) EXCEPT !.todo = T]) => Enters(r, op, p)
<1>. DEFINE b == Begin(op, u, p)
            Ok(x) == x.at = p /\ x.op = op
<1>1. /\ DOMAIN b = DOMAIN Idle /\ {"at", "op"} \subseteq DOMAIN Idle
      /\ b.at = p /\ b.op = op
  BY DEF Begin, Idle
<1>. HIDE DEF b
<1>2. (\A o : Ok([b EXCEPT !.offer = o])) /\ \A T : Ok([b EXCEPT !.todo = T])
  BY <1>1
<1>3. \A x : Becomes(r, x) /\ Ok(x) => Enters(r, op, p)
  BY DEF Enters
<1>. HIDE DEF Ok
<1>. QED BY <1>2, <1>3 DEF b

LEMMA StartingBooks ==
    ASSUME TypeInv, BooksInv, NEW r \in Requests, UNCHANGED <<points, ledger>>,
           NEW op, op # "fine", MayBegin(r, op), NEW p, p # "ledger", Enters(r, op, p)
    PROVE  BooksInv'
<1>1. PICK x : Becomes(r, x) /\ x.at = p /\ x.op = op
  BY DEF Enters
<1>2. call[r].at = "idle" /\ Owes(call[r])
  BY DEF MayBegin, Owes
<1>. QED  BY <1>1, <1>2, NoBill

\* Call r goes on to p, with or without another list, row or balance.
Moves(r, p) == \E x : Becomes(r, x) /\ Keeps(call[r], x, p)

LEMMA Moving ==
    ASSUME TypeInv, NEW r \in Requests, NEW p
    PROVE  /\ Go(r, p) => Moves(r, p)
           /\ \A T : Becomes(r, [call[r] EXCEPT !.at = p, !.todo = T]) => Moves(r, p)
           /\ \A T : Becomes(r, [call[r] EXCEPT !.todo = T, !.at = p]) => Moves(r, p)
           /\ \A row : Becomes(r, [call[r] EXCEPT !.at = p, !.row = row]) => Moves(r, p)
           /\ \A T, row : Becomes(r, [call[r] EXCEPT !.at = p, !.todo = T, !.row = row]) => Moves(r, p)
           /\ \A n : Becomes(r, [call[r] EXCEPT !.at = p, !.bal = n]) => Moves(r, p)
<1>1. call[r] \in Call
  BY DEF TypeInv, TypeOK
<1>2. Keeps(call[r], [call[r] EXCEPT !.at = p], p)
  BY <1>1, KeepingFields
<1>3. \A T : /\ Keeps(call[r], [call[r] EXCEPT !.at = p, !.todo = T], p)
             /\ Keeps(call[r], [call[r] EXCEPT !.todo = T, !.at = p], p)
  BY <1>1, KeepingFields
<1>4. \A T, row : /\ Keeps(call[r], [call[r] EXCEPT !.at = p, !.row = row], p)
                  /\ Keeps(call[r], [call[r] EXCEPT !.at = p, !.todo = T, !.row = row], p)
  BY <1>1, KeepingFields
<1>5. \A n : Keeps(call[r], [call[r] EXCEPT !.at = p, !.bal = n], p)
  BY <1>1, KeepingFields
<1>. QED BY <1>2, <1>3, <1>4, <1>5 DEF Go, Moves

\* A call that goes on, to a place where it has no more to write than before.
Late == {"follow", "renew", "flex", "sweep", "offers", "done", "reread"}
LEMMA GoingBooks ==
    ASSUME TypeInv, BooksInv, NEW r \in Requests, UNCHANGED <<points, ledger>>,
           call[r].at \notin {"idle", "ledger"}, call[r].op # "fine",
           NEW p, p \notin {"idle", "ledger"},
           p \in Late \/ call[r].op \notin {"submit", "approve", "ask", "accept"} \/ Owes(call[r]),
           Moves(r, p)
    PROVE  BooksInv'
<1>0. PICK x : Becomes(r, x) /\ Keeps(call[r], x, p)
  BY DEF Moves
<1>1. x.at = p /\ x.op = call[r].op
  BY <1>0 DEF Keeps
<1>2. Owes(x) => Owes(call[r])
  BY <1>1 DEF Owes, Late
<1>. QED  BY <1>0, <1>1, <1>2, NoBill

-----------------------------------------------------------------------------
(* The balances: the steps that pay nobody.                                  *)

LEMMA SettlementBooks ==
    ASSUME TypeInv, BooksInv, NEW r \in Requests, Settlement(r), ~Credit(r), ~RecordCompletion(r)
    PROVE  BooksInv'
<1>0. call[r] \in Call /\ UNCHANGED <<points, ledger>>
  BY DEF TypeInv, TypeOK, Settlement, SubmitRead, ExternalRead, ReviewRead, SubmitWin, SubmitLose,
         ReviewWin, ReviewLose, CreateFollowUps, Renew
<1>1. CASE SubmitRead(r) \/ ExternalRead(r) \/ ReviewRead(r)
  <2>1. \E op \in {"submit", "external", "approve", "reject"} :
            MayBegin(r, op) /\ Enters(r, op, "write")
    BY <1>1, Starting DEF SubmitRead, ExternalRead, ReviewRead, Reviews
  <2>. QED  BY <1>0, <2>1, StartingBooks
<1>2. CASE Return(r) /\ call[r].at # "ledger"
  BY <1>0, <1>2, ReturningBooks
<1>3. CASE SubmitWin(r) \/ ReviewWin(r)
  <2>0. call[r].at = "write" /\ call[r].op \in Submits \cup Reviews
    BY <1>3 DEF SubmitWin, ReviewWin, At
  <2>1. CASE Return(r)
    BY <1>2, <2>0, <2>1
  <2>2. ASSUME NEW row, NEW p \in {"credit", "follow"}, Won(r, row, p),
               call[r].op \in {"submit", "approve"} \/ p = "follow"
        PROVE  BooksInv'
    <3>1. PICK n : Becomes(r, [call[r] EXCEPT !.at = p, !.row = row, !.won = n])
      BY <2>2 DEF Won
    <3>2. PICK x : x = [call[r] EXCEPT !.at = p, !.row = row, !.won = n]
      OBVIOUS
    <3>3. x.at = p /\ x.op = call[r].op /\ Becomes(r, x)
      BY <1>0, <3>1, <3>2 DEF Call
    <3>4. Owes(x) => Owes(call[r])
      BY <2>0, <2>2, <3>3 DEF Owes
    <3>. QED  BY <1>0, <2>0, <3>3, <3>4, NoBill DEF Submits, Reviews
  <2>3. SubmitWin(r) /\ ~Return(r) => \E row : Won(r, row, IF call[r].op = "external" THEN "follow" ELSE "credit")
    BY DEF SubmitWin
  <2>4. ReviewWin(r) /\ ~Return(r) => call[r].op = "approve" /\ \E row : Won(r, row, "credit")
    BY DEF ReviewWin
  <2>5. SubmitWin(r) => call[r].op \in {"submit", "external"}
    BY DEF SubmitWin, At, Submits
  <2>. QED  BY <1>3, <2>1, <2>2, <2>3, <2>4, <2>5
<1>4. CASE SubmitLose(r) \/ ReviewLose(r)
  BY <1>2, <1>4 DEF SubmitLose, ReviewLose, At
<1>5. CASE CreateFollowUps(r)
  <2>1. Go(r, "renew") /\ call[r].at = "follow" /\ call[r].op # "fine"
    BY <1>5 DEF CreateFollowUps, At
  <2>. QED  BY <1>0, <2>1, Moving, GoingBooks DEF Late
<1>6. CASE Renew(r)
  <2>1. call[r].at = "renew" /\ call[r].op # "fine" /\ (Go(r, "flex") \/ Return(r))
    BY <1>6 DEF Renew, At, AfterRenewal
  <2>2. CASE Go(r, "flex")
    BY <1>0, <2>1, <2>2, Moving, GoingBooks DEF Late
  <2>. QED  BY <1>2, <2>1, <2>2
<1>. QED  BY <1>1, <1>3, <1>4, <1>5, <1>6 DEF Settlement

LEMMA EditingBooks ==
    ASSUME TypeInv, BooksInv, NEW r \in Requests, Editing(r)
    PROVE  BooksInv'
<1>0. call[r] \in Call /\ UNCHANGED <<points, ledger>>
  BY DEF TypeInv, TypeOK, Editing, StartRead, TakeOverRead, Claim, CancelOffers, UpdateRead,
         UpdateReread, Update, CancelRead, CancelOccurrenceRead, CloseCycleRead, ListSiblings, Cancel,
         Release, Snooze, List, Create, QuickLogRead, QuickLog, QuickLogNew
<1>1. ASSUME NEW op, op # "fine", MayBegin(r, op), NEW p \in {"write", "reread", "flex"}, Enters(r, op, p)
      PROVE  BooksInv'
  BY <1>0, <1>1, StartingBooks
<1>2. CASE Return(r) /\ call[r].at # "ledger"
  BY <1>0, <1>2, ReturningBooks
<1>3. ASSUME call[r].op \in {"start", "takeOver", "update", "cancel", "cancelOccurrence", "closeCycle"},
             call[r].at \notin {"idle", "ledger"},
             NEW p \in {"write", "flex", "offers", "renew"}, Moves(r, p)
      PROVE  BooksInv'
  <2>1. call[r].op \notin {"submit", "approve", "ask", "accept", "fine"}
    BY <1>3
  <2>. QED  BY <1>0, <1>3, <2>1, GoingBooks
<1>4. CASE StartRead(r) \/ TakeOverRead(r) \/ UpdateRead(r) \/ CancelOccurrenceRead(r)
           \/ CloseCycleRead(r) \/ Create(r)
  <2>1. \E op \in {"start", "takeOver", "update", "cancelOccurrence", "closeCycle", "create"},
           p \in {"write", "reread", "flex"} : MayBegin(r, op) /\ Enters(r, op, p)
    BY <1>4, Starting DEF StartRead, TakeOverRead, UpdateRead, CancelOccurrenceRead,
                          CloseCycleRead, Create
  <2>. QED  BY <1>1, <2>1
<1>5. CASE CancelRead(r) \/ QuickLogRead(r)
  <2>1. \E op \in {"cancel", "quickLog"} : MayBegin(r, op) /\ Enters(r, op, "write")
    BY <1>5, Starting DEF CancelRead, QuickLogRead
  <2>. QED  BY <1>1, <2>1
<1>6. CASE Claim(r) \/ CancelOffers(r) \/ UpdateReread(r)
  <2>1. \E p \in {"write", "flex", "offers"} : Moves(r, p)
    BY <1>6, Moving DEF Claim, CancelOffers, UpdateReread
  <2>. QED  BY <1>3, <1>6, <2>1 DEF Claim, CancelOffers, UpdateReread, At
<1>7. CASE Update(r) \/ Cancel(r)
  <2>1. \E p \in {"flex", "renew"} : Moves(r, p)
    BY <1>7, Moving DEF Update, Cancel
  <2>. QED  BY <1>3, <1>7, <2>1 DEF Update, Cancel, At
<1>8. CASE ListSiblings(r)
  <2>1. Return(r) \/ Moves(r, "write")
    BY <1>8, Moving DEF ListSiblings
  <2>. QED  BY <1>2, <1>3, <1>8, <2>1 DEF ListSiblings, At
<1>9. CASE Release(r) \/ Snooze(r) \/ List(r) \/ QuickLog(r) \/ QuickLogNew(r)
  BY <1>2, <1>9 DEF Release, Snooze, List, QuickLog, QuickLogNew, At, MayBegin
<1>. QED BY <1>4, <1>5, <1>6, <1>7, <1>8, <1>9 DEF Editing

LEMMA VisitingBooks ==
    ASSUME TypeInv, BooksInv, NEW r \in Requests, NEW item, Visited(r, item), call[r].at = "sweep",
           call[r].op # "fine", UNCHANGED <<points, ledger>>
    PROVE  BooksInv'
<1>1. CASE Return(r)
  BY <1>1, ReturningBooks
<1>2. CASE Becomes(r, [call[r] EXCEPT !.todo = @ \ {item}])
  <2>1. Keeps(call[r], [call[r] EXCEPT !.todo = @ \ {item}], "sweep")
    BY KeepingFields DEF TypeInv, TypeOK
  <2>2. Moves(r, "sweep")
    BY <1>2, <2>1 DEF Moves
  <2>. QED BY <2>2, GoingBooks DEF Late
<1>. QED  BY <1>1, <1>2 DEF Visited

LEMMA TakeoverBooks ==
    ASSUME TypeInv, BooksInv, NEW r \in Requests, TakeoverStep(r), ~Ask(r), ~Accept(r)
    PROVE  BooksInv'
<1>0. call[r] \in Call /\ UNCHANGED <<points, ledger>>
  BY DEF TypeInv, TypeOK, TakeoverStep, AskRead, AskCheck, AskBalance, AcceptRead, DeclineRead,
         Decline, ExpireList, ExpireOffer
<1>1. CASE Return(r) /\ call[r].at # "ledger"
  BY <1>0, <1>1, ReturningBooks
<1>2. ASSUME NEW op, op # "fine", MayBegin(r, op), NEW p \in {"pending", "write", "sweep"}, Enters(r, op, p)
      PROVE  BooksInv'
  BY <1>0, <1>2, StartingBooks
<1>3. CASE AskRead(r) \/ AcceptRead(r) \/ DeclineRead(r) \/ ExpireList(r)
  <2>1. AskRead(r) => MayBegin(r, "ask") /\ Enters(r, "ask", "pending")
    BY Starting DEF AskRead
  <2>2. AcceptRead(r) => MayBegin(r, "accept") /\ Enters(r, "accept", "write")
    BY Starting DEF AcceptRead
  <2>3. DeclineRead(r) => MayBegin(r, "decline") /\ Enters(r, "decline", "write")
    BY StartingBare DEF DeclineRead
  <2>4. ExpireList(r) => MayBegin(r, "expire") /\ Enters(r, "expire", "sweep")
    BY StartingBare DEF ExpireList
  <2>. QED  BY <1>2, <1>3, <2>1, <2>2, <2>3, <2>4
<1>4. CASE AskCheck(r) \/ AskBalance(r)
  <2>1. call[r].op = "ask" /\ call[r].at \in {"pending", "balance"} /\ Owes(call[r])
    BY <1>4 DEF AskCheck, AskBalance, At, Owes
  <2>2. Return(r) \/ \E p \in {"balance", "write"} : Moves(r, p)
    BY <1>4, Moving DEF AskCheck, AskBalance
  <2>3. ASSUME NEW p \in {"balance", "write"}, Moves(r, p)
        PROVE  BooksInv'
    BY <1>0, <2>1, <2>3, GoingBooks
  <2>. QED  BY <1>1, <2>1, <2>2, <2>3
<1>5. CASE Decline(r)
  BY <1>1, <1>5 DEF Decline, At
<1>6. CASE ExpireOffer(r)
  BY <1>0, <1>6, VisitingBooks DEF ExpireOffer, At
<1>. QED BY <1>2, <1>3, <1>4, <1>5, <1>6 DEF TakeoverStep

LEMMA RebalanceBooks ==
    ASSUME TypeInv, BooksInv, NEW r \in Requests, Rebalance(r)
    PROVE  BooksInv'
<1>0. call[r] \in Call /\ UNCHANGED <<points, ledger>> /\ call[r].op # "fine"
  BY DEF TypeInv, TypeOK, Rebalance, ReadCandidates, Reassign, At, Rebalancers
<1>1. CASE ReadCandidates(r)
  <2>1. call[r].at = "flex" /\ (Return(r) \/ \E S : Becomes(r, [call[r] EXCEPT !.at = "sweep", !.todo = S]))
    BY <1>1 DEF ReadCandidates, At
  <2>2. ASSUME NEW S, Becomes(r, [call[r] EXCEPT !.at = "sweep", !.todo = S]) PROVE BooksInv'
    BY <1>0, <2>1, <2>2, Moving, GoingBooks DEF Late
  <2>. QED  BY <1>0, <2>1, <2>2, ReturningBooks
<1>2. CASE Reassign(r)
  BY <1>0, <1>2, VisitingBooks DEF Reassign, At
<1>. QED BY <1>1, <1>2 DEF Rebalance

LEMMA BreakBooks ==
    ASSUME TypeInv, BooksInv, NEW r \in Requests, Break(r)
    PROVE  BooksInv'
<1>1. call[r] \in Call /\ call \in [Requests -> Call] /\ UNCHANGED <<points, ledger>>
  BY DEF TypeInv, TypeOK, Break
<1>2. call' = [call EXCEPT ![r] = [call[r] EXCEPT !.failed = TRUE]]
  BY DEF Break, Becomes
<1>3. \A s \in Requests : /\ call'[s].at = call[s].at /\ call'[s].op = call[s].op
                          /\ call'[s].to = call[s].to /\ call'[s].chore = call[s].chore
                          /\ call'[s].todo = call[s].todo
  BY <1>1, <1>2 DEF Call
<1>4. \A u \in Users : Account(u)' = Account(u) /\ Recorders(u)' = Recorders(u)
  BY <1>1, <1>3 DEF Account, Recorders
<1>5. \A u \in Users : Balanced(u)'
  BY <1>1, <1>4 DEF BooksInv, Balanced
<1>6. WritesOnce'
  BY <1>1, <1>3 DEF BooksInv, WritesOnce, Owes
<1>7. \A s \in Requests : Bills(s)'
  <2>1. \A s, c : Unbilled(s, c)' = Unbilled(s, c)
    BY <1>1 DEF Unbilled
  <2>. QED  BY <1>3, <2>1 DEF BooksInv, Bills
<1>. QED  BY <1>5, <1>6, <1>7 DEF BooksInv

-----------------------------------------------------------------------------
(* The balances: the steps that pay.                                         *)

\* A new entry counts for its user alone.
LEMMA NewEntry ==
    ASSUME TypeInv, BooksInv, NEW e \in Entry, e \notin ledger, ledger' = ledger \cup {e}
    PROVE  /\ \A u \in Users : u # e.user => Account(u)' = Account(u)
           /\ IsFiniteSet(Account(e.user)')
           /\ Total(Account(e.user)') = Total(Account(e.user)) + e.amount
           /\ Total(Account(e.user)) \in Int
<1>. DEFINE v == e.user
            S == Account(v)
<1>1. e.user \in Users /\ e.amount \in Int /\ \A d \in ledger : d.amount \in Int
  BY DEF Entry, TypeInv, TypeOK
<1>2. \A u \in Users : u # v => Account(u)' = Account(u)
  BY DEF Account
<1>3. S' = S \cup {e} /\ e \notin S
  BY DEF Account
<1>4. IsFiniteSet(S) /\ \A d \in S : d.amount \in Int
  BY <1>1 DEF BooksInv, Balanced, Account
<1>. HIDE DEF S
<1>5. IsFiniteSet(S \cup {e})
  BY <1>4, FS_AddElement
<1>6. Total(S \cup {e}) = Total(S) + e.amount /\ Total(S) \in Int
  BY <1>1, <1>3, <1>4, TotalAdds
<1>. QED  BY <1>2, <1>3, <1>5, <1>6 DEF S

\* An operation that pays in one step with its entry.
LEMMA PayingBooks ==
    ASSUME TypeInv, BooksInv, NEW r \in Requests, NEW x, Becomes(r, x),
           NEW e \in Entry, e \notin ledger, e.by = r, ledger' = ledger \cup {e},
           points' = [points EXCEPT ![e.user] = @ + e.amount],
           call[r].at # "ledger", x.at # "ledger", ~Owes(x), Bills(r)'
    PROVE  BooksInv'
<1>1. call'[r] = x /\ \A s \in Requests : s # r => call'[s] = call[s]
  BY BooksBecoming
<1>2. \A u \in Users : Recorders(u)' = Recorders(u)
  BY <1>1 DEF Recorders
<1>3. \A u \in Users : Balanced(u)'
  <2>. SUFFICES ASSUME NEW u \in Users PROVE Balanced(u)'
    OBVIOUS
  <2>1. points \in [Users -> Int] /\ e.amount \in Int /\ e.user \in Users
    BY DEF TypeInv, TypeOK, Entry
  <2>2. Balanced(u)
    BY DEF BooksInv
  <2>3. CASE u = e.user
    <3>1. points'[u] = points[u] + e.amount
      BY <2>1, <2>3
    <3>2. IsFiniteSet(Account(u)') /\ Total(Account(u)') = Total(Account(u)) + e.amount
          /\ Total(Account(u)) \in Int
      BY <2>3, NewEntry
    <3>3. Award * Cardinality(Recorders(u)) \in Int
      BY <2>2, FS_CardinalityType, NumberAssumption DEF Balanced
    <3>4. points'[u] = Award * Cardinality(Recorders(u)) + Total(Account(u)')
      <4>. DEFINE k == Award * Cardinality(Recorders(u))
                  t == Total(Account(u))
                  n == Total(Account(u)')
      <4>1. points[u] = k + t /\ k \in Int /\ t \in Int /\ n = t + e.amount
        BY <2>2, <3>2, <3>3 DEF Balanced
      <4>. HIDE DEF k, t, n
      <4>2. points'[u] = k + n
        BY <2>1, <3>1, <4>1
      <4>. QED  BY <4>2 DEF k, n
    <3>. QED  BY <1>2, <2>2, <3>2, <3>4 DEF Balanced
  <2>4. CASE u # e.user
    <3>1. points'[u] = points[u] /\ Account(u)' = Account(u)
      BY <2>1, <2>4, NewEntry
    <3>. QED  BY <1>2, <2>2, <3>1 DEF Balanced
  <2>. QED  BY <2>3, <2>4
<1>4. /\ \A d \in ledger', s \in Requests : s # r => (d.by = s => ~Owes(call'[s]))
      /\ \A s \in Requests : s # r => Bills(s)'
  BY OthersBooks
<1>5. WritesOnce'
  BY <1>1, <1>4 DEF WritesOnce
<1>. QED  BY <1>3, <1>4, <1>5 DEF BooksInv

LEMMA OneMore == ASSUME NEW a \in Int, NEW n \in Int PROVE a * (n + 1) = a * n + a
OBVIOUS

\* The credit and its entry are two steps: in between the call records.
LEMMA CreditBooks ==
    ASSUME TypeInv, BooksInv, NEW r \in Requests, Credit(r)
    PROVE  BooksInv'
<1>. DEFINE u == Beneficiary(r)
            p == IF u = None THEN "follow" ELSE "ledger"
            x == [call[r] EXCEPT !.at = p, !.to = u]
<1>0. call[r] \in Call /\ points \in [Users -> Int]
  BY DEF TypeInv, TypeOK
<1>1. call[r].op \in {"submit", "approve"} /\ call[r].at = "credit" /\ Becomes(r, x)
      /\ ledger' = ledger
  BY DEF Credit, At
<1>2. x.at = p /\ x.to = u /\ x.op = call[r].op
  BY <1>0 DEF Call
<1>3. Owes(call[r])
  BY <1>1 DEF Owes
<1>4. CASE u = None
  <2>1. points' = points /\ x.at = "follow"
    BY <1>2, <1>4 DEF Credit
  <2>2. Owes(x) => Owes(call[r])
    BY <1>3
  <2>. HIDE DEF x
  <2>. QED  BY <1>1, <1>2, <2>1, <2>2, NoBill
<1>5. CASE u # None
  <2>1. points' = [points EXCEPT ![u] = @ + Award] /\ x.at = "ledger"
    BY <1>2, <1>5 DEF Credit
  <2>. HIDE DEF x, u
  <2>2. call'[r] = x /\ \A s \in Requests : s # r => call'[s] = call[s]
    BY <1>1, BooksBecoming
  <2>3. \A v \in Users : Account(v)' = Account(v)
    BY <1>1 DEF Account
  <2>4. ASSUME NEW v \in Users PROVE Balanced(v)'
    <3>0. Balanced(v)
      BY DEF BooksInv
    <3>1. CASE v # u
      <4>1. Recorders(v)' = Recorders(v) /\ points'[v] = points[v]
        BY <1>0, <1>1, <1>2, <2>1, <2>2, <3>1 DEF Recorders
      <4>. QED  BY <2>3, <3>0, <4>1 DEF Balanced
    <3>2. CASE v = u
      <4>1. Recorders(v)' = Recorders(v) \cup {r} /\ r \notin Recorders(v)
        BY <1>1, <1>2, <2>1, <2>2, <3>2 DEF Recorders
      <4>2. /\ IsFiniteSet(Recorders(v)') /\ Cardinality(Recorders(v)) \in Nat
            /\ Cardinality(Recorders(v)') = Cardinality(Recorders(v)) + 1
        BY <3>0, <4>1, FS_AddElement, FS_CardinalityType DEF Balanced
      <4>3. points'[v] = points[v] + Award
        BY <1>0, <2>1, <3>2
      <4>4. points'[v] = Award * Cardinality(Recorders(v)') + Total(Account(v))
        <5>. DEFINE n == Cardinality(Recorders(v))
                    t == Total(Account(v))
        <5>1. Award \in Int /\ n \in Int /\ Award * n \in Int /\ Award * (n + 1) = Award * n + Award
          BY <4>2, OneMore, NumberAssumption
        <5>2. t \in Int
          <6>1. IsFiniteSet(Account(v)) /\ \A e \in Account(v) : e.amount \in Int
            BY <3>0 DEF Balanced, Account, TypeInv, TypeOK, Entry
          <6>. QED  BY <6>1, TotalIsNumber
        <5>3. points[v] = Award * n + t
          BY <3>0 DEF Balanced
        <5>. HIDE DEF n, t
        <5>4. points[v] + Award = Award * (n + 1) + t
          BY <5>1, <5>2, <5>3
        <5>. QED  BY <4>2, <4>3, <5>4 DEF n, t
      <4>. QED  BY <2>3, <3>0, <4>2, <4>4 DEF Balanced
    <3>. QED  BY <3>1, <3>2
  <2>5. WritesOnce'
    BY <1>1, <1>3, <2>2 DEF BooksInv, WritesOnce
  <2>6. \A s \in Requests : Bills(s)'
    <3>1. \A s, c : Unbilled(s, c)' = Unbilled(s, c)
      BY <1>1 DEF Unbilled
    <3>. QED  BY <1>1, <1>2, <2>2, <3>1 DEF BooksInv, Bills
  <2>. QED  BY <2>4, <2>5, <2>6 DEF BooksInv
<1>. QED  BY <1>4, <1>5

LEMMA RecordBooks ==
    ASSUME TypeInv, BooksInv, TypeInv', NEW r \in Requests, RecordCompletion(r)
    PROVE  BooksInv'
<1>. DEFINE x == [call[r] EXCEPT !.at = "follow"]
            e == Paid(r)
            u == call[r].to
<1>0. call[r] \in Call /\ points \in [Users -> Int] /\ Award \in Int
  BY NumberAssumption DEF TypeInv, TypeOK
<1>1. /\ call[r].op \in {"submit", "approve"} /\ call[r].at = "ledger" /\ Becomes(r, x)
      /\ ledger' = ledger \cup {e} /\ points' = points
  BY DEF RecordCompletion, At, Go
<1>2. x.at = "follow" /\ x.op = call[r].op /\ ~Owes(x)
  BY <1>0, <1>1 DEF Call, Owes
<1>3. e.by = r /\ e.user = u /\ e.amount = Award
  BY DEF Paid
<1>4. e \in Entry /\ u \in Users
  BY <1>1, <1>3 DEF TypeInv, TypeOK, Entry
<1>5. e \notin ledger
  <2>1. Owes(call[r])
    BY <1>1 DEF Owes
  <2>. QED  BY <1>3, <2>1 DEF BooksInv, WritesOnce
<1>. HIDE DEF x, e
<1>6. call'[r] = x /\ \A s \in Requests : s # r => call'[s] = call[s]
  BY <1>1, BooksBecoming
<1>7. ASSUME NEW v \in Users PROVE Balanced(v)'
  <2>0. Balanced(v)
    BY DEF BooksInv
  <2>1. CASE v # u
    <3>1. Recorders(v)' = Recorders(v)
      BY <1>1, <1>2, <1>6, <2>1 DEF Recorders
    <3>2. Account(v)' = Account(v)
      BY <1>1, <1>3, <1>4, <1>5, <2>1, NewEntry
    <3>. QED  BY <1>1, <2>0, <3>1, <3>2 DEF Balanced
  <2>2. CASE v = u
    <3>1. Recorders(v)' = Recorders(v) \ {r} /\ r \in Recorders(v)
      BY <1>1, <1>2, <1>6, <2>2 DEF Recorders
    <3>2. /\ IsFiniteSet(Recorders(v)') /\ Cardinality(Recorders(v)') \in Nat
          /\ Cardinality(Recorders(v)) \in Nat
          /\ Cardinality(Recorders(v)') = Cardinality(Recorders(v)) - 1
      BY <2>0, <3>1, FS_RemoveElement, FS_CardinalityType DEF Balanced
    <3>3. /\ IsFiniteSet(Account(v)') /\ Total(Account(v)') = Total(Account(v)) + Award
          /\ Total(Account(v)) \in Int
      BY <1>1, <1>3, <1>4, <1>5, <2>2, NewEntry
    <3>4. points'[v] = Award * Cardinality(Recorders(v)') + Total(Account(v)')
      <4>. DEFINE m == Cardinality(Recorders(v)')
                  n == Cardinality(Recorders(v))
                  t == Total(Account(v))
      <4>1. n = m + 1 /\ m \in Int /\ n \in Int
        BY <3>2
      <4>2. points[v] = Award * n + t /\ t \in Int
        BY <2>0, <3>3 DEF Balanced
      <4>. HIDE DEF m, n, t
      <4>3. Award * (m + 1) = Award * m + Award /\ Award * m \in Int
        BY <1>0, <4>1, OneMore
      <4>4. points[v] = Award * m + (t + Award)
        BY <1>0, <4>1, <4>2, <4>3
      <4>. QED  BY <1>1, <3>3, <4>4 DEF m, t
    <3>. QED  BY <3>2, <3>3, <3>4 DEF Balanced
  <2>. QED  BY <2>1, <2>2
<1>8. Bills(r)'
  BY <1>1, <1>2, <1>6 DEF Bills
<1>9. /\ \A d \in ledger', s \in Requests : s # r => (d.by = s => ~Owes(call'[s]))
      /\ \A s \in Requests : s # r => Bills(s)'
  BY <1>1, <1>3, OthersBooks
<1>10. WritesOnce'
  BY <1>2, <1>6, <1>9 DEF WritesOnce
<1>. QED  BY <1>7, <1>8, <1>9, <1>10 DEF BooksInv

LEMMA AskBooks ==
    ASSUME TypeInv, BooksInv, TypeInv', NEW r \in Requests, Ask(r)
    PROVE  BooksInv'
<1>. DEFINE n == AskCost(r)
            e == Takeover(r, -n)
<1>0. call[r] \in Call /\ points \in [Users -> Int]
  BY DEF TypeInv, TypeOK
<1>1. call[r].op = "ask" /\ call[r].at = "write" /\ Return(r) /\ Owes(call[r])
  BY DEF Ask, At, Owes
<1>2. n \in Int
  BY <1>0, NumberAssumption DEF AskCost, Least, Call
<1>3. points' = [points EXCEPT ![call[r].actor] = @ - n]
  BY DEF Ask
<1>4. ledger' = IF n = 0 THEN ledger ELSE ledger \cup {e}
  BY DEF Ask
<1>5. e.by = r /\ e.user = call[r].actor /\ e.amount = -n
  BY DEF Takeover
<1>. HIDE DEF n, e
<1>6. CASE n = 0
  <2>1. \A u \in Users : points[u] - 0 = points[u]
    BY <1>0
  <2>2. points' = points
    BY <1>0, <1>3, <1>6, <2>1
  <2>. QED  BY <1>1, <1>4, <1>6, <2>2, ReturningBooks
<1>7. CASE n # 0
  <2>1. e \in Entry /\ ledger' = ledger \cup {e}
    BY <1>4, <1>7 DEF TypeInv, TypeOK
  <2>2. e \notin ledger
    BY <1>1, <1>5 DEF BooksInv, WritesOnce
  <2>3. points[e.user] - n = points[e.user] + e.amount
    BY <1>0, <1>2, <1>5, <2>1 DEF Entry
  <2>4. points' = [points EXCEPT ![e.user] = @ + e.amount]
    BY <1>3, <1>5, <2>3
  <2>5. Becomes(r, Returned) /\ Returned.at = "done" /\ ~Owes(Returned) /\ Returned.op # "fine"
    BY <1>1, NoneAssumption DEF Return, Returned, Idle, Owes, OpNames
  <2>6. Bills(r)'
    BY <2>5, BooksBecoming DEF Bills
  <2>. QED  BY <1>1, <1>5, <2>1, <2>2, <2>4, <2>5, <2>6, PayingBooks
<1>. QED  BY <1>6, <1>7

LEMMA AcceptBooks ==
    ASSUME TypeInv, BooksInv, TypeInv', NEW r \in Requests, Accept(r)
    PROVE  BooksInv'
<1>. DEFINE e == Takeover(r, Delta)
            x == [call[r] EXCEPT !.at = "flex"]
<1>0. call[r] \in Call /\ points \in [Users -> Int]
  BY DEF TypeInv, TypeOK
<1>1. call[r].op = "accept" /\ call[r].at = "write" /\ Becomes(r, x) /\ Owes(call[r])
  BY DEF Accept, At, Owes, Go
<1>2. x.at = "flex" /\ x.op = "accept" /\ ~Owes(x)
  BY <1>0, <1>1 DEF Call, Owes
<1>3. e.by = r /\ e.user = call[r].actor /\ e.amount = Delta
  BY DEF Takeover
<1>4. /\ points' = IF Delta > 0 THEN [points EXCEPT ![call[r].actor] = @ + Delta] ELSE points
      /\ ledger' = IF Delta > 0 THEN ledger \cup {e} ELSE ledger
  BY DEF Accept
<1>. HIDE DEF e, x
<1>5. CASE Delta > 0
  <2>1. e \in Entry /\ ledger' = ledger \cup {e}
    BY <1>4, <1>5 DEF TypeInv, TypeOK
  <2>2. e \notin ledger
    BY <1>1, <1>3 DEF BooksInv, WritesOnce
  <2>3. points' = [points EXCEPT ![e.user] = @ + e.amount]
    BY <1>3, <1>4, <1>5
  <2>4. Bills(r)'
    BY <1>1, <1>2, BooksBecoming DEF Bills
  <2>. QED  BY <1>1, <1>2, <1>3, <2>1, <2>2, <2>3, <2>4, PayingBooks
<1>6. CASE ~(Delta > 0)
  BY <1>1, <1>2, <1>4, <1>6, NoBill
<1>. QED  BY <1>5, <1>6

-----------------------------------------------------------------------------
(* The balances: the penalty pass.                                           *)

LEMMA FineListBooks ==
    ASSUME TypeInv, BooksInv, NEW r \in Requests, FineList(r)
    PROVE  BooksInv'
<1>1. call[r].at = "idle" /\ Owes(call[r]) /\ UNCHANGED <<points, ledger>>
  BY DEF FineList, MayBegin, Owes
<1>2. PICK S \in SUBSET Finable :
          Becomes(r, [Begin("fine", None, "bill") EXCEPT
                         !.todo = {<<c, inst[c].assignee>> : c \in S}])
  BY DEF FineList
<1>. DEFINE T == {<<c, inst[c].assignee>> : c \in S}
            x == [Begin("fine", None, "bill") EXCEPT !.todo = T]
<1>3. x.at = "bill" /\ x.op = "fine" /\ x.todo = T
  BY DEF Begin, Idle
<1>4. S \subseteq Chores /\ \A c \in S : inst[c].assignee \in Maybe(Users)
  BY DEF Finable, Existing, TypeInv, TypeOK, Row
<1>5. /\ T \subseteq Chores \X Maybe(Users)
      /\ \A a \in T : \A b \in T : a[1] = b[1] => a = b
  BY <1>4
<1>6. Becomes(r, x)
  BY <1>2
<1>. HIDE DEF x, T
<1>7. \A c : Unbilled(r, c)'
  BY <1>1 DEF Unbilled, BooksInv, WritesOnce
<1>8. call'[r] = x
  BY <1>6, BooksBecoming
<1>9. Bills(r)'
  BY <1>3, <1>5, <1>7, <1>8 DEF Bills
<1>10. Owes(x) => Owes(call[r])
  BY <1>1
<1>. QED  BY <1>1, <1>3, <1>6, <1>9, <1>10, NothingPaid

LEMMA FineBalanceBooks ==
    ASSUME TypeInv, BooksInv, NEW r \in Requests, FineBalance(r)
    PROVE  BooksInv'
<1>0. /\ call[r] \in Call /\ call[r].op = "fine" /\ call[r].at = "bill"
      /\ UNCHANGED <<points, ledger>>
  BY DEF FineBalance, At, TypeInv, TypeOK
<1>1. PICK bill \in call[r].todo : bill \in Chores \X Maybe(Users) /\
          Becomes(r, [call[r] EXCEPT !.at = "write", !.todo = @ \ {bill},
                       !.chore = bill[1], !.to = bill[2],
                       !.bal = IF bill[2] = None THEN 0 ELSE points[bill[2]]])
  BY DEF FineBalance
<1>. DEFINE n == IF bill[2] = None THEN 0 ELSE points[bill[2]]
            x == [call[r] EXCEPT !.at = "write", !.todo = @ \ {bill},
                       !.chore = bill[1], !.to = bill[2], !.bal = n]
<1>2. x.at = "write" /\ x.op = "fine" /\ x.todo = call[r].todo \ {bill} /\ x.chore = bill[1]
  <2>. HIDE DEF n
  <2>. QED BY <1>0 DEF Call
<1>3. Becomes(r, x)
  BY <1>1
<1>. HIDE DEF x
<1>4. /\ call[r].todo \subseteq Chores \X Maybe(Users)
      /\ \A a \in call[r].todo : Unbilled(r, a[1]) /\ \A b \in call[r].todo : a[1] = b[1] => a = b
  BY <1>0 DEF BooksInv, Bills
<1>5. \A c : Unbilled(r, c)' = Unbilled(r, c)
  BY <1>0 DEF Unbilled
<1>6. call'[r] = x
  BY <1>3, BooksBecoming
<1>7. Bills(r)'
  <2>1. /\ x.todo \subseteq Chores \X Maybe(Users)
        /\ \A a \in x.todo : Unbilled(r, a[1]) /\ \A b \in x.todo : a[1] = b[1] => a = b
    BY <1>2, <1>4
  <2>2. Unbilled(r, x.chore) /\ \A a \in x.todo : a[1] # x.chore
    BY <1>1, <1>2, <1>4
  <2>. QED  BY <1>2, <1>5, <1>6, <2>1, <2>2 DEF Bills
<1>8. ~Owes(x)
  BY <1>2 DEF Owes
<1>. QED  BY <1>0, <1>2, <1>3, <1>7, <1>8, NothingPaid

LEMMA FineBooks ==
    ASSUME TypeInv, BooksInv, TypeInv', NEW r \in Requests, Fine(r)
    PROVE  BooksInv'
<1>. DEFINE e == Fined(r)
            m == Least(call[r].bal, Penalty)
            y == [call[r] EXCEPT !.at = "bill"]
<1>0. call[r] \in Call /\ points \in [Users -> Int] /\ call[r].op = "fine" /\ call[r].at = "write"
  BY DEF Fine, At, TypeInv, TypeOK
<1>1. PICK x : Becomes(r, x) /\ (x = Returned \/ x = y)
  BY DEF Fine, Return, Go
<1>2. /\ Returned.at = "done" /\ Returned.op # "fine"
      /\ y.at = "bill" /\ y.op = "fine" /\ y.todo = call[r].todo
  BY <1>0, NoneAssumption DEF Returned, Idle, OpNames, Call
<1>3. x.at \notin {"ledger", "write"} /\ ~Owes(x)
      /\ (x.op = "fine" => x.todo = call[r].todo)
  BY <1>1, <1>2 DEF Owes
<1>4. m \in Int
  BY <1>0, NumberAssumption DEF Least, Call
<1>5. e.by = r /\ e.chore = call[r].chore /\ e.user = call[r].to /\ e.amount = -m
  BY DEF Fined
<1>6. /\ points' = IF call[r].to = None THEN points
                   ELSE [points EXCEPT ![call[r].to] = @ - m]
      /\ ledger' = IF call[r].to = None THEN ledger ELSE ledger \cup {e}
  BY DEF Fine
<1>. HIDE DEF e, m, y
<1>7. /\ call[r].todo \subseteq Chores \X Maybe(Users)
      /\ \A a \in call[r].todo : Unbilled(r, a[1]) /\ \A b \in call[r].todo : a[1] = b[1] => a = b
      /\ Unbilled(r, call[r].chore) /\ \A a \in call[r].todo : a[1] # call[r].chore
  BY <1>0 DEF BooksInv, Bills
<1>8. call'[r] = x
  BY <1>1, BooksBecoming
<1>9. Bills(r)'
  <2>1. \A a \in call[r].todo : Unbilled(r, a[1])'
    BY <1>5, <1>6, <1>7 DEF Unbilled
  <2>. QED  BY <1>3, <1>7, <1>8, <2>1 DEF Bills
<1>10. CASE call[r].to = None
  BY <1>0, <1>1, <1>3, <1>6, <1>9, <1>10, NothingPaid
<1>11. CASE call[r].to # None
  <2>1. e \in Entry /\ ledger' = ledger \cup {e}
    BY <1>6, <1>11 DEF TypeInv, TypeOK
  <2>2. e \notin ledger
    BY <1>5, <1>7 DEF Unbilled
  <2>3. points[e.user] - m = points[e.user] + e.amount
    BY <1>0, <1>4, <1>5, <2>1 DEF Entry
  <2>4. points' = [points EXCEPT ![e.user] = @ + e.amount]
    BY <1>5, <1>6, <1>11, <2>3
  <2>. QED  BY <1>0, <1>1, <1>3, <1>5, <1>9, <2>1, <2>2, <2>4, PayingBooks
<1>. QED  BY <1>10, <1>11

-----------------------------------------------------------------------------
(* The balances: every step.                                                 *)

LEMMA InitBooks == Init => BooksInv
<1>. SUFFICES ASSUME Init PROVE BooksInv
  OBVIOUS
<1>1. PICK h \in Households :
          points = h.points /\ ledger = {Opening(u, h.points[u]) : u \in Users}
  BY DEF Init
<1>2. points \in [Users -> Nat] /\ \A r \in Requests : call[r] = Idle
  BY <1>1, HouseholdAssumption DEF Household, Init
<1>3. Idle.at = "idle" /\ Idle.op = None
  BY DEF Idle
<1>4. ASSUME NEW u \in Users PROVE Balanced(u)
  <2>. DEFINE e == Opening(u, points[u])
  <2>1. Account(u) = {e} /\ e.amount = points[u]
    BY <1>1 DEF Account, Opening
  <2>2. Recorders(u) = {}
    BY <1>2, <1>3 DEF Recorders
  <2>. HIDE DEF e
  <2>3. IsFiniteSet({e}) /\ Total({e}) = e.amount
    <3>1. e.amount \in Int
      BY <1>2, <2>1
    <3>2. Total({e}) = e.amount
      BY <3>1, TotalOfOne
    <3>3. \A x : IsFiniteSet({x})
      BY FS_Singleton
    <3>. QED  BY <3>2, <3>3
  <2>4. IsFiniteSet({}) /\ Cardinality({}) = 0
    BY FS_EmptySet
  <2>5. points[u] = Award * 0 + points[u]
    BY <1>2, NumberAssumption
  <2>. QED  BY <2>1, <2>2, <2>3, <2>4, <2>5 DEF Balanced
<1>5. WritesOnce
  <2>1. \A e \in ledger : e.by = None
    BY <1>1 DEF Opening
  <2>. QED  BY <2>1, NoneAssumption DEF WritesOnce
<1>6. \A r \in Requests : Bills(r)
  BY <1>2, <1>3, NoneAssumption DEF Bills, OpNames
<1>. QED  BY <1>4, <1>5, <1>6 DEF BooksInv

LEMMA StepBooks ==
    ASSUME TypeInv, BooksInv, TypeInv', NEW r \in Requests, Step(r)
    PROVE  BooksInv'
<1>1. CASE Settlement(r)
  BY <1>1, CreditBooks, RecordBooks, SettlementBooks
<1>2. CASE Editing(r)
  BY <1>2, EditingBooks
<1>3. CASE TakeoverStep(r)
  BY <1>3, AskBooks, AcceptBooks, TakeoverBooks
<1>4. CASE PenaltyStep(r)
  BY <1>4, FineListBooks, FineBalanceBooks, FineBooks DEF PenaltyStep
<1>5. CASE Rebalance(r)
  BY <1>5, RebalanceBooks
<1>. QED  BY <1>1, <1>2, <1>3, <1>4, <1>5 DEF Step

LEMMA NextBooks == TypeInv /\ BooksInv /\ [Next]_vars /\ TypeInv' => BooksInv'
<1>. SUFFICES ASSUME TypeInv, BooksInv, [Next]_vars, TypeInv' PROVE BooksInv'
  OBVIOUS
<1>1. CASE UNCHANGED vars
  <2>1. UNCHANGED <<points, ledger, call>>
    BY <1>1 DEF vars
  <2>2. \A u : Account(u)' = Account(u) /\ Recorders(u)' = Recorders(u)
    BY <2>1 DEF Account, Recorders
  <2>3. \A u \in Users : Balanced(u)'
    BY <2>1, <2>2 DEF BooksInv, Balanced
  <2>4. WritesOnce' /\ \A s \in Requests : Bills(s)'
    BY <2>1 DEF BooksInv, WritesOnce, Bills, Unbilled
  <2>. QED  BY <2>3, <2>4 DEF BooksInv
<1>2. ASSUME NEW r \in Requests, Step(r) PROVE BooksInv'
  BY <1>2, StepBooks
<1>3. ASSUME NEW r \in Requests, Break(r) PROVE BooksInv'
  BY <1>3, BreakBooks
<1>. QED  BY <1>1, <1>2, <1>3 DEF Next, Quiet

\* Whatever calls and worker passes overlap or break off, the balance of every
\* member is what the ledger says plus the credits whose entry is still to be
\* written: completions, takeovers and fines each change a balance by the
\* amount of the one entry they write.
THEOREM BalancesFollowLedger == Spec => []PointsAccountedFor
<1>1. Init => TypeInv /\ BooksInv
  BY InitType, InitBooks
<1>2. TypeInv /\ BooksInv /\ [Next]_vars => TypeInv' /\ BooksInv'
  BY NextType, NextBooks
<1>3. BooksInv => PointsAccountedFor
  BY BooksAccount
<1>. QED BY <1>1, <1>2, <1>3, PTL DEF Spec
=============================================================================
