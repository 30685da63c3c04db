----------------------------- MODULE ChoreEditing -----------------------------
(***************************************************************************)
(* Everything else a member does to a chore: start, take over, edit,       *)
(* release, snooze, cancel (the chore, the occurrence, the cycle), create, *)
(* quick-log and list.  The service reads the row and checks its state,    *)
(* the repository then updates the row by id without looking at the state  *)
(* again.                                                                  *)
(***************************************************************************)
EXTENDS ChoreStore

-----------------------------------------------------------------------------
(* start (claim) and take over                                               *)

StartRead(r) ==
    /\ MayBegin(r, "start")
    /\ \E u \in Users, c \in Existing :
        /\ u \in Adults \/ inst[c].assignee \in {None, u}
        /\ inst[c].state \notin Settled \cup {"IN_PROGRESS"}
        /\ Checked(r, "start", u, c, "write")
    /\ UNCHANGED <<inst, offer, points, ledger>>

TakeOverRead(r) ==
    /\ MayBegin(r, "takeOver")
    /\ \E u \in Users, c \in Existing :
        /\ inst[c].state \notin Settled
        /\ inst[c].assignee # u
        /\ Checked(r, "takeOver", u, c, "write")
    /\ UNCHANGED <<inst, offer, points, ledger>>

\* The chore becomes the actor's; a takeover still has to cancel the offers.
Claim(r) ==
    /\ At(r, {"start", "takeOver"}, "write")
    /\ LET c == call[r].chore
       IN  Save(c, [inst[c] EXCEPT !.assignee = call[r].actor, !.state = "ASSIGNED",
                                   !.locked = TRUE])
    /\ Go(r, IF call[r].op = "start" THEN "flex" ELSE "offers")
    /\ UNCHANGED <<offer, points, ledger>>

CancelOffers(r) ==
    /\ At(r, {"takeOver"}, "offers")
    /\ offer' = Cancelled({call[r].chore})
    /\ Go(r, "flex")
    /\ UNCHANGED <<inst, points, ledger>>

-----------------------------------------------------------------------------
(* update: the state read is written back                                    *)

UpdateRead(r) ==
    /\ MayBegin(r, "update")
    /\ \E u \in Adults, c \in Existing :
        /\ inst[c].state \notin Settled
        /\ Checked(r, "update", u, c, "reread")
    /\ UNCHANGED <<inst, offer, points, ledger>>

UpdateReread(r) ==
    /\ At(r, {"update"}, "reread")
    /\ Becomes(r, [call[r] EXCEPT !.at = "write", !.row = inst[call[r].chore]])
    /\ UNCHANGED <<inst, offer, points, ledger>>

\* Counts of occurrences a caller may ask for; -1 asks for no count.
Counts == {-1, 1}

\* The editor keeps the assignment, names a member, or asks for a new choice;
\* another template may change whether the chore repeats; the count is kept or
\* set anew; and the state of the row is saved as it was read.
Update(r) ==
    LET c == call[r].chore
        saved == call[r].row
    IN  /\ At(r, {"update"}, "write")
        /\ \E u \in Maybe(Users), locked, recurs \in BOOLEAN, t \in Templates,
              left \in Counts \cup {saved.left} :
            /\ \/ u = saved.assignee /\ locked = saved.locked
               \/ u # None /\ locked
               \/ ~locked
            /\ t = saved.tmpl => recurs = saved.recurs
            /\ left # saved.left => recurs
            /\ Save(c, [inst[c] EXCEPT !.assignee = u, !.locked = locked, !.tmpl = t,
                                       !.recurs = recurs, !.left = left,
                                       !.state = saved.state])
        /\ Go(r, "flex")
        /\ UNCHANGED <<offer, points, ledger>>

-----------------------------------------------------------------------------
(* cancel: the chore, the occurrence, the cycle                              *)

CancelRead(r) ==
    /\ MayBegin(r, "cancel")
    /\ \E u \in Adults, c \in Existing :
        /\ inst[c].state \notin Closed
        /\ Becomes(r, [Begin("cancel", u, "write") EXCEPT !.chore = c, !.todo = {c}])
    /\ UNCHANGED <<inst, offer, points, ledger>>

\* The root of an occurrence in a repeating cycle.
SupportsOccurrence(c) == inst[c].cycle # None /\ inst[c].recurs /\ inst[c].root = c

CancelOccurrenceRead(r) ==
    /\ MayBegin(r, "cancelOccurrence")
    /\ \E u \in Adults, c \in Existing :
        /\ inst[c].state \notin Closed
        /\ SupportsOccurrence(c)
        /\ Checked(r, "cancelOccurrence", u, c, "reread")
    /\ UNCHANGED <<inst, offer, points, ledger>>

CloseCycleRead(r) ==
    /\ MayBegin(r, "closeCycle")
    /\ \E u \in Adults, c \in Existing :
        /\ SupportsOccurrence(c)
        /\ Checked(r, "closeCycle", u, c, "reread")
    /\ UNCHANGED <<inst, offer, points, ledger>>

\* The chores to cancel: the open ones of the same occurrence or cycle.
Siblings(r) ==
    LET c == call[r].chore
    IN  {d \in Existing :
            /\ inst[d].state \notin Closed
            /\ IF call[r].op = "closeCycle" THEN inst[d].cycle = inst[c].cycle
                                            ELSE inst[d].root = inst[c].root}

ListSiblings(r) ==
    /\ At(r, {"cancelOccurrence", "closeCycle"}, "reread")
    /\ IF Siblings(r) = {} \/ (call[r].op = "cancelOccurrence" /\ ~SupportsOccurrence(call[r].chore))
       THEN Return(r)
       ELSE Becomes(r, [call[r] EXCEPT !.at = "write", !.todo = Siblings(r),
                                    !.row = inst[call[r].chore]])
    /\ UNCHANGED <<inst, offer, points, ledger>>

\* One transaction cancels the listed chores and the offers on them, whatever
\* state they have by now; only an occurrence is renewed.
Cancel(r) ==
    /\ At(r, {"cancel", "cancelOccurrence", "closeCycle"}, "write")
    /\ inst' = [c \in Chores |-> IF c \in call[r].todo
                                 THEN [inst[c] EXCEPT !.state = "CANCELLED"]
                                 ELSE inst[c]]
    /\ offer' = Cancelled(call[r].todo)
    /\ Becomes(r, [call[r] EXCEPT !.todo = {},
                                  !.at = IF call[r].op = "cancelOccurrence"
                                         THEN "renew" ELSE "flex"])
    /\ UNCHANGED <<points, ledger>>

-----------------------------------------------------------------------------
(* Calls that are a single statement on the rows                             *)

\* release: any chore, in whatever state, is open again.
Release(r) ==
    /\ MayBegin(r, "release")
    /\ \E c \in Existing : Save(c, [inst[c] EXCEPT !.state = "OPEN"])
    /\ Return(r)
    /\ UNCHANGED <<offer, points, ledger>>

\* snooze: any chore, in whatever state, waits until a later time.
Snooze(r) ==
    /\ MayBegin(r, "snooze")
    /\ \E c \in Existing : Save(c, [inst[c] EXCEPT !.state = "DEFERRED"])
    /\ Return(r)
    /\ UNCHANGED <<offer, points, ledger>>

\* Listing the chores opens the deferred ones whose time has come (S).
List(r) ==
    /\ MayBegin(r, "list")
    /\ \E S \in SUBSET {c \in Chores : inst[c].state = "DEFERRED"} :
        inst' = [c \in Chores |-> IF c \in S THEN [inst[c] EXCEPT !.state = "OPEN"]
                                             ELSE inst[c]]
    /\ Return(r)
    /\ UNCHANGED <<offer, points, ledger>>

\* A new chore: it starts a cycle if it repeats or has follow-ups.  left is the
\* count of occurrences asked for; an assignee named by the caller is locked.
CreateRow(c, t, recurs, left, u, locked) ==
    [Blank EXCEPT !.state = AssignedState(u), !.assignee = u, !.locked = locked,
                  !.tmpl = t, !.recurs = recurs, !.left = left, !.root = c,
                  !.cycle = IF recurs \/ FollowUps[t] # {} THEN c ELSE None,
                  !.born = Created]

Create(r) ==
    /\ MayBegin(r, "create")
    /\ Chores \ Existing # {}
    /\ \E a \in Adults, t \in Templates, recurs \in BOOLEAN, left \in Counts,
          u \in Maybe(Users), locked \in BOOLEAN :
        /\ left # -1 => recurs
        /\ locked => u # None
        /\ Save(Fresh, CreateRow(Fresh, t, recurs, left, u, locked))
        /\ Checked(r, "create", a, Fresh, "flex")
    /\ UNCHANGED <<offer, points, ledger>>

-----------------------------------------------------------------------------
(* quick log: the chore is done, no points change hands                      *)

QuickLogRead(r) ==
    /\ MayBegin(r, "quickLog")
    /\ \E u \in Adults, c \in Existing :
        /\ inst[c].state \notin Closed
        /\ Becomes(r, [Begin("quickLog", u, "write") EXCEPT !.chore = c, !.row = inst[c]])
    /\ UNCHANGED <<inst, offer, points, ledger>>

QuickLog(r) ==
    /\ At(r, {"quickLog"}, "write")
    /\ LET c == call[r].chore
           before == call[r].row.submitter
       IN  Save(c, [inst[c] EXCEPT !.state = "COMPLETED",
                       !.submitter = IF before = None THEN call[r].actor ELSE before])
    /\ Return(r)
    /\ UNCHANGED <<offer, points, ledger>>

\* Without a chore to log, a completed one is created, with or without template.
QuickLogNew(r) ==
    /\ MayBegin(r, "quickLog")
    /\ Chores \ Existing # {}
    /\ \E u \in Adults, t \in Maybe(Templates) :
        Save(Fresh, [Blank EXCEPT !.state = "COMPLETED", !.assignee = u,
                         !.locked = TRUE, !.submitter = u, !.tmpl = t,
                         !.root = Fresh, !.born = Created])
    /\ Return(r)
    /\ UNCHANGED <<offer, points, ledger>>

Editing(r) ==
    \/ StartRead(r) \/ TakeOverRead(r) \/ Claim(r) \/ CancelOffers(r)
    \/ UpdateRead(r) \/ UpdateReread(r) \/ Update(r)
    \/ CancelRead(r) \/ CancelOccurrenceRead(r) \/ CloseCycleRead(r)
    \/ ListSiblings(r) \/ Cancel(r)
    \/ Release(r) \/ Snooze(r) \/ List(r) \/ Create(r)
    \/ QuickLogRead(r) \/ QuickLog(r) \/ QuickLogNew(r)
=============================================================================
