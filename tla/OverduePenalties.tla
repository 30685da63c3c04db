--------------------------- MODULE OverduePenalties ---------------------------
(***************************************************************************)
(* processOverduePenalties: a pass lists the overdue chores that have not  *)
(* been fined, then fines them one transaction each.  The transaction      *)
(* reads the balance first and deducts at most that; the chore becomes     *)
(* OVERDUE whatever has happened to it since the listing.                  *)
(***************************************************************************)
EXTENDS ChoreStore

\* The chores past their due time (any of these) with the assignee they had.
Finable == {c \in Existing : /\ ~inst[c].fined
                             /\ inst[c].state \in {"OPEN", "ASSIGNED", "IN_PROGRESS",
                                                   "NEEDS_FIXES"}}

\* No pass runs while penalties are disabled or a holiday block is active.
FineList(r) ==
    /\ MayBegin(r, "fine")
    /\ \E S \in SUBSET Finable :
        /\ S # {}
        /\ Becomes(r, [Begin("fine", None, "bill") EXCEPT
                          !.todo = {<<c, inst[c].assignee>> : c \in S}])
    /\ UNCHANGED <<inst, offer, points, ledger>>

\* The next chore of the list; with an assignee its balance is read.
FineBalance(r) ==
    /\ At(r, {"fine"}, "bill")
    /\ \E bill \in call[r].todo \cap (Chores \X Maybe(Users)) :
        Becomes(r, [call[r] EXCEPT !.at = "write", !.todo = @ \ {bill},
                       !.chore = bill[1], !.to = bill[2],
                       !.bal = IF bill[2] = None THEN 0 ELSE points[bill[2]]])
    /\ UNCHANGED <<inst, offer, points, ledger>>

\* (FinedInFull: as if the entry took no notice of the balance.)
FinedInFull(r) == [by |-> r, chore |-> call[r].chore, user |-> call[r].to,
                   amount |-> -Penalty, kind |-> "fine", rev |-> rev[call[r].chore]]
Fined(r) == [by |-> r, chore |-> call[r].chore, user |-> call[r].to,
             amount |-> -Least(call[r].bal, Penalty), kind |-> "fine",
             rev |-> rev[call[r].chore]]

Fine(r) ==
    LET u == call[r].to
    IN  /\ At(r, {"fine"}, "write")
        /\ points' = IF u = None THEN points
                     ELSE [points EXCEPT ![u] = @ - Least(call[r].bal, Penalty)]
        /\ ledger' = IF u = None THEN ledger ELSE ledger \cup {Fined(r)}
        /\ Save(call[r].chore, [inst[call[r].chore] EXCEPT !.state = "OVERDUE",
                                                         !.fined = TRUE])
        /\ IF call[r].todo = {} THEN Return(r) ELSE Go(r, "bill")
        /\ UNCHANGED offer

PenaltyStep(r) == FineList(r) \/ FineBalance(r) \/ Fine(r)
=============================================================================
