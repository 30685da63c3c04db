------------------------------ MODULE Rebalancing ------------------------------
(***************************************************************************)
(* rebalanceFlexibleAssignments: the last thing most chore calls do.  It   *)
(* reads the flexible chores once, then reassigns them one update at a     *)
(* time, by id alone: what has happened to a chore since the read is       *)
(* overwritten.                                                            *)
(***************************************************************************)
EXTENDS ChoreStore

\* The calls that end with a rebalancing of the household, and
\* the ones among them that leave the chore they have just placed out of it.
Rebalancers == {"submit", "approve", "start", "takeOver", "update", "cancel",
                "closeCycle", "create", "accept"}
Excluding == {"start", "takeOver", "update", "create", "accept"}

Flexible == {c \in Existing : /\ inst[c].state \in {"OPEN", "ASSIGNED"}
                              /\ ~inst[c].locked
                              /\ inst[c].tmpl # None}

\* The candidates whose due time is beyond the freeze window and whose
\* assignment the strategy will want to change: any of the flexible chores.
Candidates(r) ==
    IF call[r].op \in Excluding THEN Flexible \ {call[r].chore} ELSE Flexible

ReadCandidates(r) ==
    /\ At(r, Rebalancers, "flex")
    /\ \E S \in SUBSET Candidates(r) :
          IF S = {} THEN Return(r)
          ELSE Becomes(r, [call[r] EXCEPT !.at = "sweep", !.todo = S])
    /\ UNCHANGED <<inst, offer, points, ledger>>

Reassign(r) ==
    /\ At(r, Rebalancers, "sweep")
    /\ \E c \in call[r].todo \cap Chores, u \in Maybe(Users) :
        /\ Save(c, [inst[c] EXCEPT !.assignee = u, !.state = AssignedState(u),
                                   !.locked = FALSE])
        /\ Visited(r, c)
    /\ UNCHANGED <<offer, points, ledger>>

Rebalance(r) == ReadCandidates(r) \/ Reassign(r)
=============================================================================
