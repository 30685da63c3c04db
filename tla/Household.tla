------------------------------- MODULE Household -------------------------------
(***************************************************************************)
(* The chores of one household under all the calls that change them, at    *)
(* the same time: settlement, editing, takeover requests, overdue          *)
(* penalties and the rebalancing that follows most of them.                *)
(***************************************************************************)
EXTENDS ChoreSettlement, ChoreEditing, TakeoverRequests, OverduePenalties, Rebalancing

\* One statement of call r.
Step(r) == Settlement(r) \/ Editing(r) \/ TakeoverStep(r) \/ PenaltyStep(r) \/ Rebalance(r)

\* Every call has returned, has broken off or never comes.
Quiet ==
    /\ \A r \in Requests : call[r].failed \/ call[r].at \in {"idle", "done"}
    /\ UNCHANGED vars

Next ==
    \/ \E r \in Requests : (Step(r) \/ Break(r)) /\ Track
    \/ Quiet

Spec == Init /\ [][Next]_vars

\* A call that has arrived runs on to its end unless it breaks off: the event
\* loop resumes every awaited statement.  Nobody is obliged to call.
Progress(r) == call[r].at # "idle" /\ Step(r) /\ Track
FairSpec == Spec /\ \A r \in Requests : WF_vars(Progress(r))

-----------------------------------------------------------------------------
(* Safety                                                                    *)

Completions == {e \in ledger : e.kind = "completion"}

\* A completion of a chore is paid once, however many submits and approvals of
\* it are retried or run at the same time: two ledger entries never answer the
\* same state change of the same chore.
PaidOncePerCompletion ==
    \A d, e \in Completions : d.chore = e.chore /\ d.rev = e.rev => d = e

\* What the ledger says of u, and the credits whose entry is still to be written.
Balance(u) == MapThenSumSet(LAMBDA e : e.amount, {e \in ledger : e.user = u})
Owed(u) == Award * Cardinality({r \in Requests : call[r].at = "ledger" /\ call[r].to = u})

\* The balance of each member is what the ledger says, but for the credits that
\* are still to be recorded: completions, takeovers and fines all leave a trace.
PointsAccountedFor == \A u \in Users : points[u] = Owed(u) + Balance(u)

\* The completions whose winner has not written its entry yet.
Owing == {r \in Requests : call[r].at \in {"credit", "ledger"}}
Promised == {[chore |-> call[r].chore, rev |-> call[r].won] : r \in Owing}
Promises == INSTANCE CompletionPromises WITH owed <- Promised, receipts <- Completions

\* Settlement implements its promise: each completion is promised by the one
\* update that wins it, and the ledger meets the promise once or never; no call
\* pays without a win, or twice for one.
KeepsPromises == Promises!Spec

\* A completion creates the follow-up of each template once and the next
\* occurrence once.
SucceededOncePerCompletion ==
    \A c, d \in Existing :
        /\ inst[c].born.kind \in {"followUp", "renewal"}
        /\ inst[c].born = inst[d].born
        => c = d

\* The chores of an occurrence hang under one root, which cancel-occurrence
\* looks them up by, and share its cycle, which close-cycle looks them up by.
OccurrenceTree ==
    \A c \in Existing :
        LET top == inst[c].root
        IN  /\ top \in Existing /\ inst[top].root = top
            /\ inst[top].cycle # None => inst[c].cycle = inst[top].cycle

\* What a child hands in waits for a review: a chore is completed only by the
\* call of an adult.
ChildNeverCompletes ==
    [][\A c \in Existing :
          inst'[c].state = "COMPLETED" /\ inst[c].state # "COMPLETED" =>
          \E r \in Requests : call'[r] # call[r] /\ call[r].actor \in Adults]_vars

\* When an offer is accepted its chore passes to the invited member, locked, in
\* the same step, and no other offer of the chore stays open.
HandoverIsAtomic ==
    [][\A o \in Offers :
          offer'[o].status = "APPROVED" /\ offer[o].status # "APPROVED" =>
          LET row == inst'[offer[o].chore]
          IN  /\ row.assignee = offer[o].to /\ row.state = "ASSIGNED" /\ row.locked
              /\ \A p \in Offers : offer'[p].chore = offer[o].chore
                                   => offer'[p].status # "PENDING"]_vars

-----------------------------------------------------------------------------
(* Liveness                                                                  *)

\* Every call returns: no sweep goes on for ever and no call waits for another.
EveryCallReturns ==
    \A r \in Requests : call[r].at # "idle" ~> call[r].at = "done"

\* Whoever wins a chore is paid for it in the ledger, and a repeating chore
\* gets the next occurrence of the very completion that was paid.
EveryWinSettles ==
    \A r \in Requests :
        /\ call[r].at = "credit" ~> \E e \in Completions : e.by = r
        /\ (call[r].at = "credit" /\ Renews(r)) ~>
           \E e \in Completions, c \in Existing :
              /\ e.by = r
              /\ inst[c].born = [from |-> e.chore, rev |-> e.rev, kind |-> "renewal",
                                 of |-> inst[c].born.of]

-----------------------------------------------------------------------------
(* What the documents and messages say and the races break                   *)

\* "Takeover penalty deductions never drive a member's point balance below zero."
BalanceNeverNegative == \A u \in Users : points[u] >= 0

\* "Every point transaction is recorded in the points ledger": while no call is
\* about to write an entry, the ledger explains every balance.
LedgerExplainsBalances ==
    (\A r \in Requests : call[r].at = "ledger" => call[r].failed) =>
    \A u \in Users : points[u] = Balance(u)

\* "Automatic rebalancing only touches flexible chores: state is still open or
\* assigned, assignment is not manually locked."
RebalancingTouchesOnlyFlexible ==
    [][\A r \in Requests, c \in Chores :
          call[r].at = "sweep" /\ call'[r] # call[r] /\ inst'[c] # inst[c]
          => c \in Flexible]_vars

\* "Cancelling a repeating chore cancels every still-open chore in that repeat
\* and stops future repeats": once a close-cycle call has written, no new row of
\* the cycle appears.
ClosedCycleStaysClosed ==
    [][\A r \in Requests, c, d \in Chores :
          /\ call[r].op = "closeCycle" /\ call[r].at \in {"flex", "sweep"}
          /\ call[r].chore = c
          /\ inst[d].state = "ABSENT" /\ inst'[d].state # "ABSENT"
          => inst'[d].cycle # inst[c].cycle]_vars
=============================================================================
