--------------------------- MODULE CompletionPromises ---------------------------
(***************************************************************************)
(* What settlement promises, whatever calls bring it about: a completion   *)
(* of a chore is a promise to pay, met by one receipt.  It may be waived   *)
(* (there is nobody to pay) or stay open (the server stopped), but it is   *)
(* not made again while it is open or once it is met, and nothing is paid  *)
(* that was not promised.                                                  *)
(***************************************************************************)
VARIABLES
    owed,       \* promises [chore, rev] that are not met yet
    receipts    \* records with at least the fields chore and rev

Answers(e, p) == e.chore = p.chore /\ e.rev = p.rev

Init == owed = {} /\ receipts = {}

\* The completion p, which is neither promised nor paid, is promised.
Complete ==
    /\ \E p \in owed' \ owed :
        /\ owed' = owed \cup {p}
        /\ \A e \in receipts : ~Answers(e, p)
    /\ UNCHANGED receipts

\* An open promise p is met by the receipt e.
Pay ==
    \E p \in owed, e \in receipts' \ receipts :
        /\ Answers(e, p)
        /\ owed' = owed \ {p}
        /\ receipts' = receipts \cup {e}

Waive ==
    /\ \E p \in owed : owed' = owed \ {p}
    /\ UNCHANGED receipts

Next == Complete \/ Pay \/ Waive

Spec == Init /\ [][Next]_<<owed, receipts>>
=============================================================================
