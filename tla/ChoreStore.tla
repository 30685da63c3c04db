------------------------------ MODULE ChoreStore ------------------------------
(***************************************************************************)
(* The PostgreSQL rows that the chore endpoints of the TaskBandit server   *)
(* share, and the HTTP calls that read and write them.                     *)
(*                                                                         *)
(* A call is a process.  Every Prisma statement it awaits is a step of its *)
(* own, except the statements of one $transaction, which are one step from *)
(* their first write on: at READ COMMITTED the others see them together.   *)
(* What a call read stays in its record until it is used, so every check   *)
(* can be stale by the time the call acts on it.                           *)
(***************************************************************************)
EXTENDS Integers, FiniteSetsExt

CONSTANTS
    Users,          \* members of the household
    Adults,         \* those with the role ADMIN or PARENT
    Chores,         \* pool of ChoreInstance rows
    Offers,         \* pool of ChoreTakeoverRequest rows
    Templates,      \* chore templates
    Recurring,      \* templates whose recurrence type is not NONE
    FollowUps,      \* follow-up templates of each template
    Requests,       \* one-shot HTTP calls and worker passes
    Ops,            \* operations that this instance may call
    Award,          \* points of a completed chore
    Penalty,        \* points of an overdue chore
    Delta,          \* takeoverPointsDelta of the household settings
    Households,     \* the stored households a run may start from
    MaxFailures,    \* bound: calls that may break off half-way
    None            \* SQL NULL

OpNames == {"submit", "external", "approve", "reject", "start", "takeOver",
            "release", "snooze", "cancel", "cancelOccurrence", "closeCycle",
            "update", "create", "quickLog", "list", "ask", "accept", "decline",
            "expire", "fine"}

States == {"ABSENT", "OPEN", "ASSIGNED", "IN_PROGRESS", "DEFERRED",
           "PENDING_APPROVAL", "NEEDS_FIXES", "COMPLETED", "OVERDUE", "CANCELLED"}
Statuses == {"ABSENT", "PENDING", "APPROVED", "DECLINED", "CANCELLED"}
Places == {"idle", "write", "reread", "credit", "ledger", "follow", "renew",
           "flex", "sweep", "offers", "pending", "balance", "bill", "done"}
BirthKinds == {"none", "created", "followUp", "renewal", "reissue"}

Maybe(S) == S \cup {None}

\* A chore row.  left is the number of renewals still allowed, -1 for a repeat
\* without a count.  born is a history field: the completion or cancellation
\* (chore and revision) that made the row, and the template it was made for.
Birth == [from: Maybe(Chores), rev: Nat, kind: BirthKinds, of: Maybe(Templates)]
Row == [state: States, assignee: Maybe(Users), locked: BOOLEAN,
        submitter: Maybe(Users), tmpl: Maybe(Templates), recurs: BOOLEAN,
        left: Int, cycle: Maybe(Chores), root: Maybe(Chores),
        fined: BOOLEAN, born: Birth]
Unborn == [from |-> None, rev |-> 0, kind |-> "none", of |-> None]
Created == [Unborn EXCEPT !.kind = "created"]
Blank == [state |-> "ABSENT", assignee |-> None, locked |-> FALSE,
          submitter |-> None, tmpl |-> None, recurs |-> FALSE, left |-> -1,
          cycle |-> None, root |-> None, fined |-> FALSE, born |-> Unborn]

Offer == [chore: Maybe(Chores), from: Maybe(Users), to: Maybe(Users), status: Statuses]
NoOffer == [chore |-> None, from |-> None, to |-> None, status |-> "ABSENT"]

\* A PointsLedgerEntry; by, kind and rev are history: the call that wrote it,
\* what it was for and the revision of the chore it answers.
EntryKinds == {"opening", "completion", "takeover", "fine"}
Entry == [by: Maybe(Requests), chore: Maybe(Chores), user: Users, amount: Int,
          kind: EntryKinds, rev: Nat]

\* What a call remembers: its arguments, the row it read, the revision its
\* conditional update made, the rows it still has to visit, the balance it read.
Items == Chores \cup Offers \cup (Chores \X Maybe(Users))
Call == [op: Maybe(OpNames), at: Places, actor: Maybe(Users), chore: Maybe(Chores),
         offer: Maybe(Offers), to: Maybe(Users), row: Row, won: Nat,
         todo: SUBSET Items, bal: Int, failed: BOOLEAN]
Idle == [op |-> None, at |-> "idle", actor |-> None, chore |-> None,
         offer |-> None, to |-> None, row |-> Blank, won |-> 0,
         todo |-> {}, bal |-> 0, failed |-> FALSE]
Returned == [Idle EXCEPT !.at = "done"]

\* A stored household: where its chores came from is not known any more.
Household == [inst: [Chores -> {row \in Row : row.born = Unborn}], points: [Users -> Nat]]

ASSUME PeopleAssumption == Adults \subseteq Users
ASSUME TemplateAssumption ==
    /\ Recurring \subseteq Templates
    /\ FollowUps \in [Templates -> SUBSET Templates]
ASSUME NumberAssumption ==
    /\ Award \in Nat /\ Penalty \in Nat /\ Delta \in Int /\ MaxFailures \in Nat
ASSUME OpsAssumption == Ops \subseteq OpNames
ASSUME NoneAssumption ==
    None \notin Users \cup Chores \cup Offers \cup Templates \cup Requests \cup OpNames
ASSUME HouseholdAssumption == Households \subseteq Household

VARIABLES
    inst,       \* ChoreInstance rows
    offer,      \* ChoreTakeoverRequest rows
    points,     \* User.points
    ledger,     \* PointsLedgerEntry rows
    call,       \* the calls in progress
    rev         \* history: how often the state of each chore has changed

vars == <<inst, offer, points, ledger, call, rev>>

TypeOK ==
    /\ inst \in [Chores -> Row]
    /\ offer \in [Offers -> Offer]
    /\ points \in [Users -> Int]
    /\ ledger \subseteq Entry
    /\ call \in [Requests -> Call]
    /\ rev \in [Chores -> Nat]

Opening(u, n) == [by |-> None, chore |-> None, user |-> u, amount |-> n,
                  kind |-> "opening", rev |-> 0]

Init ==
    /\ \E h \in Households :
        /\ inst = h.inst
        /\ points = h.points
        /\ ledger = {Opening(u, h.points[u]) : u \in Users}
    /\ offer = [o \in Offers |-> NoOffer]
    /\ call = [r \in Requests |-> Idle]
    /\ rev = [c \in Chores |-> 0]

-----------------------------------------------------------------------------
(* Rows and sets of rows.                                                    *)

Closed == {"COMPLETED", "CANCELLED"}
Settled == {"COMPLETED", "CANCELLED", "PENDING_APPROVAL"}
Existing == {c \in Chores : inst[c].state # "ABSENT"}
Least(a, b) == IF a < b THEN a ELSE b

\* An id nobody has used: randomUUID, or the primary key default.
Fresh == CHOOSE c \in Chores \ Existing : TRUE
FreshOffer == CHOOSE o \in Offers : offer[o].status = "ABSENT"

\* Row states after an assignment decision: ASSIGNED with an assignee, else OPEN.
AssignedState(u) == IF u = None THEN "OPEN" ELSE "ASSIGNED"

\* Pending offers on the chores of S are cancelled, the others are kept.
Cancelled(S) ==
    [o \in Offers |-> IF offer[o].status = "PENDING" /\ offer[o].chore \in S
                      THEN [offer[o] EXCEPT !.status = "CANCELLED"]
                      ELSE offer[o]]

-----------------------------------------------------------------------------
(* The life of a call.                                                       *)

At(r, ops, place) == call[r].op \in ops /\ call[r].at = place /\ ~call[r].failed

\* A call of user u that has done its first read; its next statement is place.
Begin(op, u, place) ==
    [Idle EXCEPT !.op = op, !.actor = u, !.at = place]
MayBegin(r, op) == op \in Ops /\ call[r].at = "idle"

Becomes(r, rec) == call' = [call EXCEPT ![r] = rec]
Go(r, place) == Becomes(r, [call[r] EXCEPT !.at = place])
Return(r) == Becomes(r, Returned)

\* A call of user u on chore c whose first checks have passed.
Checked(r, op, u, c, place) == Becomes(r, [Begin(op, u, place) EXCEPT !.chore = c])

\* The call goes on with the rest of its list, or returns at its end.
\* (LoopedOn: as if the end of the list went unnoticed.)
LoopedOn(r, item) == Becomes(r, [call[r] EXCEPT !.todo = @ \ {item}])
Visited(r, item) ==
    IF call[r].todo = {item} THEN Return(r)
    ELSE Becomes(r, [call[r] EXCEPT !.todo = @ \ {item}])

\* The row of chore c is written.
Save(c, row) == inst' = [inst EXCEPT ![c] = row]

\* An awaited statement throws, or the server stops: the call never resumes.
Break(r) ==
    /\ call[r].at \notin {"idle", "done"}
    /\ ~call[r].failed
    /\ Cardinality({s \in Requests : call[s].failed}) < MaxFailures
    /\ Becomes(r, [call[r] EXCEPT !.failed = TRUE])
    /\ UNCHANGED <<inst, offer, points, ledger>>

\* The history of state changes is kept beside every step.
Track == rev' = [c \in Chores |-> IF inst'[c].state = inst[c].state
                                  THEN rev[c] ELSE rev[c] + 1]
=============================================================================
