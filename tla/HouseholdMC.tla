------------------------------ MODULE HouseholdMC ------------------------------
(***************************************************************************)
(* Small households for TLC.                                               *)
(***************************************************************************)
EXTENDS Household

CONSTANTS ann, bob, kim,        \* two parents and a child
          c1, c2, c3, c4, c5, c6, o1, o2, o3, r1, r2, r3,
          wash, dry             \* a weekly chore and its follow-up

Plain(c, state, u) ==
    [Blank EXCEPT !.state = state, !.assignee = u, !.tmpl = dry, !.root = c]
Weekly(c, state, u, left) ==
    [Plain(c, state, u) EXCEPT !.tmpl = wash, !.recurs = TRUE, !.left = left, !.cycle = c]
HandedIn(c, u) == [Plain(c, "PENDING_APPROVAL", u) EXCEPT !.submitter = u]

Rows(f) == [c \in Chores |-> IF c \in DOMAIN f THEN f[c] ELSE Blank]
Stored(f, n) == [inst |-> Rows(f), points |-> [u \in Users |-> n]]

\* takeoverPointsDelta: a price for asking, a reward for accepting.
Price == -1
Reward == 1

DryAfterWash == [t \in Templates |-> IF t = wash THEN {dry} ELSE {}]
NoFollowUps == [t \in Templates |-> {}]

\* Homes to start from: one chore at each stage, a repeating chore, two chores.
OneChore ==
    {Stored([c \in {c1} |-> row], 1) :
        row \in {Plain(c1, "OPEN", None), Plain(c1, "ASSIGNED", kim), HandedIn(c1, kim)}}
OpenChore == {Stored([c \in {c1} |-> Plain(c1, "OPEN", None)], 1)}
RepeatingChore ==
    {Stored([c \in {c1} |-> Weekly(c1, "ASSIGNED", ann, n)], 0) : n \in {-1, 1}}
TwoChores ==
    {Stored([c \in {c1, c2} |-> Plain(c, "ASSIGNED", ann)], n) : n \in {0, 1}}

TwoRepeats ==
    {Stored([c \in {c1, c2} |->
        IF c = c1 THEN [Weekly(c, "PENDING_APPROVAL", kim, 1) EXCEPT !.submitter = kim]
                  ELSE Weekly(c, "ASSIGNED", kim, 0)], 1)}
=============================================================================
