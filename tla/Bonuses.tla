-------------------------------- MODULE Bonuses --------------------------------
(***************************************************************************)
(* What an approved chore earns beside its points: the perfect day, the    *)
(* achievements, mastery of the template, and the points of helpers.  All  *)
(* of it is worked out by the service after the repository has answered,   *)
(* statement by statement, for every approval that returns: also for one   *)
(* that lost to another.  A call works out achievements beside mastery, in *)
(* rows of their own; one order stands for all.  The chores are due on one *)
(* day and of one template.  A credit and its ledger entry are one step    *)
(* here; what may come between them is in ChoreSettlement.                 *)
(***************************************************************************)
EXTENDS Naturals, FiniteSets

CONSTANTS Doers,            \* members of the household
          Grown,            \* those of them that are no children
          Tasks,             \* chore instances
          Approvals,        \* calls, numbered in the order in which they begin
          Level1, Level2,   \* masteryLevel1Threshold, masteryLevel2Threshold
          Goal              \* completions that the achievement takes

ASSUME BonusesAssumption ==
    /\ Level1 \in Nat /\ Level2 \in Nat /\ Goal \in Nat \ {0}
    /\ Grown \subseteq Doers /\ Approvals \subseteq Nat

VARIABLES task,         \* Tasks -> state and assignee
          helping,      \* rows of ChoreInstanceCoCompleter: [task, who, role]
          mastery,      \* Doers -> completionCount and masteryLevel
          earned,       \* Doers -> kind of achievement -> progress and timesEarned
          perfectDays,  \* Doers -> rows of milestone.perfect_day for the day
          approval,     \* Approvals -> where the call is
          completions   \* history: Doers -> evaluations begun

bonuses == <<task, helping, mastery, earned, perfectDays, approval, completions>>

Blocking == {"active", "pending"}       \* perfectDayBlockingStates
Achievements == {"chores", "perfect"}          \* the achievements that count; one may repeat
Repeats(k) == k = "perfect"
GoalOf(k) == IF k = "perfect" THEN 1 ELSE Goal
Least(m, n) == IF m < n THEN m ELSE n
Waits == [at |-> "idle"]
Resting(a) == approval[a].at \in {"idle", "done"}

BonusesTypeOK ==
    /\ \A j \in Tasks : task[j].state \in {"active", "pending", "done"} /\ task[j].who \in Doers
    /\ \A h \in helping : h.task \in Tasks /\ h.who \in Doers
    /\ \A u \in Doers : mastery[u].level \in 0..2
    /\ \A u \in Doers, k \in Achievements : earned[u][k].progress \in 0..GoalOf(k)

BonusesInit ==
    /\ helping = {}
    /\ mastery = [u \in Doers |-> [count |-> 0, level |-> 0]]
    /\ earned = [u \in Doers |-> [k \in Achievements |-> [progress |-> 0, times |-> 0]]]
    /\ perfectDays = [u \in Doers |-> 0]
    /\ approval = [a \in Approvals |-> Waits]
    /\ completions = [u \in Doers |-> 0]

Turns(a, next) == approval' = [approval EXCEPT ![a] = next]
GoesTo(a, place) == Turns(a, [approval[a] EXCEPT !.at = place])
Returned == [at |-> "done"]
Starts(a, next) ==
    /\ approval[a] = Waits /\ \A b \in Approvals : b < a => approval[b] # Waits
    /\ Turns(a, next)
    /\ UNCHANGED <<task, helping, mastery, earned, perfectDays, completions>>

\* A child hands a chore in (submitInstance).
HandIn(j) ==
    /\ task[j].state = "active"
    /\ task' = [task EXCEPT ![j].state = "pending"]
    /\ UNCHANGED <<helping, mastery, earned, perfectDays, approval, completions>>

\* approveInstance of a chore that is handed in, and submitInstance of a parent; the
\* latter gives neither mastery nor points to helpers.
Work(a, j, kind) ==
    Starts(a, [at |-> "review", kind |-> kind, task |-> j, who |-> task[j].who])
ApproveRead(a, j) == task[j].state = "pending" /\ Work(a, j, "approve")
SubmitRead(a, j) == task[j].state # "done" /\ Work(a, j, "submit")

\* The one that completes the chore looks at the day; one that finds it completed is
\* answered as a duplicate, and goes on all the same; a submit beside a hand-in fails.
Review(a) ==
    /\ approval[a].at = "review"
    /\ LET j == approval[a].task
           takes == IF approval[a].kind = "approve" THEN "pending" ELSE "active"
       IN \/ /\ task[j].state = takes
             /\ task' = [task EXCEPT ![j].state = "done"] /\ GoesTo(a, "clear")
          \/ /\ task[j].state # takes
             /\ Turns(a, IF task[j].state = "done" THEN [approval[a] EXCEPT !.at = "progress"]
                         ELSE Returned)
             /\ UNCHANGED task
    /\ UNCHANGED <<helping, mastery, earned, perfectDays, completions>>

\* tryCreatePerfectDayMilestone: none of the member's chores is left; the day has not
\* been recorded; it is recorded.  (DayClearAll: as if
\* the chores of everybody counted.)
DayClearAll(a) ==
    /\ approval[a].at = "clear"
    /\ GoesTo(a, IF \E j \in Tasks : task[j].state \in Blocking THEN "progress" ELSE "day")
    /\ UNCHANGED <<task, helping, mastery, earned, perfectDays, completions>>
DayClear(a) ==
    /\ approval[a].at = "clear"
    /\ GoesTo(a, IF \E j \in Tasks : task[j].who = approval[a].who /\ task[j].state \in Blocking
                 THEN "progress" ELSE "day")
    /\ UNCHANGED <<task, helping, mastery, earned, perfectDays, completions>>
DayFind(a) ==
    /\ approval[a].at = "day"
    /\ GoesTo(a, IF perfectDays[approval[a].who] > 0 THEN "progress" ELSE "record")
    /\ UNCHANGED <<task, helping, mastery, earned, perfectDays, completions>>
DayRecord(a) ==
    /\ approval[a].at = "record"
    /\ perfectDays' = [perfectDays EXCEPT ![approval[a].who] = @ + 1]
    /\ Turns(a, [at |-> "progress", kind |-> approval[a].kind, task |-> approval[a].task,
                who |-> approval[a].who, perfect |-> TRUE])
    /\ UNCHANGED <<task, helping, mastery, earned, completions>>

\* evaluateForUser: the progress is read; then each achievement that this completion
\* advances is written, with the progress that was read and one more, and paid.
Advances(a) ==
    {k \in Achievements :
        /\ k = "perfect" => "perfect" \in DOMAIN approval[a]
        /\ Repeats(k) \/ earned[approval[a].who][k].times = 0}
ProgressRead(a) ==
    /\ approval[a].at = "progress"
    /\ completions' = [completions EXCEPT ![approval[a].who] = @ + 1]
    /\ Turns(a, [at |-> "achieve", kind |-> approval[a].kind, task |-> approval[a].task,
                who |-> approval[a].who, read |-> earned[approval[a].who], todo |-> Advances(a)])
    /\ UNCHANGED <<task, helping, mastery, earned, perfectDays>>
Advanced(k, old, row) ==
    LET progress == Least(old.progress + 1, GoalOf(k))
        unlocks == progress >= GoalOf(k)
    IN [progress |-> IF unlocks /\ Repeats(k) /\ old.times > 0 THEN 0 ELSE progress,
        times |-> IF unlocks THEN row.times + 1 ELSE row.times]
Achieve(a, k) ==
    /\ approval[a].at = "achieve" /\ k \in approval[a].todo
    /\ earned' = [earned EXCEPT ![approval[a].who][k] = Advanced(k, approval[a].read[k], @)]
    /\ Turns(a, [approval[a] EXCEPT !.todo = @ \ {k}])
    /\ UNCHANGED <<task, helping, mastery, perfectDays, completions>>
Achieved(a) ==
    /\ approval[a].at = "achieve" /\ approval[a].todo = {}
    /\ Turns(a, IF approval[a].kind = "submit" THEN Returned
               ELSE [approval[a] EXCEPT !.at = "master", !.todo = {approval[a].who}])
    /\ UNCHANGED <<task, helping, mastery, earned, perfectDays, completions>>

\* evaluateMasteryAfterApproval: the completion is counted by the database, which
\* returns the row; a level that is reached is written, and level 2 is paid for.
\* (LevelOf1: as if one threshold served both levels.)
LevelOf1(count, level) == IF level < 2 /\ count >= Level1 THEN 2 ELSE level
LevelOf(count, level) ==
    IF level < 2 /\ count >= Level2 THEN 2
    ELSE IF level < 1 /\ count >= Level1 THEN 1 ELSE level
MasteryCount(a, u) ==
    /\ approval[a].at = "master" /\ u \in approval[a].todo
    /\ LET count == mastery[u].count + 1
           level == LevelOf(count, mastery[u].level)
       IN /\ mastery' = [mastery EXCEPT ![u].count = count]
          /\ Turns(a, IF level > mastery[u].level
                     THEN [approval[a] EXCEPT !.at = "level", !.read = [to |-> level, of |-> u]]
                     ELSE [approval[a] EXCEPT !.todo = @ \ {u}])
    /\ UNCHANGED <<task, helping, earned, perfectDays, completions>>
MasteryLevel(a) ==
    /\ approval[a].at = "level"
    /\ LET level == approval[a].read.to
           u == approval[a].read.of
       IN /\ mastery' = [mastery EXCEPT ![u].level = level]
          /\ Turns(a, [approval[a] EXCEPT !.at = "master", !.todo = @ \ {u}])
    /\ UNCHANGED <<task, helping, earned, perfectDays, completions>>

\* The helpers of the chore are read and paid, and their mastery is evaluated.
HelpersOf(j) == {h.who : h \in {x \in helping : x.task = j /\ x.role = "helper"}}
PayHelpers(a) ==
    /\ approval[a].at = "master" /\ approval[a].todo = {}
    /\ Turns(a, IF approval[a].kind = "approve"
               THEN [approval[a] EXCEPT !.kind = "helpers", !.todo = HelpersOf(approval[a].task)]
               ELSE Returned)
    /\ UNCHANGED <<task, helping, mastery, earned, perfectDays, completions>>

\* joinAsCoCompleter and leaveAsCoCompleter; the pair of chore and member is unique.
JoinRead(a, j, u) ==
    /\ task[j].state = "active" /\ task[j].who # u
    /\ Starts(a, [at |-> "join", row |-> [task |-> j, who |-> u, role |-> "helper"]])
SuperviseRead(a, j, u) ==
    /\ \A h \in helping : h.task = j => h.role # "supervisor"
    /\ Starts(a, [at |-> "join", row |-> [task |-> j, who |-> u, role |-> "supervisor"]])
Join(a) ==
    /\ approval[a].at = "join"
    /\ LET row == approval[a].row
       IN helping' = IF \E h \in helping : h.task = row.task /\ h.who = row.who THEN helping
                     ELSE helping \cup {row}
    /\ Turns(a, Returned)
    /\ UNCHANGED <<task, mastery, earned, perfectDays, completions>>
Leave(j, u) ==
    /\ \E h \in helping : h.task = j /\ h.who = u
    /\ helping' = {h \in helping : ~(h.task = j /\ h.who = u)}
    /\ UNCHANGED <<task, mastery, earned, perfectDays, approval, completions>>

Approving(a) ==
    \/ Review(a) \/ DayClear(a) \/ DayFind(a) \/ DayRecord(a)
    \/ ProgressRead(a) \/ (\E k \in Achievements : Achieve(a, k)) \/ Achieved(a)
    \/ (\E u \in Doers : MasteryCount(a, u)) \/ MasteryLevel(a) \/ PayHelpers(a)
Helping(a) ==
    \/ \E j \in Tasks : (\E u \in Doers : JoinRead(a, j, u)) \/ \E u \in Grown : SuperviseRead(a, j, u)
    \/ Join(a)
BonusesNext(calls) ==
    \/ \E a \in {b \in Approvals : b < 3 \/ "third" \in calls} :
          \/ Approving(a)
          \/ \E j \in Tasks : ApproveRead(a, j)
          \/ "submit" \in calls /\ \E j \in Tasks : SubmitRead(a, j)
          \/ "help" \in calls /\ Helping(a)
    \/ \E j \in Tasks : HandIn(j) \/ \E u \in Doers : Leave(j, u)

\* The completion that clears a member's day records it, however completions of the
\* day overlap: once nothing is under way, a finished day is on record.
PerfectDayNotMissed ==
    \A u \in Doers :
        /\ \E j \in Tasks : task[j].who = u
        /\ \A j \in Tasks : task[j].who = u => task[j].state = "done"
        /\ \A a \in Approvals : Resting(a) \/ approval[a].at = "join" \/ approval[a].who # u
        => perfectDays[u] > 0

\* Lost updates take from a member, they never give: a level and an achievement are
\* backed by as many completions as they ask for, whichever threshold is the higher.
BonusesDeserved ==
    \A u \in Doers :
        /\ mastery[u].level = 1 => mastery[u].count >= Level1
        /\ mastery[u].level = 2 => mastery[u].count >= Level2
        /\ earned[u]["chores"].times > 0 => completions[u] >= Goal
        /\ earned[u]["perfect"].times <= perfectDays[u]
================================================================================
