------------------------------- MODULE Leaderboard -------------------------------
(***************************************************************************)
(* The reset of the leaderboard at the start of a period, which every      *)
(* dashboard request checks for before it reads the summary.               *)
(***************************************************************************)
EXTENDS Naturals

CONSTANTS Viewers,      \* dashboard requests, each made once
          LastPeriod,   \* bound: periods (weeks, months or quarters) of a run
          MaxEarned     \* bound: points that are credited in a period

ASSUME LeaderboardAssumption == LastPeriod \in Nat \ {0} /\ MaxEarned \in Nat

VARIABLES period,       \* the period of the clock
          board,        \* leaderboardPoints of the household, by the period they were earned in
          lastReset,    \* lastLeaderboardResetAt, as the period it lies in
          viewer        \* Viewers -> where the request is, its time and what it showed

leaderboard == <<period, board, lastReset, viewer>>

Periods == 1..LastPeriod
Empty == [p \in Periods |-> 0]

LeaderboardInit ==
    /\ period = 1 /\ lastReset = 0
    /\ board = Empty
    /\ viewer = [v \in Viewers |-> [at |-> "new", now |-> 0, shown |-> Empty]]

LeaderboardTypeOK ==
    /\ period \in Periods /\ lastReset \in 0..LastPeriod
    /\ board \in [Periods -> 0..MaxEarned]
    /\ \A v \in Viewers : viewer[v].shown \in [Periods -> 0..MaxEarned]

Credited ==
    /\ board[period] < MaxEarned
    /\ board' = [board EXCEPT ![period] = @ + 1]
    /\ UNCHANGED <<period, lastReset, viewer>>

NewPeriod == period < LastPeriod /\ period' = period + 1 /\ UNCHANGED <<board, lastReset, viewer>>

\* checkAndReset reads the settings and compares with the start of its period.
\* (CheckLate: as if a reset in the period before would do.)
CheckLate(v) ==
    /\ viewer[v].at = "new"
    /\ viewer' = [viewer EXCEPT ![v].now = period,
                    ![v].at = IF lastReset + 1 >= period THEN "read" ELSE "reset"]
    /\ UNCHANGED <<period, board, lastReset>>
Check(v) ==
    /\ viewer[v].at = "new"
    /\ viewer' = [viewer EXCEPT ![v].now = period,
                    ![v].at = IF lastReset >= period THEN "read" ELSE "reset"]
    /\ UNCHANGED <<period, board, lastReset>>

\* Its transaction: everybody's points to zero, and the time the check was made.
Reset(v) ==
    /\ viewer[v].at = "reset"
    /\ board' = Empty
    /\ lastReset' = viewer[v].now
    /\ viewer' = [viewer EXCEPT ![v].at = "read"]
    /\ UNCHANGED period

ReadSummary(v) ==
    /\ viewer[v].at = "read"
    /\ viewer' = [viewer EXCEPT ![v].at = "done", ![v].shown = board]
    /\ UNCHANGED <<period, board, lastReset>>

LeaderboardNext ==
    \/ Credited \/ NewPeriod
    \/ \E v \in Viewers : Check(v) \/ Reset(v) \/ ReadSummary(v)

LeaderboardSpec == LeaderboardInit /\ [][LeaderboardNext]_leaderboard

\* A summary never shows points from before the period it was asked in, however
\* late the resets of other requests come.
FreshBoard ==
    \A v \in Viewers : viewer[v].at = "done" =>
        \A p \in Periods : p < viewer[v].now => viewer[v].shown[p] = 0
==================================================================================
