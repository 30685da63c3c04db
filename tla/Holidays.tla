-------------------------------- MODULE Holidays --------------------------------
(***************************************************************************)
(* Holiday blocks: the calls that create, delete and end them, and what    *)
(* the start of one does to the chores that are due inside it.  Days are   *)
(* those of a household whose time zone is UTC.                            *)
(***************************************************************************)
EXTENDS Notices

CONSTANTS Blocks, Chores,
          Askers,       \* calls of the holiday endpoints, each made once
          LastDay       \* bound: the days of a run are 1..LastDay

ASSUME LastDayAssumption == LastDay \in Nat \ {0}

VARIABLES block,        \* Blocks -> the stored block, NoBlock or Deleted
          chore,        \* Chores -> state, assignee and due day of the household's chores
          ask           \* Askers -> the call: where it is and what it has read

holidays == <<block, chore, ask>>

Days == 1..LastDay + 2
NoBlock == [start |-> 0, end |-> 0, defer |-> FALSE, applied |-> FALSE]
Deleted == [NoBlock EXCEPT !.defer = TRUE]      \* its id is not used again
Quiet == [at |-> "unused"]

BlockRows == [start : 0..LastDay + 1, end : 0..LastDay + 1, defer : BOOLEAN, applied : BOOLEAN]
ChoreRows == [state : {"open", "pending", "done"}, who : Members, due : 0..LastDay + 2]

HolidaysTypeOK ==
    /\ today \in 1..LastDay
    /\ block \in [Blocks -> BlockRows]
    /\ chore \in [Chores -> ChoreRows]

Exists(b) == block[b] \notin {NoBlock, Deleted}
Overlaps(b, from, until) == Exists(b) /\ block[b].start <= until /\ block[b].end >= from
Deferrable(c) == chore[c].state = "open"
Inside(c, b) == chore[c].due \in block[b].start..block[b].end

Asks(a, next) == ask' = [ask EXCEPT ![a] = next]

\* createBlock: the dates and the overlap are checked, then the block is inserted.
CreateRead(a, from, until, mode) ==
    /\ ask[a] = Quiet
    /\ from >= today /\ until > from
    /\ \A b \in Blocks : ~Overlaps(b, from, until)
    /\ Asks(a, [at |-> "create", row |-> [start |-> from, end |-> until,
                                          defer |-> mode, applied |-> FALSE]])
    /\ UNCHANGED <<rows, block, chore>>
CreateWrite(a, b) ==
    /\ ask[a].at = "create" /\ block[b] = NoBlock
    /\ block' = [block EXCEPT ![b] = ask[a].row]
    /\ Asks(a, [at |-> "done"])
    /\ UNCHANGED <<rows, chore>>

\* deleteBlock: a block that has started is refused, then the row is deleted by id.
DeleteRead(a, b) ==
    /\ ask[a] = Quiet /\ Exists(b) /\ ~block[b].applied
    /\ Asks(a, [at |-> "delete", id |-> b])
    /\ UNCHANGED <<rows, block, chore>>
DeleteWrite(a) ==
    /\ ask[a].at = "delete"
    /\ block' = [block EXCEPT ![ask[a].id] = Deleted]
    /\ Asks(a, [at |-> "done"])
    /\ UNCHANGED <<rows, chore>>

\* endBlockEarly: an active block ends on the day the call has read; one that was
\* deleted meanwhile makes the update throw.
EndRead(a, b) ==
    /\ ask[a] = Quiet /\ block[b].applied
    /\ today \in block[b].start..block[b].end
    /\ Asks(a, [at |-> "end", id |-> b, day |-> today])
    /\ UNCHANGED <<rows, block, chore>>
EndWrite(a) ==
    /\ ask[a].at = "end"
    /\ block' = IF Exists(ask[a].id) THEN [block EXCEPT ![ask[a].id].end = ask[a].day] ELSE block
    /\ Asks(a, [at |-> "done"])
    /\ UNCHANGED <<rows, chore>>

\* processBlockStart of a DEFER block: the open chores that are due from today to
\* its end move to the day after it.
\* (DueToEnd: as if they moved to its last day.)
DueToEnd(from, row) ==
    chore' = [c \in Chores |->
                IF Deferrable(c) /\ chore[c].due \in from..row.end
                THEN [chore[c] EXCEPT !.due = row.end] ELSE chore[c]]
DueAfter(from, row) ==
    chore' = [c \in Chores |->
                IF Deferrable(c) /\ chore[c].due \in from..row.end
                THEN [chore[c] EXCEPT !.due = row.end + 1] ELSE chore[c]]

\* The household lives on: a chore is done, handed in, or passes to another member.
ChoreGoesOn(c) ==
    /\ chore[c].state # "done"
    /\ \/ chore' = [chore EXCEPT ![c].state = "done"]
       \/ chore[c].state = "open" /\ chore' = [chore EXCEPT ![c].state = "pending"]
       \/ \E m \in Members \ {chore[c].who} : chore' = [chore EXCEPT ![c].who = m]
    /\ UNCHANGED <<rows, block, ask>>

Midnight == today < LastDay /\ today' = today + 1
            /\ UNCHANGED <<notes, device, muted, block, chore, ask>>

HolidayCall(a) ==
    \/ \E from \in 1..LastDay, until \in 1..LastDay + 1, mode \in BOOLEAN :
           CreateRead(a, from, until, mode)
    \/ \E b \in Blocks : CreateWrite(a, b) \/ DeleteRead(a, b) \/ EndRead(a, b)
    \/ DeleteWrite(a) \/ EndWrite(a)

\* Once a block that defers has been applied, no chore that is still open is due
\* inside it: a pass that stops between the two writes does the first again.
DeferralClears ==
    \A b \in Blocks, c \in Chores :
        block[b].applied /\ block[b].defer /\ Deferrable(c) => ~Inside(c, b)
=================================================================================
