------------------------------- MODULE Background -------------------------------
(***************************************************************************)
(* The background work of the server, composed: the workers beside what    *)
(* members and administrators do to notifications, devices, holidays and   *)
(* chores, and the leaderboard.  `scene` is the part that is looked at; it *)
(* is chosen at the start.                                                 *)
(***************************************************************************)
EXTENDS Delivery, Reminders, Leaderboard

CONSTANT Scenes         \* the initial states: records of what is stored

Workers == {"push", "mail", "remind"}

\* What a notification can be about, and the stored ones.
Matters == Members \cup Devices \cup Blocks \cup Chores \cup Bookings \cup {None} \cup Nat
NoticeRows == [kind : NoteKinds, about : Matters, to : Members, email : MailStates,
               day : Nat, push : [Devices -> PushStates]]

\* Rows that earlier passes can have left on the first day: nobody was told twice,
\* nor of the day's bookings and the start of a block too early, and the blocks
\* that were applied have started and cleared their days.
Sound(s) ==
    /\ s.notes \in Seq(NoticeRows)
    /\ s.device \in [Devices -> {Absent} \cup [owner : Members, ready : BOOLEAN]]
    /\ s.muted \subseteq Members
    /\ s.block \in [Blocks -> BlockRows] /\ s.chore \in [Chores -> ChoreRows]
    /\ s.booked \in [Bookings -> Nat]
    /\ \A i, j \in 1..Len(s.notes) :
        /\ s.notes[i].kind = s.notes[j].kind /\ s.notes[i].about = s.notes[j].about
        /\ s.notes[i].to = s.notes[j].to
        /\ s.notes[i].kind \notin {"test", "targeted"}
        => i = j
    /\ \A i \in 1..Len(s.notes) :
        LET about == s.notes[i].about
            kind == s.notes[i].kind
        IN /\ s.notes[i].day <= 1
           /\ kind = "summary" => about \in Nat /\ about <= s.notes[i].day
           /\ kind = "booking" => about \in Bookings /\ s.booked[about] <= s.notes[i].day
           /\ kind = "started" => about \in Blocks /\ (s.block[about].applied \/ s.block[about] = Deleted)
    /\ \A b \in Blocks : s.block[b].applied =>
        /\ s.block[b].start <= 1
        /\ s.block[b].defer => \A c \in Chores :
               s.chore[c].state = "open" => s.chore[c].due \notin s.block[b].start..s.block[b].end

\* The workers are called by their callers.
ASSUME ScenesAssumption ==
    \A s \in Scenes : Sound(s) /\ (s.work \in Workers => s.callers \subseteq Callers)

VARIABLE scene

vars == <<scene, rows, passes, sends, holidays, booked, leaderboard>>

Init ==
    /\ PassesInit /\ DeliveryInit /\ LeaderboardInit
    /\ scene \in Scenes
    /\ work = scene.work
    /\ today = 1
    /\ notes = scene.notes
    /\ device = scene.device
    /\ muted = scene.muted
    /\ block = scene.block
    /\ chore = scene.chore
    /\ booked = scene.booked
    /\ ask = [a \in Askers |-> Quiet]

BackgroundTypeOK ==
    /\ FlightTypeOK /\ NoticesTypeOK /\ HolidaysTypeOK /\ LeaderboardTypeOK
    /\ \A p \in Callers : At(p, "off") <=> active # p

\* The workers' passes and what runs them.
Worker ==
    /\ work \in Workers
    /\ \/ /\ \/ \E c \in scene.callers : RunOnce(c)
             \/ PassOver
             \/ "crash" \in scene.people /\ Crash
             \/ \E e \in Endpoints : RunForTenant(e) \/ TenantPassOver(e)
          /\ UNCHANGED <<sends, holidays, booked>>
       \/ \E p \in Runners : DeliveryStep(p) /\ UNCHANGED <<holidays, booked>>
       \/ \E p \in Runners : ReminderStep(p) /\ UNCHANGED sends
    /\ UNCHANGED <<scene, leaderboard>>

\* What people do meanwhile, to the rows that the workers use; the scene says which
\* of it.
Settings ==
    /\ \/ "delete" \in scene.people /\ \E d \in Devices : DeleteDevice(d)
       \/ "register" \in scene.people
          /\ \E d \in Devices, m \in Members : RegisterDevice(d, m, TRUE)
       \/ "mute" \in scene.people /\ \E m \in Members : Mute(m)
       \/ "tests" \in scene.people /\ Len(notes) < MaxNotes
          /\ \/ \E m \in Members : SendTest(m)
             \/ \E d \in Devices : SendTargetedTest(d)
    /\ UNCHANGED <<sends, holidays>>
Home ==
    /\ \/ "days" \in scene.people /\ Midnight
       \/ "chores" \in scene.people /\ \E c \in Chores : ChoreGoesOn(c)
       \/ "blocks" \in scene.people /\ \E a \in Askers : HolidayCall(a)
    /\ UNCHANGED sends
Requests ==
    /\ \/ Settings \/ Home
       \/ "retry" \in scene.people /\ (\E i \in 1..MaxNotes : Retry(i)) /\ UNCHANGED holidays
    /\ UNCHANGED <<scene, passes, booked, leaderboard>>

Board ==
    /\ work = "board"
    /\ \/ LeaderboardNext
       \/ (\A v \in Viewers : viewer[v].at = "done") /\ UNCHANGED leaderboard  \* no more requests
    /\ UNCHANGED <<scene, rows, passes, sends, holidays, booked>>

Next == Worker \/ Requests \/ Board
Spec == Init /\ [][Next]_vars

\* The interval timer calls runOnce for ever, and nothing but an end of the process
\* stops the running loop.
GoesOn == \/ PassOver /\ UNCHANGED sends
          \/ \E c \in Callers : DeliveryStep(c)
Timer == \E c \in scene.callers : RunOnce(c) /\ UNCHANGED sends
Aside == UNCHANGED <<scene, holidays, booked, leaderboard>>
FairSpec == Spec /\ WF_vars(GoesOn /\ Aside) /\ WF_vars(Timer /\ Aside)
=================================================================================
