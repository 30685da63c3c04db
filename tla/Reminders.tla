-------------------------------- MODULE Reminders --------------------------------
(***************************************************************************)
(* A pass of the reminder worker: the holiday blocks that start and end    *)
(* today, the chores that are due, the daily summary and the bookings of   *)
(* the day, each read as a list that is then gone through.  What makes a   *)
(* notice come once is a look at the notifications before it is added.     *)
(* (The expiry of takeover requests, its last part, is in TakeoverRequests.)*)
(***************************************************************************)
EXTENDS Passes, Holidays

CONSTANTS Parents, Bookings

VARIABLE booked         \* Bookings -> the day of an approved exclusive booking

Stages == <<"started", "ended", "due", "summary", "booking">>

Topic(kind, about, to) == [kind |-> kind, about |-> about, to |-> to]

\* The look for a notice that is there already: by what it is about, the summary by
\* its day and the booking by both.
\* (ToldMember: as if what goes to all members was not looked for.)
ToldMember(topic, now) ==
    \E i \in 1..Len(notes) :
        /\ notes[i].kind = topic.kind
        /\ topic.kind # "summary" => notes[i].about = topic.about
        /\ topic.kind = "summary" => notes[i].day = now
        /\ notes[i].to = topic.to
Told(topic, now) ==
    \E i \in 1..Len(notes) :
        /\ notes[i].kind = topic.kind
        /\ topic.kind # "summary" => notes[i].about = topic.about
        /\ topic.kind \in {"summary", "booking"} => notes[i].day = now
        /\ topic.to # None => notes[i].to = topic.to

\* What each part of the pass lists.
DueNow(now) == {c \in Chores : chore[c].state = "open" /\ chore[c].due <= now + 1}
HasSummary(m, now) ==
    \/ \E c \in Chores : chore[c].who = m /\ chore[c].state # "done" /\ chore[c].due <= now
    \/ m \in Parents /\ \E c \in Chores : chore[c].state = "pending"
Candidates(stage, now) ==
    CASE stage = "started" -> {Topic(stage, b, None) : b \in
                {x \in Blocks : Exists(x) /\ ~block[x].applied /\ block[x].start = now}}
      [] stage = "ended" -> {Topic(stage, b, None) : b \in
                {x \in Blocks : block[x].applied /\ block[x].end = now - 1}}
      [] stage = "due" -> {Topic(IF chore[c].due <= now THEN "overdue" ELSE "soon", c, chore[c].who) :
                c \in DueNow(now)}
      [] stage = "summary" -> {Topic(stage, now, m) : m \in {x \in Members : HasSummary(x, now)}}
      [] stage = "booking" -> {Topic(stage, k, None) : k \in {x \in Bookings : booked[x] = now}}

reminders == <<passes, holidays, rows, booked>>
PassOnly == UNCHANGED <<rows, flight, work, faults, holidays, booked>>

\* A pass: the part it is in, the time and the answer of the policy it works with,
\* what it still has to deal with, and what it deals with now.
NoTopic == Topic("none", None, None)
NothingSeen == [b \in Blocks |-> NoBlock]
Pass(ok) ==
    [at |-> "list", stage |-> 1, now |-> today, allowed |-> ok, seen |-> NothingSeen,
     todo |-> {}, cur |-> NoTopic, to |-> {}, email |-> "SKIPPED", note |-> 0, aims |-> {}]
Ended == [at |-> "over"]

\* The policy is asked for every tenant, and the pass's time is taken.
Plan(p) ==
    /\ work = "remind" /\ At(p, "begin")
    /\ \E ok \in BOOLEAN : Goes(p, Pass(ok))
    /\ PassOnly

\* The next part lists what it is about; the summary only at its hour.  Without the
\* policy's consent the pass ends after the holiday blocks.
ListPart(p) ==
    /\ At(p, "list")
    /\ LET j == job[p]
           stage == Stages[j.stage]
       IN IF j.stage > 2 /\ ~j.allowed THEN Goes(p, Ended)
          ELSE \E s \in {Candidates(stage, j.now)} \cup (IF stage = "summary" THEN {{}} ELSE {}) :
                   Goes(p, [j EXCEPT !.at = "pick", !.todo = s,
                               !.seen = IF stage = "started" THEN block ELSE NothingSeen])
    /\ PassOnly
PartOver(p) ==
    /\ At(p, "pick") /\ job[p].todo = {}
    /\ Goes(p, IF job[p].stage = Len(Stages) THEN Ended
               ELSE [job[p] EXCEPT !.at = "list", !.stage = @ + 1])
    /\ PassOnly

Skip(p, x) == [job[p] EXCEPT !.todo = @ \ {x}]
Deal(p, x, place) == [Skip(p, x) EXCEPT !.at = place, !.cur = x]
Dealt(p) == [job[p] EXCEPT !.at = "pick", !.cur = NoTopic, !.email = "SKIPPED", !.note = 0, !.aims = {}]

\* One of the list: a block starts; a notice is added unless somebody was told.
Pick(p, x) ==
    /\ At(p, "pick") /\ x \in job[p].todo
    /\ Goes(p, IF x.kind = "started"
               THEN Deal(p, x, IF job[p].seen[x.about].defer THEN "defer" ELSE "apply")
               ELSE IF Told(x, job[p].now) \/ ~job[p].allowed THEN Skip(p, x)
               ELSE Deal(p, x, IF x.to = None THEN "members" ELSE "weigh"))
    /\ PassOnly

\* A block is started as the pass has read it: the chores first, then the mark, by
\* id.  A block that is gone ends the pass.
Defer(p) ==
    /\ At(p, "defer")
    /\ DueAfter(job[p].now, job[p].seen[job[p].cur.about])
    /\ Goes(p, [job[p] EXCEPT !.at = "apply"])
    /\ UNCHANGED <<rows, flight, work, faults, block, ask, booked>>
Apply(p) ==
    /\ At(p, "apply")
    /\ LET b == job[p].cur.about
       IN IF Exists(b)
          THEN /\ block' = [block EXCEPT ![b].applied = TRUE]
               /\ Goes(p, IF job[p].allowed THEN [job[p] EXCEPT !.at = "members"] ELSE Dealt(p))
          ELSE Goes(p, Ended) /\ UNCHANGED block
    /\ UNCHANGED <<rows, flight, work, faults, chore, ask, booked>>

\* recordNotification up to its insert: the preferences, the policy and the limit
\* (either ends the pass), and how the recipient can be reached.
Weigh(p) ==
    /\ At(p, "weigh")
    /\ LET m == job[p].cur.to
       IN Goes(p, IF ~ShouldSend(job[p].cur.kind, m) THEN Dealt(p)
                  ELSE IF Len(notes) >= MonthlyLimit THEN Ended
                  ELSE [job[p] EXCEPT !.at = "insert", !.to = {m}, !.email = FallbackFor(m)])
    /\ PassOnly
\* notifyAllMembers and the booking reminder: every member, and no e-mail.
ListMembers(p) ==
    /\ At(p, "members")
    /\ Goes(p, [job[p] EXCEPT !.at = "insert", !.to = Members])
    /\ PassOnly

Insert(p, m) ==
    /\ At(p, "insert") /\ m \in job[p].to
    /\ Inserted(Note(job[p].cur.kind, job[p].cur.about, m, job[p].email))
    /\ Goes(p, [job[p] EXCEPT !.at = "aim", !.to = @ \ {m}, !.note = Len(notes) + 1])
    /\ UNCHANGED <<today, device, muted, flight, work, faults, holidays, booked>>

\* The recipient's devices are read, and then the deliveries are created; a device
\* that is gone in between breaks the foreign key and ends the pass.
NextMember(p) == IF job[p].to = {} THEN Dealt(p) ELSE [job[p] EXCEPT !.at = "insert"]
Aim(p) ==
    /\ At(p, "aim")
    /\ LET aims == Deliverable(notes[job[p].note].to)
       IN Goes(p, IF aims = {} THEN NextMember(p)
                  ELSE [job[p] EXCEPT !.at = "queue", !.aims = aims])
    /\ PassOnly
Queue(p) ==
    /\ At(p, "queue")
    /\ IF \E d \in job[p].aims : device[d] = Absent
       THEN Goes(p, Ended) /\ UNCHANGED notes
       ELSE Aimed(job[p].note, job[p].aims) /\ Goes(p, NextMember(p))
    /\ UNCHANGED <<today, device, muted, flight, work, faults, holidays, booked>>

ReminderStep(p) ==
    \/ Plan(p) \/ ListPart(p) \/ PartOver(p) \/ Defer(p) \/ Apply(p)
    \/ Weigh(p) \/ ListMembers(p) \/ Aim(p) \/ Queue(p)
    \/ \E x \in IF At(p, "pick") THEN job[p].todo ELSE {} : Pick(p, x)
    \/ \E m \in Members : Insert(p, m)

\* Nobody is told the same thing twice: the look before a notice is added is as
\* good as a lock, because the passes that look never overlap.
OneNoticePerTopic ==
    \A i, j \in 1..Len(notes) :
        /\ notes[i].kind = notes[j].kind /\ notes[i].about = notes[j].about
        /\ notes[i].to = notes[j].to
        /\ notes[i].kind \notin {"test", "targeted"}
        => i = j
=================================================================================
