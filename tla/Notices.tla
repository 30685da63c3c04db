-------------------------------- MODULE Notices --------------------------------
(***************************************************************************)
(* The rows behind a notification: the notification itself with the state  *)
(* of its e-mail, one push delivery for each device it is aimed at, the    *)
(* members' devices and preferences.  Other modules write them: Reminders  *)
(* and Holidays add notices, Delivery sends them.                          *)
(***************************************************************************)
EXTENDS Naturals, Sequences, FiniteSets

CONSTANTS Members, Devices,
          None,             \* null
          MonthlyLimit,     \* notifications the tenant's plan allows in a month
          MailWorks         \* whether SMTP is configured and members have addresses

ASSUME NoneAssumption == None \notin Members \cup Devices

VARIABLES today,
          notes,        \* the notifications, oldest first
          device,       \* Devices -> its owner and whether a push can be sent to it
          muted         \* members that turned the reminders off

rows == <<today, notes, device, muted>>

PushStates == {"NONE", "PENDING", "SENT", "FAILED"}
MailStates == {"SKIPPED", "PENDING", "SENT", "FAILED"}
Absent == [owner |-> None, ready |-> FALSE]

Mutable == {"soon", "overdue", "summary", "test"}   \* what a member can turn off
NoteKinds == Mutable \cup {"started", "ended", "booking", "targeted"}

NoticesTypeOK ==
    /\ \A i \in 1..Len(notes) :
        /\ notes[i].to \in Members
        /\ notes[i].email \in MailStates
        /\ notes[i].push \in [Devices -> PushStates]
    /\ device \in [Devices -> [owner : Members \cup {None}, ready : BOOLEAN]]
    /\ muted \subseteq Members

\* The devices a push for m can be sent to (a token and notifications enabled).
Deliverable(m) == {d \in Devices : device[d].owner = m /\ device[d].ready}

\* The e-mail is the fallback of a member that no push can reach.
FallbackFor(m) ==
    IF Deliverable(m) = {} /\ MailWorks THEN "PENDING" ELSE "SKIPPED"

ShouldSend(kind, m) == ~(kind \in Mutable /\ m \in muted)

\* A new notification, and the deliveries of one that has been created.
Note(kind, about, to, email) ==
    [kind |-> kind, about |-> about, to |-> to, email |-> email,
     day |-> today, push |-> [d \in Devices |-> "NONE"]]
Inserted(note) == notes' = Append(notes, note)
Aimed(i, targets) ==
    notes' = [notes EXCEPT ![i].push =
                 [d \in Devices |-> IF d \in targets THEN "PENDING" ELSE @[d]]]

\* registerNotificationDevice: the installation is added, or passes to the member
\* that registers it, with its deliveries.
RegisterDevice(d, m, ready) ==
    /\ device[d] # [owner |-> m, ready |-> ready]
    /\ device' = [device EXCEPT ![d] = [owner |-> m, ready |-> ready]]
    /\ UNCHANGED <<today, notes, muted>>

\* deleteNotificationDevice: the device's deliveries go with it (cascade).
DeleteDevice(d) ==
    /\ device[d] # Absent
    /\ device' = [device EXCEPT ![d] = Absent]
    /\ notes' = [i \in 1..Len(notes) |-> [notes[i] EXCEPT !.push[d] = "NONE"]]
    /\ UNCHANGED <<today, muted>>

\* updateNotificationPreferences
Mute(m) == muted' = (muted \ {m}) \cup ({m} \ muted) /\ UNCHANGED <<today, notes, device>>

\* createAdminTestNotification: the notification and its deliveries are one
\* transaction; a muted member gets none, a full month refuses it.
SendTest(m) ==
    /\ ShouldSend("test", m) /\ Len(notes) < MonthlyLimit
    /\ notes' = Append(notes, [Note("test", m, m, FallbackFor(m)) EXCEPT
                 !.push = [d \in Devices |-> IF d \in Deliverable(m) THEN "PENDING" ELSE "NONE"]])
    /\ UNCHANGED <<today, device, muted>>

\* enqueueTargetedDeviceTestPush: to one device, ready or not, whatever is muted.
SendTargetedTest(d) ==
    /\ device[d] # Absent /\ Len(notes) < MonthlyLimit
    /\ notes' = Append(notes, [Note("targeted", d, device[d].owner, "SKIPPED") EXCEPT
                 !.push[d] = "PENDING"])
    /\ UNCHANGED <<today, device, muted>>

\* retryFailedPushDelivery and retryFailedEmailDelivery
RetryPush(i, d) ==
    /\ notes[i].push[d] = "FAILED"
    /\ notes' = [notes EXCEPT ![i].push[d] = "PENDING"]
    /\ UNCHANGED <<today, device, muted>>
RetryEmail(i) ==
    /\ notes[i].email = "FAILED"
    /\ notes' = [notes EXCEPT ![i].email = "PENDING"]
    /\ UNCHANGED <<today, device, muted>>
================================================================================
