-------------------------------- MODULE Delivery --------------------------------
(***************************************************************************)
(* The push and the e-mail delivery worker.  A pass lists the oldest       *)
(* pending deliveries, and for each one asks the tenant policy, sends, and *)
(* then marks the row by its id: what it sends is not claimed first.       *)
(***************************************************************************)
EXTENDS Passes

CONSTANTS Limit,        \* deliveries in a pass
          Policies,     \* outcomes of the tenant policy: {TRUE}, {FALSE} or BOOLEAN
          MaxNotes,     \* bound: notifications of a run
          MaxRetries    \* bound: deliveries an administrator asks for again

ASSUME DeliveryAssumption == MaxNotes \in Nat

VARIABLES sent,         \* history: sends of a delivery since it was last queued
          retries       \* history: how often a delivery was asked for again

sends == <<sent, retries>>

\* A delivery is a notification with a device, or with no device for the e-mail.
Deliveries == (1..MaxNotes) \X (Devices \cup {None})

DeliveryInit == sent = [x \in Deliveries |-> 0] /\ retries = 0

Status(x) == IF x[2] = None THEN notes[x[1]].email ELSE notes[x[1]].push[x[2]]
Pending == {x \in Deliveries :
              /\ work = IF x[2] = None THEN "mail" ELSE "push"
              /\ x[1] <= Len(notes) /\ Status(x) = "PENDING"}

Marked(x, status) ==
    notes' = IF x[2] = None THEN [notes EXCEPT ![x[1]].email = status]
             ELSE [notes EXCEPT ![x[1]].push[x[2]] = status]

\* The oldest pending deliveries, at most Limit.
Oldest(s) == \A x \in s, y \in Pending \ s : x[1] <= y[1]
Listed == {s \in SUBSET Pending :
             /\ Oldest(s) /\ Cardinality(s) <= Limit
             /\ Cardinality(s) < Limit => s = Pending}

\* getPendingPushDeliveries, getPendingEmailNotifications; an endpoint may ask for a
\* single delivery (getPendingPushDeliveryById).
List(p) ==
    /\ work \in {"push", "mail"} /\ At(p, "begin")
    /\ \E s \in Listed \cup (IF p \in Endpoints THEN {{x} : x \in Pending} ELSE {}) :
           Goes(p, IF s = {} THEN [at |-> "over"] ELSE [at |-> "send", todo |-> s])
    /\ UNCHANGED <<rows, flight, work, faults, sends>>

Next1(p, x) == x \in job[p].todo /\ \A y \in job[p].todo : x[1] <= y[1]
To(p, x, got) ==
    Goes(p, [at |-> "mark", todo |-> job[p].todo, item |-> x, got |-> got])

\* The policy blocks the delivery; an e-mail is not needed any more, or cannot be
\* sent.
Refuse(p, x) ==
    /\ At(p, "send") /\ Next1(p, x)
    /\ \/ FALSE \in Policies
       \/ x[2] = None /\ (~MailWorks \/ Deliverable(notes[x[1]].to) # {})
    /\ To(p, x, IF x[2] = None THEN "SKIPPED" ELSE "FAILED")
    /\ UNCHANGED <<rows, flight, work, faults, sends>>

\* deliver and sendMail: what was sent may still be answered with an error, and an
\* e-mail that was sent counts as failed when it cannot be marked.
Send(p, x) ==
    /\ At(p, "send") /\ Next1(p, x)
    /\ TRUE \in Policies
    /\ x[2] = None => MailWorks /\ Deliverable(notes[x[1]].to) = {}
    /\ \E got \in {"SENT", "FAILED"} : To(p, x, got)
    /\ sent' = [sent EXCEPT ![x] = @ + 1]
    /\ UNCHANGED <<rows, flight, work, faults, retries>>

\* markPushDeliverySent and its like: by id, whatever the row's status is now.  The
\* row of a deleted device is gone: the pass throws.
\* (MarkSent: as if a failure left the delivery in the queue.)
MarkSent(p) ==
    /\ At(p, "mark")
    /\ LET x == job[p].item
           rest == job[p].todo \ {x}
       IN IF Status(x) = "NONE" THEN Throws(p) /\ UNCHANGED notes
          ELSE /\ IF job[p].got = "SENT" THEN Marked(x, job[p].got) ELSE UNCHANGED notes
               /\ Goes(p, IF rest = {} THEN [at |-> "over"] ELSE [at |-> "send", todo |-> rest])
               /\ UNCHANGED <<flight, work, faults>>
    /\ UNCHANGED <<today, device, muted, sends>>
Mark(p) ==
    /\ At(p, "mark")
    /\ LET x == job[p].item
           rest == job[p].todo \ {x}
       IN IF Status(x) = "NONE" THEN Throws(p) /\ UNCHANGED notes
          ELSE /\ Marked(x, job[p].got)
               /\ Goes(p, IF rest = {} THEN [at |-> "over"] ELSE [at |-> "send", todo |-> rest])
               /\ UNCHANGED <<flight, work, faults>>
    /\ UNCHANGED <<today, device, muted, sends>>

\* An administrator asks for a failed delivery again.
Retry(i) ==
    /\ i <= Len(notes) /\ work \in {"push", "mail"}
    /\ retries < MaxRetries /\ retries' = retries + 1
    /\ \/ \E d \in Devices : RetryPush(i, d) /\ sent' = [sent EXCEPT ![<<i, d>>] = 0]
       \/ RetryEmail(i) /\ sent' = [sent EXCEPT ![<<i, None>>] = 0]
    /\ UNCHANGED passes

DeliveryStep(p) ==
    \/ List(p) \/ Mark(p)
    \/ \E x \in Deliveries : Refuse(p, x) \/ Send(p, x)

\* Whatever overlaps, a delivery is sent once for each time it is queued, and once
\* more at most for each end of the process and each tenant pass that ran beside
\* the worker's own.
EverySendAccounted ==
    \A x \in Deliveries :
        sent[x] <= 1 + faults + Cardinality({e \in Endpoints : ~At(e, "unused")})

\* What is queued leaves the queue: no delivery stays pending for ever.
QueueDrains == \A x \in Deliveries : (x \in Pending) ~> (x \notin Pending)
=================================================================================
