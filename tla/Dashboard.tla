------------------------------- MODULE Dashboard -------------------------------
(***************************************************************************)
(* The board that one session shows, and how it follows the household: the *)
(* event stream of the server, which keeps and replays nothing, and the    *)
(* refreshes and answers of the client.  Three clients share the server:   *)
(* the client workspace of the web ("web"), its admin workspace, which     *)
(* does not listen to the stream ("admin"), and the Android app ("phone"), *)
(* which alone refreshes one at a time.  Tokens stay valid here.           *)
(***************************************************************************)
EXTENDS Naturals

CONSTANTS Family,           \* members of the household
          Young,            \* those of them that are children
          Nobody,
          MaxRev,           \* bound: changes of chores in a run
          MaxOffice,        \* bound: changes of the rest in a run
          MaxRefreshes      \* bound: refreshes of one client at a time

ASSUME DashboardAssumption ==
    Young \subseteq Family /\ Nobody \notin Family /\ {MaxRev, MaxOffice, MaxRefreshes} \subseteq Nat

VARIABLES client,   \* which client the session runs in
          house,    \* what the server stores: a chore, the other chores, the rest
          unsent,   \* whether another member's call has written and not published yet
          user,     \* whose token the client holds, or Nobody
          stream,   \* "closed", "asking" or "open"
          news,     \* events in flight to the client
          fetches,  \* Slots -> the refresh under way there, or NoFetch
          queued,   \* refreshQueued of the app
          shown,    \* the payload on the screen, or Blank
          own,      \* the user's own call
          strayed   \* history: what may have put the board wrong; see Strays

dashboard == <<client, house, unsent, user, stream, news, fetches, queued, shown, own, strayed>>

\* What a handler of the client does.  "act" and "edit" change chores or templates,
\* which the server publishes; "order" and "set" change the rest: settings, members,
\* rewards, devices, notifications.  After "act" and "order" the client refreshes;
\* "edit" and "set" put the answer in its place on the board.
ChoreActs == {"submit", "complete external", "release", "snooze"}
ReviewActs == {"quick log", "review", "approve takeover", "request takeover"}
CancelActs == {"cancel occurrence", "cancel series"}
TemplateEdits == {"save template"}
ChoreEdits == {"save instance"}
StateEdits == {"cancel instance", "start instance"}
ResetEdits == {"delete template", "reset templates"}
DueEdits == {"save due date"}
HolidayOrders == {"create holiday", "delete holiday", "end holiday"}
WorkerOrders == {"overdue penalties", "maintenance", "test notification"}
RetryOrders == {"retry push", "retry email"}
MemberOrders == {"update member"}
RewardSets == {"save reward", "toggle reward", "delete reward"}
RedemptionSets == {"redeem", "approve redemption", "reject redemption", "reschedule"}
SettingSets == {"save settings", "save preferences", "complete onboarding", "save profile"}
NoticeSets == {"delete device", "mark read", "mark all read", "create member"}

Handlers ==
    [act |-> ChoreActs \cup ReviewActs \cup CancelActs,
     edit |-> TemplateEdits \cup ChoreEdits \cup StateEdits \cup ResetEdits \cup DueEdits,
     order |-> HolidayOrders \cup WorkerOrders \cup RetryOrders \cup MemberOrders,
     set |-> RewardSets \cup RedemptionSets \cup SettingSets \cup NoticeSets]

\* The app refreshes after every change of chores.
Kinds == IF client = "phone" THEN DOMAIN Handlers \ {"edit"} ELSE DOMAIN Handlers
Publishes == {"act", "edit"}
PutInPlace == {"edit", "set"}

Slots == 1..MaxRefreshes
Blank == [of |-> Nobody]
NoFetch == [at |-> "none", of |-> Nobody, pure |-> FALSE, got |-> Blank]
NoCall == [at |-> "free"]
UnderWay == {i \in Slots : fetches[i] # NoFetch}
Listens == client # "admin"
Phone == client = "phone"

\* What the server sends to u: a child is told no details of a chore of somebody
\* else when the household keeps them to itself.
HiddenUnassigned(h, u) == u \in Young /\ ~h.full /\ h.who = Nobody
Hidden(h, u) == u \in Young /\ ~h.full /\ h.who # u
View(h, u) ==
    [of |-> u, chore |-> h.chore, who |-> IF Hidden(h, u) THEN Nobody ELSE h.who,
     files |-> ~Hidden(h, u), rest |-> h.rest, office |-> h.office, full |-> h.full]

\* Whether u may fetch a file of the chore.
MayOpen(u) == u \in Young => house.full \/ house.who = u

DashboardTypeOK ==
    /\ client \in {"web", "admin", "phone"} /\ user \in Family \cup {Nobody}
    /\ house.chore \in 0..MaxRev /\ house.office \in 0..MaxOffice
    /\ stream \in {"closed", "asking", "open"} /\ news \in Nat
    /\ {unsent, queued, strayed} \subseteq BOOLEAN
    /\ \A i, j \in UnderWay : Phone => i = j
    /\ Phone \/ ~queued

DashboardInit ==
    /\ unsent = FALSE /\ user = Nobody /\ stream = "closed" /\ news = 0
    /\ fetches = [i \in Slots |-> NoFetch] /\ queued = FALSE /\ shown = Blank /\ own = NoCall /\ strayed = FALSE

-----------------------------------------------------------------------------
(* The history variable.  A board may stay wrong after one of these: a       *)
(* refresh failed; two refreshes overlapped, of which the older may answer   *)
(* last; an answer was put on the board beside a refresh, or after somebody  *)
(* else's change; a change was not published, or published while the client  *)
(* did not listen; the session ended with something under way.  A refresh    *)
(* that meets none of these puts it right.                                   *)

Impure == [i \in Slots |-> [fetches[i] EXCEPT !.pure = FALSE]]
Strays(why) ==
    /\ strayed' = (strayed \/ why)
    /\ fetches' = IF why THEN Impure ELSE fetches
Late == [own EXCEPT !.late = TRUE]
OwnIsLate == own' = IF own.at \in {"written", "answered"} THEN Late ELSE own

-----------------------------------------------------------------------------
(* Refreshing                                                                *)

Asked(u, alone) == [at |-> "asked", of |-> u, pure |-> alone, got |-> Blank]

BeginsRefresh(u) ==
    /\ \E i \in Slots \ UnderWay :
          /\ \A j \in Slots : j < i => j \in UnderWay
          /\ fetches' = [Impure EXCEPT ![i] = Asked(u, UnderWay = {})]
    /\ strayed' = (strayed \/ UnderWay # {} \/ u # user')
    /\ queued' = FALSE

RefreshOrSkip(u) ==
    IF Phone /\ UnderWay # {} THEN UNCHANGED <<queued, fetches, strayed>> ELSE BeginsRefresh(u)

\* The app leaves a note when a refresh is under way.
RequestRefresh(u) ==
    IF Phone /\ UnderWay # {}
    THEN queued' = TRUE /\ UNCHANGED <<fetches, strayed>>
    ELSE BeginsRefresh(u)

FetchReads(i) ==
    /\ fetches[i].at = "asked"
    /\ fetches' = [fetches EXCEPT ![i].at = "read", ![i].got = View(house, fetches[i].of)]
    /\ UNCHANGED <<client, house, unsent, user, stream, news, queued, shown, own, strayed>>

\* The app serves the note with the token of the refresh that has just ended.
FetchArrives(i) ==
    LET f == fetches[i] IN
    /\ f.at = "read"
    /\ shown' = f.got
    /\ strayed' = IF f.of # user THEN TRUE ELSE strayed /\ ~f.pure
    /\ fetches' = [fetches EXCEPT ![i] = IF queued THEN Asked(f.of, TRUE) ELSE NoFetch]
    /\ queued' = FALSE
    /\ UNCHANGED <<client, house, unsent, user, stream, news, own>>

\* The note of the app stays, and waits for the next refresh.
FetchFails(i) ==
    /\ i \in UnderWay
    /\ fetches' = [fetches EXCEPT ![i] = NoFetch] /\ strayed' = TRUE
    /\ UNCHANGED <<client, house, unsent, user, stream, news, queued, shown, own>>

-----------------------------------------------------------------------------
(* The server                                                                *)

ChangeChores ==
    /\ house.chore < MaxRev
    /\ \E w \in Family, more \in {house.rest, house.chore + 1} :
         house' = [house EXCEPT !.chore = @ + 1, !.who = w, !.rest = more]
ChangeOffice(by) ==
    /\ house.office < MaxOffice
    /\ \E open \in IF by \in Young THEN {house.full} ELSE BOOLEAN, more \in {house.rest, MaxRev + house.office + 1} :
         house' = [house EXCEPT !.office = @ + 1, !.full = open, !.rest = more]

\* Whoever listens gets the event; nobody gets it later.
PublishSyncEvent ==
    /\ news' = IF stream = "open" THEN news + 1 ELSE news
    /\ Strays(client = "web" /\ stream # "open")

OthersWrite ==
    /\ ~unsent /\ ChangeChores /\ unsent' = TRUE
    /\ OwnIsLate /\ Strays(~Listens)
    /\ UNCHANGED <<client, user, stream, news, queued, shown>>
OthersPublish ==
    /\ unsent /\ unsent' = FALSE /\ PublishSyncEvent
    /\ UNCHANGED <<client, house, user, stream, queued, shown, own>>
OthersSet ==
    /\ (\E u \in Family : ChangeOffice(u)) /\ OwnIsLate /\ Strays(TRUE)
    /\ UNCHANGED <<client, unsent, user, stream, news, queued, shown>>

Unserved == \E i \in Slots : fetches[i].at = "asked"
\* The process ends and is started again: what it has not answered is answered by
\* nobody.  The app asks for everything once it is connected again.
ServerRestarts ==
    /\ unsent' = FALSE /\ news' = 0
    /\ stream' = IF stream = "open" THEN "asking" ELSE stream
    /\ own' = IF own.at \in {"sent", "written"} THEN NoCall ELSE own
    /\ strayed' = (strayed \/ (~Phone /\ (Unserved \/ own.at = "written"))
                           \/ (client = "web" /\ (unsent \/ news > 0)))
    /\ fetches' = [i \in Slots |-> IF fetches[i].at = "read" THEN Impure[i] ELSE NoFetch]
    /\ UNCHANGED <<client, house, user, queued, shown>>

-----------------------------------------------------------------------------
(* The stream                                                                *)

\* The app refreshes whenever the stream opens; the web does not.
StreamOpens ==
    /\ stream = "asking" /\ stream' = "open"
    /\ news' = IF Phone THEN news + 1 ELSE news
    /\ UNCHANGED <<client, house, unsent, user, fetches, queued, shown, own, strayed>>
StreamDrops ==
    /\ stream = "open" /\ stream' = "asking" /\ news' = 0
    /\ Strays(client = "web" /\ news > 0)
    /\ UNCHANGED <<client, house, unsent, user, queued, shown, own>>
Hear ==
    /\ news > 0 /\ news' = news - 1
    /\ UNCHANGED user /\ RequestRefresh(user)
    /\ UNCHANGED <<client, house, unsent, stream, shown, own>>

\* A push message reaches the web client, or the app comes to the front.
Nudge ==
    /\ Listens /\ user # Nobody
    /\ UNCHANGED user /\ RequestRefresh(user)
    /\ UNCHANGED <<client, house, unsent, stream, news, shown, own>>

-----------------------------------------------------------------------------
(* The user's own calls                                                      *)

OwnCall(kind) ==
    /\ own = NoCall /\ user # Nobody
    /\ own' = [at |-> "sent", kind |-> kind, of |-> user, got |-> Blank, late |-> FALSE]
    /\ UNCHANGED <<client, house, unsent, user, stream, news, fetches, queued, shown, strayed>>

\* An answer that is put on the board shows what was changed, not what else the
\* change moved: that reaches those who listen, if it is published.
Unseen == own.kind \in PutInPlace /\ (own.kind = "set" \/ ~Listens)
OwnWrites ==
    /\ own.at = "sent"
    /\ IF own.kind \in Publishes THEN ChangeChores ELSE ChangeOffice(own.of)
    /\ own' = [own EXCEPT !.at = IF own.kind \in Publishes THEN "written" ELSE "answered",
                          !.got = View(house', own.of)]
    /\ Strays(Unseen /\ (UnderWay # {} \/ house'.rest # house.rest))
    /\ UNCHANGED <<client, unsent, user, stream, news, queued, shown>>
OwnPublishes ==
    /\ own.at = "written" /\ own' = [own EXCEPT !.at = "answered"]
    /\ PublishSyncEvent
    /\ UNCHANGED <<client, house, unsent, user, stream, queued, shown>>
OwnRefused ==
    /\ own.at = "sent" /\ own' = NoCall
    /\ UNCHANGED <<client, house, unsent, user, stream, news, fetches, queued, shown, strayed>>

\* The answer is lost: the web reports an error, the app calls once more and
\* gives up in the end.
OwnLost ==
    /\ own.at = "answered"
    /\ own' \in {NoCall} \cup (IF Phone THEN {[own EXCEPT !.at = "sent", !.got = Blank]} ELSE {})
    /\ Strays(own.kind \notin Publishes \/ ~Listens)
    /\ UNCHANGED <<client, house, unsent, user, stream, news, queued, shown>>

ShownAfresh ==
    /\ own.kind \notin PutInPlace
    /\ shown' = IF Phone /\ own.kind = "act" /\ shown # Blank
                THEN [shown EXCEPT !.chore = own.got.chore, !.who = own.got.who] ELSE shown
    /\ RequestRefresh(own.of)
ShownInPlace ==
    /\ own.kind \in PutInPlace
    /\ shown' = IF shown = Blank THEN Blank
                ELSE IF own.kind = "edit"
                THEN [shown EXCEPT !.chore = own.got.chore, !.who = own.got.who, !.files = own.got.files]
                ELSE [shown EXCEPT !.office = own.got.office, !.full = own.got.full]
    /\ Strays(own.late) /\ UNCHANGED queued
OwnAnswered ==
    /\ own.at = "answered" /\ own' = NoCall
    /\ UNCHANGED user /\ (ShownAfresh \/ ShownInPlace)
    /\ UNCHANGED <<client, house, unsent, stream, news>>

-----------------------------------------------------------------------------
(* The session                                                               *)

LogIn(u) ==
    /\ user = Nobody /\ user' = u
    /\ stream' = IF Listens THEN "asking" ELSE "closed"
    /\ RequestRefresh(u)
    /\ UNCHANGED <<client, house, unsent, news, shown, own>>

\* The app keeps what it last showed.
LogOut ==
    /\ user # Nobody /\ user' = Nobody
    /\ stream' = "closed" /\ news' = 0
    /\ shown' = IF Phone THEN shown ELSE Blank
    /\ own' = IF own = NoCall THEN NoCall ELSE Late
    /\ Strays(UnderWay # {} \/ own # NoCall)
    /\ UNCHANGED <<client, house, unsent, queued>>

\* The steps of a run in which the household and its user do only what is in some.
DashboardNext(some) ==
    \/ \E i \in Slots :
         FetchReads(i) \/ FetchArrives(i) \/ ("fail" \in some /\ FetchFails(i))
    \/ ("others" \in some /\ OthersWrite) \/ OthersPublish
    \/ ("settings" \in some /\ OthersSet)
    \/ ("restart" \in some /\ ServerRestarts)
    \/ StreamOpens \/ ("drop" \in some /\ StreamDrops) \/ Hear
    \/ ("nudge" \in some /\ Nudge)
    \/ (\E k \in Kinds \cap some : OwnCall(k))
    \/ OwnWrites \/ OwnPublishes \/ OwnAnswered
    \/ ("fail" \in some /\ (OwnRefused \/ OwnLost))
    \/ (\E u \in Family : LogIn(u)) \/ ("leave" \in some /\ LogOut)

-----------------------------------------------------------------------------
(* Safety                                                                    *)

Settled ==
    /\ user # Nobody /\ own = NoCall /\ ~unsent /\ news = 0 /\ UnderWay = {}
    /\ Listens => stream = "open"

\* A session at rest shows the household as it is, to the user that is logged in,
\* unless something that the client does not make good has happened since its last
\* undisturbed refresh.  Of the app, overlapping refreshes, missed events and
\* restarts of the server are no such thing.
BoardFollows == Settled /\ ~strayed => shown = View(house, user)

\* Every file that such a board offers can be fetched by its user.
ShownFilesOpen == Settled /\ ~strayed => (shown.files => MayOpen(user))
=================================================================================
