--------------------------------- MODULE Server ---------------------------------
(***************************************************************************)
(* The background work beside the parts of the server that keep state of   *)
(* their own: accounts, templates, starters, bonuses, the boards of the    *)
(* clients, the turns and the calendar of a series.  They touch different  *)
(* rows, so a behaviour stays in the part that its scene names.            *)
(***************************************************************************)
EXTENDS Background, Accounts, Templates, Bonuses, Dashboard, Turns, Calendar, Starters,
        Prizes

\* Accounts, tokens and chores that can be stored when a scene begins: e-mails and
\* subjects are unique, a token that is good resets a password, and no chore that is
\* done is the last of its member's day.  No member joins twice.  Each caller is a client.
AccountRows ==
    [kind : {"local"}, of : People, email : Emails, secret : Passwords] \cup
    [kind : {"oidc"}, of : People, email : Emails, secret : Subjects]
TokenRows == [of : Identities, used : BOOLEAN]
TaskRows == [state : {"active", "pending", "done"}, who : Doers]
HouseRows == [chore : Nat, rest : Nat, office : Nat, who : Family, full : BOOLEAN]
Orderly(s) ==
    /\ s.identity \in [Identities -> {NoRow} \cup AccountRows]
    /\ \A i, j \in Identities :
        s.identity[i] # NoRow /\ s.identity[j] # NoRow /\ i # j =>
            /\ s.identity[i].email # s.identity[j].email
            /\ s.identity[i].kind = "oidc" /\ s.identity[j].kind = "oidc" =>
                   s.identity[i].secret # s.identity[j].secret
    /\ s.token \in [Tokens -> {NoToken} \cup TokenRows]
    /\ \A t \in Tokens : ~s.token[t].used => s.identity[s.token[t].of].kind = "local"
    /\ s.task \in [Tasks -> TaskRows]
    /\ \A j \in Tasks : s.task[j].state = "done" =>
           \E k \in Tasks : s.task[k].who = s.task[j].who /\ s.task[k].state # "done"
    /\ s.client \in {"web", "admin", "phone"}
    /\ s.house \in HouseRows /\ s.house.chore <= MaxRev /\ s.house.office <= MaxOffice
    /\ s.strategy \in Strategies /\ s.audience \in Audiences
    /\ s.fixed \in Crew \cup {NoneOfThem} /\ s.errands \in [Crew -> Nat]
    /\ s.roster \in Seq(Crew) /\ IsInjective(s.roster)
    /\ s.repeat \in Repeat /\ {s.clock, s.due} \subseteq Nat
    /\ s.work = "accounts" => s.callers \subseteq Clients
ASSUME ServerAssumption == \A s \in Scenes : Orderly(s)

parts == <<runtime, accounts, templates, bonuses, dashboard, turns, calendar, starters, prizes>>

ServerInit ==
    /\ Init
    /\ RuntimeInit /\ hosted = scene.hosted /\ plan \in {p \in Plans : p.standing = "active"}
    /\ call = [c \in Clients |-> Idle] /\ outdated = {}
    /\ tested = Untested /\ settings = scene.settings
    /\ identity = scene.identity
    /\ members = {identity[i].of : i \in {x \in Identities : Stored(x)}}
    /\ token = scene.token
    /\ TemplatesInit /\ template = [t \in Ids |-> Unborn]
    /\ BonusesInit /\ task = scene.task
    /\ DashboardInit /\ client = scene.client /\ house = scene.house
    /\ strategy = scene.strategy /\ audience = scene.audience /\ fixed = scene.fixed
    /\ roster = scene.roster /\ errands = scene.errands /\ TurnsInit
    /\ repeat = scene.repeat /\ clock = scene.clock /\ due = scene.due /\ CalendarInit
    /\ StartersInit /\ PrizesInit

ServerTypeOK == BackgroundTypeOK /\ RuntimeTypeOK /\ AccountsTypeOK /\ TemplatesTypeOK
                /\ BonusesTypeOK /\ DashboardTypeOK /\ TurnsTypeOK /\ CalendarTypeOK
                /\ StartersTypeOK /\ PrizesTypeOK

AccountsStep ==
    /\ work = "accounts"
    /\ \/ /\ \/ \E c \in scene.callers : Begin(c, scene.people)
             \/ \E c \in Clients : GoOn(c)
          /\ UNCHANGED runtime
       \/ \E c \in Clients : Consult(c) \/ Decide(c)
       \/ (Tick \/ ChangePlan) /\ UNCHANGED accounts
       \/ "smtp" \in scene.people /\ (\E h \in Hosts : TestSmtp(h)) /\ UNCHANGED runtime
       \/ "restart" \in scene.people /\ Restart
       \/ (\A c \in Clients : AtRest(c)) /\ UNCHANGED <<runtime, accounts>>
    /\ UNCHANGED <<templates, bonuses, dashboard, turns, calendar, starters, prizes>>
TemplatesStep ==
    /\ work = "templates"
    /\ \/ TemplatesNext
       \/ (\A c \in Editors : ~Busy(c)) /\ UNCHANGED templates
    /\ UNCHANGED <<runtime, accounts, bonuses, dashboard, turns, calendar, starters, prizes>>
BonusesStep ==
    /\ work = "bonuses"
    /\ \/ BonusesNext(scene.people)
       \/ (\A a \in Approvals : Resting(a)) /\ UNCHANGED bonuses
    /\ UNCHANGED <<runtime, accounts, templates, dashboard, turns, calendar, starters, prizes>>
DashboardStep ==
    /\ work = "dashboard"
    /\ \/ DashboardNext(scene.people)
       \/ UnderWay = {} /\ news = 0 /\ UNCHANGED dashboard
    /\ UNCHANGED <<runtime, accounts, templates, bonuses, turns, calendar, starters, prizes>>
TurnsStep ==
    /\ work = "turns"
    /\ \/ TurnsNext(scene.people)
       \/ UNCHANGED turns
    /\ UNCHANGED <<runtime, accounts, templates, bonuses, dashboard, calendar, starters, prizes>>
CalendarStep ==
    /\ work = "calendar"
    /\ \/ CalendarNext(scene.people)
       \/ UNCHANGED calendar
    /\ UNCHANGED <<runtime, accounts, templates, bonuses, dashboard, turns, starters, prizes>>
StartersStep ==
    /\ work = "starters"
    /\ \/ StartersNext(scene.people)
       \/ UNCHANGED starters
    /\ UNCHANGED <<runtime, accounts, templates, bonuses, dashboard, turns, calendar, prizes>>
PrizesStep ==
    /\ work = "prizes"
    /\ PrizesNext(scene.people)
    /\ UNCHANGED <<runtime, accounts, templates, bonuses, dashboard, turns, calendar, starters>>

ServerNext ==
    \/ Next /\ UNCHANGED parts
    \/ (AccountsStep \/ TemplatesStep \/ BonusesStep \/ DashboardStep
        \/ TurnsStep \/ CalendarStep \/ StartersStep
        \/ PrizesStep) /\ UNCHANGED vars
ServerSpec == ServerInit /\ [][ServerNext]_<<vars, parts>>
=================================================================================
