-------------------------------- MODULE ServerMC --------------------------------
(***************************************************************************)
(* The instance of Server that TLC checks: the scenes of the reminders,    *)
(* and some for each of the other parts.                                   *)
(***************************************************************************)
EXTENDS BackgroundMC, Server

CONSTANTS i1, i2, i3, i4, t1, t2, t3, bob, e1, e2, e3, s1, p1, p2, mailHost, laundry, ironing, sweep, mop

NoAccount == [i \in Identities |-> NoRow]
AnnOnly == [NoAccount EXCEPT ![i1] = Row("local", ann, e1, p1)]
AndKim == [AnnOnly EXCEPT ![i2] = Row("oidc", kim, e2, s1)]
Issued == [t \in Tokens |-> IF t = t3 THEN NoToken ELSE [of |-> i1, used |-> FALSE]]
Unissued == [t \in Tokens |-> NoToken]
ByPassword == [signup |-> TRUE, local |-> TRUE, oidc |-> FALSE, smtp |-> TRUE, host |-> mailHost]
ByBoth == [ByPassword EXCEPT !.oidc = TRUE]
SomePatches ==
    {[local |-> FALSE], [oidc |-> FALSE], [local |-> FALSE, smtp |-> FALSE],
     [smtp |-> TRUE], [smtp |-> TRUE, oidc |-> TRUE]}

FourMonths == <<31, 28, 31, 30>>
ByName == <<bob, kim, ann>>

Room(standing, seats) == [standing |-> standing, seats |-> seats]
SomePlans == {Room("active", 2), Room("suspended", 1)}

LaundryChain == {<<laundry, ironing>>}
AnySelection == SUBSET Catalog

SharedTasks ==
    [j \in Tasks |-> IF j = mop THEN [state |-> "pending", who |-> ann]
                     ELSE [state |-> "active", who |-> kim]]

Mopped == [state |-> "done", who |-> kim]

Kept(changes) == [chore |-> changes, rest |-> 0, office |-> 0, who |-> ann, full |-> FALSE]

Every(n, kind) ==
    [type |-> kind, every |-> n, days |-> {1, 4}, from |-> "due", ends |-> "never", left |-> 2, until |-> 177]

\* A scene of the office, with nothing for the workers to do.
Office(part, calls, clients) ==
    Scene(part, <<>>, NoPhone, DueOn(1, "done"), NoBooking, {}, calls, clients) @@
    [hosted |-> FALSE, settings |-> ByPassword,
     identity |-> AnnOnly, token |-> Unissued, task |-> SharedTasks,
     client |-> "web", house |-> Kept(MaxRev),
     strategy |-> "fixed", audience |-> "all", fixed |-> kim, roster |-> <<ann, kim>>,
     errands |-> [m \in Crew |-> IF m = ann THEN 1 ELSE 0],
     repeat |-> Every(1, "daily"), due |-> 3, clock |-> Horizon]

\* A session of one client, in a household in which so many chores have changed.
Session(c, calls, changes) ==
    [Office("dashboard", calls, {}) EXCEPT !.client = c, !.house = Kept(changes)]

OfficeScenes ==
    {[Office("accounts", {"reset", "complete", "edit"}, Clients) EXCEPT !.token = Issued, !.identity = AndKim],
     [Office("accounts", {"signup", "oidc"}, Clients) EXCEPT !.settings = ByBoth],
     [Office("accounts", {"settings", "smtp", "restart"}, Clients) EXCEPT !.settings = ByBoth],
     Office("accounts", {"login"}, {1}),
     [Office("accounts", {"login"}, {1, 2}) EXCEPT !.hosted = TRUE],
     [Office("accounts", {"member"}, {1}) EXCEPT !.hosted = TRUE],
     Office("templates", {}, {}),
     Office("prizes", {"shelf", "terms"}, {}), Office("prizes", {"terms", "last"}, {}),
     Office("bonuses", {"help"}, {}),
     [Office("bonuses", {"submit"}, {}) EXCEPT !.task[mop].who = kim],
     [Office("bonuses", {"submit", "third"}, {}) EXCEPT !.task[mop] = Mopped],
     [Office("bonuses", {"help", "third"}, {}) EXCEPT !.task[mop] = Mopped]}

BoardScenes ==
    {Session("phone", {"act", "others"}, 0),
     Session("phone", {"order", "leave"}, 1),
     Session("phone", {"act", "restart", "drop", "others", "fail", "nudge"}, 1),
     Session("web", {"act", "edit", "others", "drop", "restart"}, 1),
     Session("web", {"act", "nudge", "leave"}, 1),
     Session("admin", {"edit", "set", "settings", "fail"}, 1)}

\* The chores of a template with this strategy; a series with this recurrence.
Rota(s, a, calls) == [Office("turns", calls, {}) EXCEPT !.strategy = s, !.audience = a]
Series(r, start, first, calls) ==
    [Office("calendar", calls, {}) EXCEPT !.repeat = r, !.clock = start, !.due = first]

SeriesScenes ==
    {Rota("round_robin", "all", {"cancel", "take", "join"}),
     Rota("round_robin", "all", {"create", "follow"}),
     Rota("round_robin", "children", {"take", "edit"}),
     Rota("least_recently", "all", {"cancel", "join"}),
     Rota("least_recently", "all", {"create"}),
     Rota("highest_streak", "adults", {"create", "join"}),
     Rota("fixed", "adults", {"edit"}),
     Series(Every(2, "every x days"), 160, 163, {"cancel"}),
     Series(Every(3, "every x days"), 160, 159, {"holiday"}),
     Series(Every(1, "custom weekly"), 160, 163, {"holiday"}),
     Series([Every(1, "daily") EXCEPT !.ends = "after"], 172, 175, {"cancel", "edit"}),
     Series([Every(1, "daily") EXCEPT !.ends = "on"], 170, 171, {"cancel"}),
     Series(Every(1, "weekly"), 120, 130, {"cancel"}),
     Series([Every(1, "weekly") EXCEPT !.from = "done"], 150, 155, {}),
     Series(Every(1, "monthly"), 50, 60, {}),
     Series(Every(1, "none"), 175, 176, {})}

\* A household without a washing machine, with a washing line, and with a dryer.
Machines(S) ==
    [people |-> "couple", home |-> "flat", appliances |-> S, split |-> "adults_do_most",
     older |-> FALSE, cooking |-> "mixed"]
SomeProfiles ==
    {Machines({}), Machines({"washing_machine"}), Machines({"washing_machine", "tumble_dryer"})}
StarterScenes ==
    {Office("starters", calls, {}) :
        calls \in {{"first"}, {"wizard", "hand"}, {"wizard", "draft", "profile", "load"},
                  {"wizard", "profile", "overlap"}}}

Looser == {Terms(0, 1)}

ServerScenes == OfficeScenes \cup BoardScenes \cup SeriesScenes \cup StarterScenes
                \cup {s @@ Office(s.work, {}, {}) : s \in ReminderScenes}
=================================================================================
