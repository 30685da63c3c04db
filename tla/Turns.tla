--------------------------------- MODULE Turns ---------------------------------
(***************************************************************************)
(* Who gets a chore: the chores of one template, numbered in the order of  *)
(* their creation, the strategy that assigns them, and the sweep that      *)
(* assigns the flexible ones again at the end of most calls.  Household    *)
(* leaves the choice open and interleaves the calls; here a call is one    *)
(* step and the choice is made as the code makes it.                       *)
(***************************************************************************)
EXTENDS Naturals, Sequences, SequencesExt, FiniteSetsExt

CONSTANTS Crew,         \* those who may be members
          Minors,       \* those of them that are children
          Alphabet,     \* Crew in the order of their display names
          NoneOfThem,
          MaxTurns,     \* bound: chores of the template in a run
          OwnPoints,    \* basePoints of the template
          ErrandPoints  \* basePoints of the chores of other templates

ASSUME TurnsAssumption ==
    /\ Minors \subseteq Crew /\ NoneOfThem \notin Crew
    /\ Alphabet \in Seq(Crew) /\ ToSet(Alphabet) = Crew /\ Len(Alphabet) = Cardinality(Crew)
    /\ {MaxTurns, OwnPoints, ErrandPoints} \subseteq Nat

VARIABLES strategy,   \* of the template
          audience,   \* of the template
          fixed,      \* its fixed assignee, or NoneOfThem
          roster,     \* the members in the order they joined
          errands,    \* how many chores of other templates each of them has
          fame,       \* streak and points of each
          rota        \* the chores

turns == <<strategy, audience, fixed, roster, errands, fame, rota>>

Strategies == {"round_robin", "least_recently", "highest_streak", "fixed"}
Audiences == {"all", "adults", "children"}
Numbers == 1..MaxTurns

\* due: 0 when it is within the freeze window, else its place in the order of due
\* times.  how: by the strategy, by hand (locked), or kept from the chore before it.
\* done: when it was completed, in the order of completions.
Turn == [at: {"unborn", "active", "done", "cancelled"}, who: Crew \cup {NoneOfThem},
         how: {"rule", "hand", "sticky"}, due: 0..2, done: 0..MaxTurns]
NoTurn == [at |-> "unborn", who |-> NoneOfThem, how |-> "rule", due |-> 0, done |-> 0]

TurnsTypeOK ==
    /\ strategy \in Strategies /\ audience \in Audiences
    /\ fixed \in Crew \cup {NoneOfThem} /\ roster \in Seq(Crew) /\ IsInjective(roster)
    /\ errands \in [Crew -> Nat] /\ fame \in [Crew -> [streak: Nat, points: Nat]]
    /\ rota \in [Numbers -> Turn]

Made == {n \in Numbers : rota[n].at # "unborn"}
Active == {n \in Made : rota[n].at = "active"}

-----------------------------------------------------------------------------
(* The decision: for chore me (0: a new one), given the chores t and fame f.  *)

Eligible(m) ==
    /\ audience = "adults" => m \notin Minors
    /\ audience = "children" => m \in Minors
Able == {m \in ToSet(roster) : Eligible(m)}

Others(t, me) == {n \in Numbers \ {me} : t[n].at # "unborn" /\ t[n].who # NoneOfThem}
\* As if a chore counted in the load of the one who has it while it is assigned anew.
CarriedToo(t, me, m) ==
    Cardinality({n \in Numbers : t[n].at = "active" /\ t[n].who = m})
Carried(t, me, m) == Cardinality({n \in Others(t, me) : t[n].at = "active" /\ t[n].who = m})
Position(s, m) == CHOOSE i \in DOMAIN s : s[i] = m

\* compareMemberLoad: number of active chores, their points, the name.
LoadOf(t, me, m) ==
    <<Carried(t, me, m) + errands[m],
      OwnPoints * Carried(t, me, m) + ErrandPoints * errands[m], Position(Alphabet, m)>>

Precedes(s, t) == \E i \in DOMAIN s : s[i] < t[i] /\ \A j \in 1..(i - 1) : s[j] = t[j]
Foremost(Key(_)) == CHOOSE m \in Able : \A o \in Able \ {m} : Precedes(Key(m), Key(o))
LeastLoaded(t, me) == Foremost(LAMBDA m : LoadOf(t, me, m))

\* The eligible member who joined next after the one who got the latest chore; after
\* the last of them the first.
Seats == {i \in DOMAIN roster : roster[i] \in Able}
NextInTurn(t, me) ==
    LET before == Others(t, me)
        last == t[Max(before)].who
        after == {i \in Seats : i > Position(roster, last)}
    IN  IF before = {} \/ last \notin Able THEN LeastLoaded(t, me)
        ELSE roster[Min(IF after = {} THEN Seats ELSE after)]

LastDone(t, me, m) ==
    Max({0} \cup {t[n].done : n \in {x \in Others(t, me) : t[x].at = "done" /\ t[x].who = m}})
\* As if the load came before the last completion.
LoadFirst(t, me) == Foremost(LAMBDA m : LoadOf(t, me, m) \o <<LastDone(t, me, m)>>)
LeastRecently(t, me) == Foremost(LAMBDA m : <<LastDone(t, me, m)>> \o LoadOf(t, me, m))

\* By how much the fame of m falls short of the greatest.
Short(f, m, k) == Max({f[o][k] : o \in Crew}) - f[m][k]
HighestStreak(t, f, me) ==
    Foremost(LAMBDA m : <<Short(f, m, "streak"), Short(f, m, "points")>> \o LoadOf(t, me, m))

\* The fixed assignee is not asked to belong to the audience.
Chosen(t, f, me) ==
    CASE strategy = "fixed" -> IF fixed \in ToSet(roster) THEN fixed ELSE NoneOfThem
      [] strategy # "fixed" /\ Able = {} -> NoneOfThem
      [] strategy = "round_robin" /\ Able # {} -> NextInTurn(t, me)
      [] strategy = "least_recently" /\ Able # {} -> LeastRecently(t, me)
      [] strategy = "highest_streak" /\ Able # {} -> HighestStreak(t, f, me)

-----------------------------------------------------------------------------
(* The sweep: the flexible chores, soonest first, but for those of kept.     *)

Loose(t) == {n \in Numbers : t[n].at = "active" /\ t[n].how # "hand" /\ t[n].due > 0}
Sooner(t, i, j) == t[i].due < t[j].due \/ (t[i].due = t[j].due /\ i < j)
LastDue(t, S) == CHOOSE n \in S : \A i \in S \ {n} : Sooner(t, i, n)
\* As if the latest chore could be the one assigned anew.
ReassignedSelf(t, f, n) == [t EXCEPT ![n].who = Chosen(t, f, 0), ![n].how = "rule"]
Reassigned(t, f, n) == [t EXCEPT ![n].who = Chosen(t, f, n), ![n].how = "rule"]
Swept(t, f, kept) ==
    MapThenFoldSet(LAMBDA n, u : Reassigned(u, f, n), t,
                   LAMBDA n : n, LAMBDA S : LastDue(t, S), Loose(t) \ kept)

-----------------------------------------------------------------------------
(* The calls                                                                 *)

NextNumber == Cardinality(Made) + 1
RoomLeft == NextNumber \in Numbers
Placed(t, m, how, due) ==
    [t EXCEPT ![NextNumber] = [at |-> "active", who |-> m, how |-> how, due |-> due, done |-> 0]]
Renewed(t, f, due) == Placed(t, Chosen(t, f, 0), "rule", due)

\* submit or approve: the assignee earns it, and the next occurrence is made.
CompleteTurn(n, due) ==
    /\ n \in Active /\ RoomLeft
    /\ rota[n].who # NoneOfThem
    /\ fame' = [fame EXCEPT ![rota[n].who] = [streak |-> @.streak + 1, points |-> @.points + OwnPoints]]
    /\ LET stamp == 1 + Cardinality({x \in Made : rota[x].at = "done"})
           closed == [rota EXCEPT ![n].at = "done", ![n].done = stamp]
       IN  rota' = Swept(Renewed(closed, fame', due), fame', {})
    /\ UNCHANGED <<strategy, audience, fixed, roster, errands>>

CancelTurn(n, due) ==
    /\ n \in Active /\ RoomLeft
    /\ rota' = Swept(Renewed([rota EXCEPT ![n].at = "cancelled"], fame, due), fame, {})
    /\ UNCHANGED <<strategy, audience, fixed, roster, errands, fame>>

\* A chore made by hand, for a member or for whom the strategy finds.
CreateTurn(due) ==
    /\ RoomLeft
    /\ \/ \E m \in ToSet(roster) : rota' = Swept(Placed(rota, m, "hand", due), fame, {NextNumber})
       \/ rota' = Swept(Renewed(rota, fame, due), fame, {NextNumber})
    /\ UNCHANGED <<strategy, audience, fixed, roster, errands, fame>>

\* A chore of another template, done by m, is followed by one of this template,
\* which m keeps if the template is sticky.  The sweep comes after it.
FollowTurn(m, due) ==
    /\ RoomLeft /\ m \in ToSet(roster)
    /\ \/ rota' = Swept(Placed(rota, m, "sticky", due), fame, {})
       \/ rota' = Swept(Renewed(rota, fame, due), fame, {})
    /\ UNCHANGED <<strategy, audience, fixed, roster, errands, fame>>

\* start, take over, an accepted takeover request, an edit that names m.
TakeTurn(n, m) ==
    /\ n \in Active /\ m \in ToSet(roster)
    /\ rota' = Swept([rota EXCEPT ![n].who = m, ![n].how = "hand"], fame, {n})
    /\ UNCHANGED <<strategy, audience, fixed, roster, errands, fame>>

\* An edit that asks for a new assignment.
ReassignTurn(n) ==
    /\ n \in Active
    /\ rota' = Swept(Reassigned(rota, fame, n), fame, {n})
    /\ UNCHANGED <<strategy, audience, fixed, roster, errands, fame>>

\* The due time comes within the freeze window.
FreezeTurn(n) ==
    /\ n \in Active /\ rota[n].due > 0
    /\ rota' = [rota EXCEPT ![n].due = 0]
    /\ UNCHANGED <<strategy, audience, fixed, roster, errands, fame>>

JoinCrew(m) ==
    /\ m \in Crew \ ToSet(roster)
    /\ roster' = Append(roster, m)
    /\ UNCHANGED <<strategy, audience, fixed, errands, fame, rota>>

TurnsInit ==
    /\ fame = [m \in Crew |-> [streak |-> 0, points |-> 0]]
    /\ LET none == [n \in Numbers |-> NoTurn]
       IN  rota = [none EXCEPT ![1] = [NoTurn EXCEPT !.at = "active", !.who = Chosen(none, fame, 0)]]

\* The steps of a run in which only what is in some is done.
TurnsNext(some) ==
    \/ \E n \in Active : \/ FreezeTurn(n)
                         \/ \E due \in {0, 2} : CompleteTurn(n, due)
                         \/ \E due \in {0, 2} : "cancel" \in some /\ CancelTurn(n, due)
                         \/ \E m \in Crew : "take" \in some /\ TakeTurn(n, m)
                         \/ "edit" \in some /\ ReassignTurn(n)
    \/ \E due \in {0, 1} : "create" \in some /\ CreateTurn(due)
    \/ \E m \in Crew, due \in {0, 1} : "follow" \in some /\ FollowTurn(m, due)
    \/ \E m \in Crew : "join" \in some /\ JoinCrew(m)

-----------------------------------------------------------------------------
(* Safety                                                                    *)

Given == {n \in Made : rota[n].who # NoneOfThem}
Latest == Max(Given)
Previous == Max(Given \ {Latest})

\* Of a template in rotation that several members may do, the two newest chores are
\* different members', whatever is swept, cancelled or frozen between them, unless
\* one of the two was given by hand or kept by its follow-up rule.
TakesTurns ==
    strategy = "round_robin" /\ Cardinality(Able) > 1 /\ Cardinality(Given) > 1
    /\ {rota[Latest].how, rota[Previous].how} = {"rule"}
        => rota[Latest].who # rota[Previous].who

\* In a single series under "least_recently", nobody completes two chores more than
\* another who was there from the start, whatever is cancelled or joins meanwhile.
Share(m) == Cardinality({n \in Made : rota[n].at = "done" /\ rota[n].who = m})
Single == Cardinality(Active) <= 1
Founders == {m \in Able : Position(roster, m) <= 2}
EvenShares ==
    strategy = "least_recently" /\ Single /\ (\A n \in Made : rota[n].how = "rule")
        => \A m, o \in Founders : Share(m) <= Share(o) + 1

\* Whatever the strategy, except rotation, a second sweep changes nothing that the
\* first has settled.
SweepSettles ==
    strategy # "round_robin" => Swept(Swept(rota, fame, {}), fame, {}) = Swept(rota, fame, {})
=================================================================================
