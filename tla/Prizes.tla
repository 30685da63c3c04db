--------------------------------- MODULE Prizes ---------------------------------
(***************************************************************************)
(* The starter rewards and their terms over the days: seeded when the      *)
(* household is set up and again at every start of the server, enabled,    *)
(* changed and deleted by the admin, asked for by children.  The limit and *)
(* the cooldown are checked when a child asks, statement by statement,     *)
(* against what is approved by then; what waits is approved without them.  *)
(* Points and target dates are in Rewards; who is eligible is never asked. *)
(***************************************************************************)
EXTENDS Naturals, FiniteSets, Catalogs

CONSTANTS Kids,         \* children of the household
          Offered,      \* keys that the admin enables, changes and deletes
          NewTerms,     \* terms that the admin gives a reward
          MaxWishes,    \* redemptions that may ever be asked for
          LastDate,     \* the days go from 0 to this one
          Spans         \* how many days may pass at once

\* maxRedemptionsPerChild and cooldownDays; 0 stands for neither.
Terms(limit, cooldown) == [limit |-> limit, cooldown |-> cooldown]
NoTerms == Terms(0, 0)
RestFor(days) == Terms(0, days)

\* starterRewardCatalog, in the order of the file.
TimeTreatAndActivity ==
    [screen_time_30min |-> NoTerms, screen_time_1hr |-> NoTerms, treat_choice |-> NoTerms,
     pick_dinner |-> NoTerms, pick_movie |-> NoTerms, family_activity |-> NoTerms]
PrivilegeAndAllowance ==
    [bedtime_extension |-> NoTerms, skip_a_chore |-> Terms(1, 7), pocket_money |-> NoTerms,
     order_takeout |-> NoTerms, ice_cream_trip |-> RestFor(14), dessert_choice |-> NoTerms,
     breakfast_in_bed |-> RestFor(30)]
Permissions ==
    [homework_pass |-> Terms(2, 7), skip_cleanup |-> RestFor(3), bath_skip |-> Terms(3, 3),
     late_curfew |-> RestFor(7), no_veggies |-> RestFor(7), game_night_pick |-> NoTerms,
     friend_invite |-> RestFor(7)]
OutingsAndParents ==
    [weekend_outing |-> RestFor(14), sleepover |-> RestFor(14), parent_night_off |-> NoTerms,
     parent_morning_off |-> NoTerms, parent_solo_evening |-> RestFor(7),
     parent_full_day_off |-> RestFor(14), parent_skip_cooking |-> NoTerms,
     parent_choose_weekend |-> RestFor(7), bonus_allowance |-> RestFor(30)]
StarterRewards == TimeTreatAndActivity ++ PrivilegeAndAllowance ++ Permissions ++ OutingsAndParents

TermRows == [limit : Nat, cooldown : Nat]
ASSUME PrizesAssumption ==
    /\ MaxWishes \in Nat /\ LastDate \in Nat /\ Spans \subseteq Nat
    /\ Offered \subseteq DOMAIN StarterRewards /\ NewTerms \subseteq TermRows

VARIABLES shelf,        \* Offered -> the reward: on or off and its terms, or NoReward
          wish,         \* 1..MaxWishes -> redemption, or a request for one
          date

prizes == <<shelf, wish, date>>

NoReward == [status |-> "none"]
NoWish == [status |-> "none"]
Moot == [status |-> "over"]      \* refused, rejected, or the reward is gone
Wishes == 1..MaxWishes

PrizesTypeOK ==
    /\ \A k \in Offered : shelf[k] # NoReward => shelf[k].status \in {"on", "off"}
    /\ \A w \in Wishes :
          \/ wish[w] \in {NoWish, Moot}
          \/ /\ wish[w].status \in {"asked", "counted", "rested", "pending", "approved"}
             /\ wish[w].kid \in Kids /\ wish[w].before \subseteq Wishes \ {w}
    /\ date \in 0..LastDate

\* importStarterRewards: a reward that the household lacks comes disabled, with the
\* terms of the catalogue; one that it has stays as it is.
StarterOr(k) == IF shelf[k] = NoReward THEN [status |-> "off", terms |-> StarterRewards[k]] ELSE shelf[k]
PrizesInit ==
    /\ shelf = [k \in Offered |-> [status |-> "off", terms |-> StarterRewards[k]]]
    /\ wish = [w \in Wishes |-> NoWish]
    /\ date = 0
SeedRewards ==
    /\ shelf' = [k \in Offered |-> StarterOr(k)]
    /\ UNCHANGED <<wish, date>>

FlipReward(k) ==
    /\ shelf[k] # NoReward
    /\ shelf' = [shelf EXCEPT ![k].status = IF @ = "on" THEN "off" ELSE "on"]
    /\ UNCHANGED <<wish, date>>
ChangeTerms(k, t) ==
    /\ shelf[k] # NoReward /\ shelf' = [shelf EXCEPT ![k].terms = t]
    /\ UNCHANGED <<wish, date>>

\* deleteReward: nobody but the operator protects a reward, not its catalogue key; its
\* redemptions go with it, and so do the requests that have read it.
DropReward(k) ==
    /\ shelf[k] # NoReward
    /\ shelf' = [shelf EXCEPT ![k] = NoReward]
    /\ wish' = [w \in Wishes |-> IF wish[w] \notin {NoWish, Moot} /\ wish[w].key = k
                                 THEN Moot ELSE wish[w]]
    /\ UNCHANGED date

\* The approved redemptions of a reward by a child, and the one that counts as the last.
\* (LastAsked: as if it was the one that was asked for last.)
Granted(kid, key) ==
    {w \in Wishes : wish[w].status = "approved" /\ wish[w].kid = kid /\ wish[w].key = key}
LastAsked(S) == CHOOSE w \in S : \A v \in S : v <= w
LastApproved(S) == CHOOSE w \in S : \A v \in S : wish[v].resolved <= wish[w].resolved

\* redeemReward reads the reward; counts what is approved; looks up the last of it;
\* and creates the redemption, approved at once if the household wants no approval.
AskFor(w, kid, k) ==
    /\ wish[w] = NoWish /\ \A v \in Wishes : v < w => wish[v] # NoWish
    /\ shelf[k].status = "on"
    /\ wish' = [wish EXCEPT ![w] =
           [status |-> "asked", kid |-> kid, key |-> k, terms |-> shelf[k].terms,
            day |-> 0, resolved |-> 0, before |-> Granted(kid, k)]]
    /\ UNCHANGED <<shelf, date>>
AsksOn(w, next, day) ==
    /\ wish' = [wish EXCEPT ![w].status = next, ![w].day = day]
    /\ UNCHANGED <<shelf, date>>
CountGranted(w) ==
    /\ wish[w].status = "asked"
    /\ LET limit == wish[w].terms.limit
       IN limit # 0 => Cardinality(Granted(wish[w].kid, wish[w].key)) < limit
    /\ AsksOn(w, "counted", 0)
CheckCooldown(w) ==
    /\ wish[w].status = "counted"
    /\ LET past == Granted(wish[w].kid, wish[w].key)
           days == wish[w].terms.cooldown
       IN days # 0 /\ past # {} => date - wish[LastApproved(past)].resolved >= days
    /\ AsksOn(w, "rested", date)

\* A check refuses, or the server stops.
TurnDown(w) ==
    /\ wish[w].status \in {"asked", "counted", "rested"}
    /\ wish' = [wish EXCEPT ![w] = Moot]
    /\ UNCHANGED <<shelf, date>>

Settles(w, status) ==
    /\ wish' = [wish EXCEPT ![w].status = status, ![w].resolved = date]
    /\ UNCHANGED <<shelf, date>>
CreateRedemption(w, approved) ==
    /\ wish[w].status = "rested"
    /\ Settles(w, IF approved THEN "approved" ELSE "pending")
ResolveRedemption(w, approved) ==
    /\ wish[w].status = "pending"
    /\ IF approved THEN Settles(w, "approved")
       ELSE wish' = [wish EXCEPT ![w] = Moot] /\ UNCHANGED <<shelf, date>>

DaysPass(n) ==
    /\ date + n <= LastDate /\ date' = date + n
    /\ UNCHANGED <<shelf, wish>>

PrizesNext(calls) ==
    \/ \E n \in Spans : DaysPass(n)
    \/ \E k \in Offered :
          \/ shelf[k].status = "off" /\ FlipReward(k)
          \/ "shelf" \in calls /\ (SeedRewards \/ FlipReward(k) \/ DropReward(k))
          \/ "terms" \in calls /\ \E t \in NewTerms : ChangeTerms(k, t)
    \/ \E w \in Wishes :
          \/ (w = MaxWishes => "last" \in calls) /\ \E k \in Offered, kid \in Kids : AskFor(w, kid, k)
          \/ CountGranted(w) \/ CheckCooldown(w) \/ TurnDown(w)
          \/ \E approved \in BOOLEAN : CreateRedemption(w, approved) \/ ResolveRedemption(w, approved)

\* However requests, decisions in any order and days mix: what was granted before a child
\* asked again lies as many days back as the reward asked for, and it was less than the
\* limit.  What waited meanwhile is excepted, for it is approved unchecked.
TermsKept ==
    \A w \in Wishes :
        wish[w].status \in {"pending", "approved"} =>
            LET past == wish[w].before
            IN /\ wish[w].terms.limit # 0 => Cardinality(past) < wish[w].terms.limit
               /\ \A v \in past : wish[w].day - wish[v].resolved >= wish[w].terms.cooldown
=================================================================================
