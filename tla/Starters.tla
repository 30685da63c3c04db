-------------------------------- MODULE Starters --------------------------------
(***************************************************************************)
(* The starter catalogue, the templates that the onboarding wizard chooses *)
(* from a household's answers, and what becomes of them when the answers   *)
(* change: the wizard again, a change of the profile that suggests more    *)
(* templates, a synchronisation, templates customised or deleted by hand.  *)
(* Followed up to the chores of the laundry that the chosen templates make.*)
(* A starter is what calls for it and whether it comes again by itself.    *)
(***************************************************************************)
EXTENDS Naturals, FiniteSets, Functions, Catalogs

CONSTANTS Profiles,     \* answers that a household gives
          Sessions,     \* calls under way at once: the next takes the lowest free number
          MaxLoads      \* how many loads of washing are ever begun

Once(next) == [recurs |-> FALSE, next |-> next]
Recurring == [recurs |-> TRUE, next |-> {}]
Then(next) == [recurs |-> TRUE, next |-> next]

\* starterTemplateCatalog, group by group.
Laundry ==
    [laundry_run_machine |-> Once({"laundry_hang_clothes", "laundry_run_dryer"}),
     laundry_run_dryer |-> Once({"laundry_fold_clothes"}),
     laundry_hang_clothes |-> Once({"laundry_fold_clothes"}),
     laundry_fold_clothes |-> Once({"laundry_put_away"}),
     laundry_put_away |-> Once({})]
Kitchen ==
    [kitchen_evening_cleanup |-> Then({"kitchen_unload_dishwasher"}),
     kitchen_unload_dishwasher |-> Recurring, kitchen_hand_wash_dishes |-> Once({}),
     kitchen_clean_microwave |-> Recurring]
FridgeAndOven == [kitchen_clean_fridge |-> Recurring, kitchen_clean_oven |-> Recurring]
Cleaning ==
    [cleaning_vacuum_house |-> Then({"cleaning_mop_floors"}), cleaning_mop_floors |-> Recurring,
     cleaning_dust_surfaces |-> Recurring, cleaning_bathroom |-> Recurring,
     cleaning_toilet |-> Recurring, cleaning_windows |-> Recurring]
TidyingAndWaste ==
    [cleaning_tidy_living_areas |-> Recurring, waste_take_out_rubbish |-> Recurring,
     waste_take_out_recycling |-> Once({})]
Bedroom ==
    [bedroom_make_bed |-> Recurring, bedroom_strip_sheets |-> Then({"bedroom_put_on_sheets"}),
     bedroom_put_on_sheets |-> Once({}), bedroom_change_towels |-> Recurring]
PlantsAndKids ==
    [plants_water_plants |-> Recurring, kids_room_tidy |-> Recurring,
     kids_room_strip_sheets |-> Then({"kids_room_put_on_sheets"}),
     kids_room_put_on_sheets |-> Once({})]
Outside ==
    [shopping_grocery_run |-> Recurring, cooking_prepare_dinner |-> Recurring,
     outdoor_sweep_entrance |-> Recurring, outdoor_mow_lawn |-> Recurring,
     maintenance_check_smoke_alarms |-> Recurring]

Starter == Laundry ++ Kitchen ++ FridgeAndOven ++ Cleaning ++ TidyingAndWaste
           ++ Bedroom ++ PlantsAndKids ++ Outside
Wash == DOMAIN Laundry
StarterChains == {e \in (DOMAIN Starter) \X (DOMAIN Starter) : e[2] \in Starter[e[1]].next}

\* SubmitOnboardingDto, but for pets and style; of the ages, whether one is eleven or more.
AllAnswers ==
    [people : {"solo", "couple", "family", "flatmates"},
     home : {"flat", "house", "house_garden", "house_garden_lawn"},
     appliances : SUBSET {"dishwasher", "tumble_dryer", "washing_machine", "robot_vacuum"},
     split : {"adults_do_most", "shared_evenly", "kids_help_simple_tasks"},
     older : BOOLEAN,
     cooking : {"one_person", "take_turns", "mostly_takeout", "mixed"}]
ASSUME StartersAssumption == Sessions \subseteq Nat /\ MaxLoads \in Nat /\ Profiles \subseteq AllAnswers
NoAnswers == [draft |-> "none"]
HalfAnswered == [draft |-> "half"]      \* a draft that has not come to the appliances

BlankProfile ==
    [people |-> "family", home |-> "flat", appliances |-> {}, split |-> "shared_evenly",
     older |-> FALSE, cooking |-> "mixed"]

\* selectTemplateKeys: a set of keys is chosen if its condition holds.
When(condition, keys) == IF condition THEN keys ELSE {}
Baseline ==
    {"waste_take_out_rubbish", "waste_take_out_recycling", "cleaning_bathroom",
     "cleaning_toilet", "cleaning_tidy_living_areas", "cleaning_dust_surfaces",
     "cleaning_mop_floors", "bedroom_make_bed", "bedroom_change_towels",
     "bedroom_strip_sheets", "bedroom_put_on_sheets", "kitchen_clean_fridge",
     "kitchen_evening_cleanup"}
Drying(a) ==
    IF "tumble_dryer" \in a.appliances THEN {"laundry_run_dryer"} ELSE {"laundry_hang_clothes"}
Seeds(a) ==
    UNION {Baseline,
           IF "dishwasher" \in a.appliances
           THEN {"kitchen_unload_dishwasher"} ELSE {"kitchen_hand_wash_dishes"},
           When("washing_machine" \in a.appliances,
                {"laundry_run_machine", "laundry_fold_clothes", "laundry_put_away"} \cup Drying(a)),
           When("robot_vacuum" \notin a.appliances, {"cleaning_vacuum_house"}),
           When(a.home # "flat", {"outdoor_sweep_entrance"}),
           When(a.home \in {"house_garden", "house_garden_lawn"}, {"plants_water_plants"}),
           When(a.home = "house_garden_lawn", {"outdoor_mow_lawn"}),
           When(a.cooking \in {"take_turns", "mixed"}, {"cooking_prepare_dinner"}),
           When(a.people # "solo", {"shopping_grocery_run"}),
           When(a.people = "family" /\ (a.split # "adults_do_most" \/ a.older),
                {"kids_room_tidy", "kids_room_strip_sheets", "kids_room_put_on_sheets"})}

VARIABLES answers,      \* onboardingAnswers, or NoAnswers or HalfAnswered
          kept,         \* keys that the household has templates for
          customized,   \* those that a member customised
          wires,        \* StarterChains -> how many rules lead from the one to the other
          suggestions,  \* profileSuggestions: [pending, dismissed], sets of sets of keys
          session,      \* Sessions -> where the call is
          open,         \* Wash -> open chores of its template
          loose,        \* open chores whose template is gone
          used,         \* keys of Wash whose template has chores
          loads,        \* history: loads begun
          byHand,       \* history: whether more than answers shaped the laundry
          apart         \* history: whether templates changed since the wizard

starters == <<answers, kept, customized, wires, suggestions, session, open, loose, used,
              loads, byHand, apart>>

StartersTypeOK ==
    /\ answers \in AllAnswers \cup {NoAnswers, HalfAnswered}
    /\ customized \subseteq kept /\ kept \subseteq DOMAIN Starter
    /\ used \subseteq kept
    /\ \A e \in StarterChains : wires[e] > 0 => {e[1], e[2]} \subseteq kept

NoChores == [k \in Wash |-> 0]
Unopened == [at |-> "idle"]
NoSuggestions == [pending |-> {}, dismissed |-> {}]

\* importStarterTemplates: bootstrap makes the whole catalogue when no keys are named.
StartersInit ==
    /\ answers = NoAnswers /\ suggestions = NoSuggestions
    /\ kept = DOMAIN Starter /\ customized = {}
    /\ wires = [e \in StarterChains |-> 1]
    /\ session = [c \in Sessions |-> Unopened]
    /\ open = NoChores /\ loose = 0 /\ used = {} /\ loads = 0
    /\ byHand = TRUE /\ apart = TRUE

-----------------------------------------------------------------------------
(* The wizard and its draft.                                                *)

\* applyOnboarding keeps the customised templates of the selection, with their rules,
\* and makes the rest anew; then it writes the rules of all of them, once more where
\* both ends were kept.  (RulesOfMade: as if only what was made got rules.)
RulesOfMade(stay, keys) ==
    [e \in StarterChains |->
        IF e[1] \in keys \ stay /\ e[2] \in keys THEN 1
        ELSE IF {e[1], e[2]} \subseteq stay THEN wires[e] ELSE 0]
RulesOfAll(stay, keys) ==
    [e \in StarterChains |->
        IF ~({e[1], e[2]} \subseteq keys) THEN 0
        ELSE IF {e[1], e[2]} \subseteq stay /\ wires[e] > 0 THEN 2 ELSE 1]
SubmitOnboarding(a) ==
    LET keys == Seeds(a)
        stay == customized \cap keys
    IN /\ answers' = a
       /\ kept' = keys /\ customized' = stay
       /\ wires' = RulesOfAll(stay, keys)
       /\ open' = [k \in Wash |-> IF k \in stay THEN open[k] ELSE 0]
       /\ loose' = loose + FoldFunctionOnSet(+, 0, open, Wash \ stay)
       /\ used' = used \cap stay
       /\ byHand' = (byHand /\ (loads > 0 \/ stay # {}))
       /\ apart' = FALSE
       /\ UNCHANGED <<suggestions, session, loads>>
SaveDraft(a) ==
    /\ answers' = a
    /\ UNCHANGED <<kept, customized, wires, suggestions, session, open, loose, used, loads,
                   byHand, apart>>

-----------------------------------------------------------------------------
(* Calls that read the settings first.                                      *)

Opens(c) == session[c] = Unopened /\ \A d \in Sessions : d < c => session[d] # Unopened
Proceeds(c, next) == session' = [session EXCEPT ![c] = next]
Closes(c) == Proceeds(c, Unopened)
TheLaundry == <<open, loose, used, loads, byHand>>

\* syncCatalogTemplates makes the keys that are missing, and the rules of those.
\* (WireAll: as if those of the other keys were written too.)
WireAll(made) ==
    wires' = [e \in StarterChains |-> IF {e[1], e[2]} \subseteq kept \cup made THEN 1 ELSE 0]
WireMade(made) ==
    wires' = [e \in StarterChains |->
                 IF e[1] \in made /\ e[2] \in kept \cup made THEN 1 ELSE wires[e]]
SyncCatalogTemplates(keys) ==
    LET made == keys \ kept
    IN /\ kept' = kept \cup made
       /\ WireMade(made)
       /\ apart' = (apart \/ made # {})
       /\ UNCHANGED customized

\* syncCatalog: the keys of the stored answers.  A call that meets a half answered
\* draft fails and changes nothing.
Answered == IF answers = NoAnswers THEN BlankProfile ELSE answers
SyncAnswers(c) ==
    /\ Opens(c)
    /\ answers # HalfAnswered
    /\ Proceeds(c, [at |-> "sync", keys |-> Seeds(Answered)])
    /\ UNCHANGED <<answers, kept, customized, wires, suggestions, apart, TheLaundry>>
SyncCatalog(c) ==
    /\ session[c].at = "sync"
    /\ SyncCatalogTemplates(session[c].keys)
    /\ Closes(c)
    /\ UNCHANGED <<answers, suggestions, TheLaundry>>

\* updateHouseholdProfile suggests what the new answers add, unless it was dismissed.
\* When they take something away it counts templates by a column that the schema does
\* not have, and fails before anything is saved.
ProfileRead(c, a) ==
    /\ Opens(c)
    /\ answers # HalfAnswered /\ Seeds(Answered) \subseteq Seeds(a)
    /\ LET added == Seeds(a) \ Seeds(Answered)
       IN Proceeds(c, [at |-> "profile", answers |-> a,
                       pending |-> {added} \ ({{}} \cup suggestions.dismissed)])
    /\ UNCHANGED <<answers, kept, customized, wires, suggestions, apart, TheLaundry>>
SaveHouseholdProfile(c) ==
    /\ session[c].at = "profile"
    /\ answers' = session[c].answers
    /\ suggestions' = [pending |-> session[c].pending, dismissed |-> {}]
    /\ Closes(c)
    /\ UNCHANGED <<kept, customized, wires, apart, TheLaundry>>

\* acceptProfileSuggestion: its templates are made, then what was read is written back
\* without it.  dismissProfileSuggestion does the last alone.
SuggestionRead(c, keys, accepted) ==
    /\ Opens(c) /\ keys \in suggestions.pending
    /\ Proceeds(c, [at |-> IF accepted THEN "accept" ELSE "answer", keys |-> keys,
                    next |-> [pending |-> suggestions.pending \ {keys},
                              dismissed |-> suggestions.dismissed \cup
                                            (IF accepted THEN {} ELSE {keys})]])
    /\ UNCHANGED <<answers, kept, customized, wires, suggestions, apart, TheLaundry>>
AcceptProfileSuggestion(c) ==
    /\ session[c].at = "accept"
    /\ SyncCatalogTemplates(session[c].keys)
    /\ Proceeds(c, [session[c] EXCEPT !.at = "answer"])
    /\ UNCHANGED <<answers, suggestions, TheLaundry>>
UpdateProfileSuggestions(c) ==
    /\ session[c].at = "answer"
    /\ suggestions' = session[c].next
    /\ Closes(c)
    /\ UNCHANGED <<answers, kept, customized, wires, apart, TheLaundry>>

-----------------------------------------------------------------------------
(* Templates by hand, and chores.                                           *)

\* updateTemplate replaces the rules; deleteTemplate wants a template without chores.
Customize(k, targets) ==
    /\ k \in kept \cap Wash /\ targets \subseteq Starter[k].next \cap kept
    /\ customized' = customized \cup {k}
    /\ wires' = [e \in StarterChains |->
                    IF e[1] # k THEN wires[e] ELSE IF e[2] \in targets THEN 1 ELSE 0]
    /\ byHand' = TRUE /\ apart' = TRUE
    /\ UNCHANGED <<answers, kept, suggestions, session, open, loose, used, loads>>
DeleteStarter(k) ==
    /\ k \in (kept \cap Wash) \ used
    /\ kept' = kept \ {k} /\ customized' = customized \ {k}
    /\ wires' = [e \in StarterChains |-> IF k \in {e[1], e[2]} THEN 0 ELSE wires[e]]
    /\ byHand' = TRUE /\ apart' = TRUE
    /\ UNCHANGED <<answers, suggestions, session, open, loose, used, loads>>

BeginLoad ==
    /\ "laundry_run_machine" \in kept /\ loads < MaxLoads
    /\ loads' = loads + 1
    /\ open' = [open EXCEPT !["laundry_run_machine"] = @ + 1]
    /\ used' = used \cup {"laundry_run_machine"}
    /\ UNCHANGED <<answers, kept, customized, wires, suggestions, session, loose, byHand, apart>>

\* createFollowUpInstances: one chore for each rule of the template, none without one.
CompleteChore(k) ==
    /\ open[k] > 0
    /\ open' = [t \in Wash |->
                  (IF t = k THEN open[t] - 1 ELSE open[t])
                  + (IF t \in Starter[k].next THEN wires[<<k, t>>] ELSE 0)]
    /\ used' = used \cup {t \in Starter[k].next : wires[<<k, t>>] > 0}
    /\ UNCHANGED <<answers, kept, customized, wires, suggestions, session, loose, loads,
                   byHand, apart>>
CompleteLoose ==
    /\ loose > 0 /\ loose' = loose - 1
    /\ UNCHANGED <<answers, kept, customized, wires, suggestions, session, open, used, loads,
                   byHand, apart>>

StartersNext(calls) ==
    \/ "first" \in calls /\ answers = NoAnswers /\ \E a \in AllAnswers : SubmitOnboarding(a)
    \/ "wizard" \in calls /\ \E a \in Profiles : SubmitOnboarding(a)
    \/ "draft" \in calls /\ \E a \in Profiles \cup {HalfAnswered} : SaveDraft(a)
    \/ /\ "profile" \in calls
       /\ \E c \in {d \in Sessions : d = 1 \/ "overlap" \in calls} :
             \/ SyncAnswers(c) \/ SyncCatalog(c)
             \/ (\E a \in Profiles : ProfileRead(c, a)) \/ SaveHouseholdProfile(c)
             \/ \E keys \in suggestions.pending, accepted \in BOOLEAN :
                    SuggestionRead(c, keys, accepted)
             \/ AcceptProfileSuggestion(c) \/ UpdateProfileSuggestions(c)
    \/ "hand" \in calls /\ \E k \in Wash : \/ \E S \in SUBSET Starter[k].next : Customize(k, S)
                                           \/ DeleteStarter(k)
    \/ "load" \in calls /\ (BeginLoad \/ (\E k \in Wash : CompleteChore(k)) \/ CompleteLoose)

\* As long as only answers have shaped the laundry, a load of washing is in one place: there
\* are never more open chores of it than loads were begun, whatever the wizard, accepted
\* suggestions and synchronisations have added, in whatever order.
OneLoadAtATime == ~byHand => FoldFunction(+, loose, open) <= loads

\* After the wizard, and until templates change again, what does not come again by itself
\* and follows another chore is called for by a chore that the household has.
FollowUpsComeUp ==
    ~apart => \A t \in kept :
        ~Starter[t].recurs /\ (\E e \in StarterChains : e[2] = t)
            => \E e \in StarterChains : e[2] = t /\ wires[e] > 0
=================================================================================
