------------------------------- MODULE Templates -------------------------------
(***************************************************************************)
(* Chore templates and the rules by which one calls for another: edited by *)
(* members, seeded and reset from the catalogue, chosen anew by the        *)
(* onboarding wizard, synchronised, and pushed by the operator.  Each of   *)
(* these reads, and then writes in one transaction at READ COMMITTED.  The *)
(* text of a template is who wrote it; groups, audiences, checklists and   *)
(* variants are left out.  A rule row has no unique pair, and nothing ties *)
(* its follow-up to a template that exists.                                *)
(***************************************************************************)
EXTENDS Naturals, FiniteSets

CONSTANTS Catalog,      \* catalogue keys
          Chains,       \* followUps of the catalogue: pairs of keys
          MaxTemplates, \* how many templates may ever be stored
          Editors,      \* calls, numbered in the order in which they begin
          Selections    \* keys that the answers of the wizard may select

Own == "own"            \* catalogKey null

ASSUME TemplatesAssumption ==
    /\ Own \notin Catalog /\ MaxTemplates \in Nat /\ Editors \subseteq Nat
    /\ IsFiniteSet(Catalog) /\ Selections \subseteq SUBSET Catalog

Ids == 1..MaxTemplates

VARIABLES template,     \* Ids -> the row, Unborn or Gone
          rules,        \* rows of ChoreTemplateDependency: [from, to, by]
          inUse,        \* templates that chores were made from
          edit,         \* Editors -> where the call is
          overlapped    \* history: whether two calls were ever under way at once

templates == <<template, rules, inUse, edit, overlapped>>

Unborn == [key |-> "unborn"]
Gone == [key |-> "gone"]
Unmade == [at |-> "idle"]

Lives(t) == template[t] \notin {Unborn, Gone}
Existing == {t \in Ids : Lives(t)}
Seeded == {t \in Existing : template[t].key # Own}
Customized(t) == template[t].custom
WithKey(k) == {t \in Existing : template[t].key = k}
From(S) == {r \in rules : r.from \in S}
Fresh(key, text) == [key |-> key, text |-> text, custom |-> FALSE, update |-> FALSE]

TemplatesTypeOK ==
    /\ \A k \in Catalog : Cardinality(WithKey(k)) <= 1
    /\ \A r \in rules : Lives(r.from)
    /\ inUse \subseteq Existing

Busy(c) == edit[c].at \notin {"idle", "over"}
Moves(c, next) == edit' = [edit EXCEPT ![c] = next]
Begins(c, next) ==
    /\ edit[c] = Unmade /\ \A d \in Editors : d < c => edit[d] # Unmade
    /\ Moves(c, next)
    /\ overlapped' = (overlapped \/ \E d \in Editors \ {c} : Busy(d))
    /\ UNCHANGED <<template, rules, inUse>>
Finish(c) == Moves(c, [at |-> "over"]) /\ UNCHANGED overlapped

Rows(c, t, targets) == {[from |-> t, to |-> x, by |-> c] : x \in targets}

\* createTemplate and updateTemplate: the follow-ups exist when they are looked up.
\* An update deletes the rules that it sees, then writes the template and new rules.
NewTemplateRead(c, targets) ==
    /\ targets \subseteq Existing
    /\ Begins(c, [at |-> "create", targets |-> targets])
NewId == CHOOSE t \in Ids : template[t] = Unborn
Create(c) ==
    /\ edit[c].at = "create" /\ \E t \in Ids : template[t] = Unborn
    /\ template' = [template EXCEPT ![NewId] = Fresh(Own, Own)]
    /\ rules' = rules \cup Rows(c, NewId, edit[c].targets)
    /\ Finish(c)
    /\ UNCHANGED inUse
UpdateRead(c, t, targets) ==
    /\ Lives(t) /\ targets \subseteq Existing \ {t}
    /\ Begins(c, [at |-> "look", id |-> t, targets |-> targets])
UpdateLook(c) ==
    /\ edit[c].at = "look"
    /\ Moves(c, [at |-> "update", id |-> edit[c].id, targets |-> edit[c].targets,
                 seen |-> From({edit[c].id})])
    /\ UNCHANGED <<template, rules, inUse, overlapped>>
Update(c) ==
    /\ edit[c].at = "update"
    /\ LET t == edit[c].id
       IN IF Lives(t)
          THEN /\ template' = [template EXCEPT ![t] =
                      IF @.key = Own THEN @
                      ELSE [@ EXCEPT !.text = Own, !.custom = TRUE, !.update = FALSE]]
               /\ rules' = (rules \ edit[c].seen) \cup Rows(c, t, edit[c].targets)
          ELSE UNCHANGED <<template, rules>>
    /\ Finish(c)
    /\ UNCHANGED inUse

\* deleteTemplate: no chore was made from it; its rules go, and those that call for it.
\* (DropOwn: as if only its own rules went.)
DropTemplateRead(c, t) == Lives(t) /\ t \notin inUse /\ Begins(c, [at |-> "delete", id |-> t])
DropOwn(t) == rules' = rules \ From({t})
DropRules(t) == rules' = {r \in rules : t \notin {r.from, r.to}}
Delete(c) ==
    /\ edit[c].at = "delete"
    /\ LET t == edit[c].id
       IN IF Lives(t)
          THEN /\ DropRules(t)
               /\ template' = [template EXCEPT ![t] = Gone]
               /\ inUse' = inUse \ {t}
          ELSE UNCHANGED <<template, rules, inUse>>
    /\ Finish(c)

\* restoreTemplateToOperatorDefault clears the flags; a chore is made from a template.
Restore(t) ==
    /\ t \in Seeded
    /\ template' = [template EXCEPT ![t].custom = FALSE, ![t].update = FALSE]
    /\ UNCHANGED <<rules, inUse, edit, overlapped>>
Use(t) ==
    /\ Lives(t) /\ inUse' = inUse \cup {t}
    /\ UNCHANGED <<template, rules, edit, overlapped>>

-----------------------------------------------------------------------------
(* Imports: what one has read decides which templates it drops, makes,      *)
(* rewrites and flags, which catalogue templates it wires to one another,   *)
(* and which rules of others it points anew.                                *)

\* The catalogue templates of a set, by their keys.
ByKey(S) == [k \in {template[t].key : t \in S} |-> CHOOSE t \in S : template[t].key = k]
Import(kind, text) ==
    [at |-> "import", kind |-> kind, text |-> text, drop |-> {}, make |-> {}, rewrite |-> {},
     flag |-> {}, wire |-> {}, clear |-> {}, repoint |-> {}, skip |-> {}, known |-> ByKey(Seeded)]

\* ensureDefaultTemplates, of a household without templates; resetDefaultTemplates.
EnsureRead(c) ==
    /\ Existing = {}
    /\ Begins(c, [Import("ensure", "catalog") EXCEPT !.make = Catalog, !.wire = Catalog])
ResetAllRead(c) ==
    Begins(c, [Import("reset", "catalog") EXCEPT
                  !.drop = Existing, !.make = Catalog, !.wire = Catalog, !.known = ByKey({})])

\* syncCatalogTemplates makes what is missing of a selection, and wires that.
SyncRead(c, keys) ==
    LET missing == {k \in keys : WithKey(k) = {}}
    IN Begins(c, [Import("sync", "catalog") EXCEPT !.make = missing, !.wire = missing])

\* applyOnboarding keeps the customised templates of the selection and makes the rest
\* anew; rules of the household's own templates follow to the new ones.
WizardKeeps(keys) == {t \in Seeded : Customized(t) /\ template[t].key \in keys}
Followers ==
    {[row |-> r, key |-> template[r.to].key] :
        r \in {x \in rules : x.from \notin Seeded /\ x.to \in Seeded}}
WizardRead(c, keys) ==
    LET kept == WizardKeeps(keys)
    IN Begins(c, [Import("wizard", "catalog") EXCEPT
                     !.known = ByKey(kept), !.drop = Seeded \ kept,
                     !.make = keys \ {template[t].key : t \in kept},
                     !.wire = keys, !.repoint = Followers])

\* importOperatorTemplates: what a member customised is skipped, and flagged if it
\* differs, unless the push is forced; the rest is rewritten or made; all is wired.
\* (PushOver: as if nothing was customised.)
Skipped(force) == {t \in Seeded : Customized(t) /\ ~force}
PushImport(force, spared) ==
    [Import("push", "pushed") EXCEPT
        !.make = {k \in Catalog : WithKey(k) = {}}, !.rewrite = Seeded \ spared,
        !.flag = {t \in spared : template[t].text # "pushed"}, !.wire = Catalog,
        !.clear = From(Seeded \ spared), !.skip = Skipped(force)]
PushOver(c, force) == Begins(c, PushImport(force, {}))
PushRead(c, force) == Begins(c, PushImport(force, Skipped(force)))

\* The ids by key: of the templates that are made, and of those that were known.
FreeIds == {t \in Ids : template[t] = Unborn}
MadeBy(p) ==
    CHOOSE f \in [p.make -> FreeIds] : \A k, l \in p.make : f[k] = f[l] => k = l
IdsOf(p) ==
    LET made == MadeBy(p)
    IN [k \in p.make \cup DOMAIN p.known |-> IF k \in p.make THEN made[k] ELSE p.known[k]]
Wired(c, p) ==
    LET id == IdsOf(p)
    IN {[from |-> id[e[1]], to |-> id[e[2]], by |-> c] :
           e \in {x \in Chains : x[1] \in p.wire \cap DOMAIN id /\ x[2] \in DOMAIN id}}

\* The transaction fails if a key was taken meanwhile, or a row is gone that it writes
\* by id or that a new rule belongs to.
Conflicts(c, p) ==
    \/ \E k \in p.make : WithKey(k) \ p.drop # {}
    \/ \E t \in p.rewrite \cup p.flag \cup {r.from : r \in Wired(c, p)} : template[t] = Gone
    \/ \E f \in p.repoint : f.row \notin rules

\* (Forget: as if rules of others were left where they point.)
Forget(p) == {f.row : f \in p.repoint}
Repoint(p) ==
    LET id == IdsOf(p)
    IN {[f.row EXCEPT !.to = id[f.key]] : f \in {x \in p.repoint : x.key \in DOMAIN id}}
Imported(p) ==
    LET made == MadeBy(p)
    IN [t \in Ids |->
           IF \E k \in p.make : made[k] = t THEN Fresh(CHOOSE k \in p.make : made[k] = t, p.text)
           ELSE IF t \in p.drop THEN Gone
           ELSE IF t \in p.rewrite THEN Fresh(template[t].key, p.text)
           ELSE IF t \in p.flag THEN [template[t] EXCEPT !.update = TRUE]
           ELSE template[t]]
Commit(c) ==
    LET p == edit[c]
    IN /\ p.at = "import"
       /\ Cardinality(p.make) <= Cardinality(FreeIds)
       /\ \/ /\ Conflicts(c, p)
             /\ UNCHANGED <<template, rules, inUse>>
          \/ /\ ~Conflicts(c, p)
             /\ template' = Imported(p)
             /\ rules' = Wired(c, p) \cup Repoint(p) \cup
                    (rules \ (p.clear \cup {f.row : f \in p.repoint} \cup From(p.drop)))
             /\ inUse' = inUse \ p.drop
       /\ Finish(c)

TemplatesInit ==
    /\ rules = {} /\ inUse = {}
    /\ edit = [c \in Editors |-> Unmade]
    /\ overlapped = FALSE

TemplatesCall(c) ==
    \/ \E S \in SUBSET Existing : NewTemplateRead(c, S) \/ \E t \in Existing : UpdateRead(c, t, S)
    \/ Create(c) \/ UpdateLook(c) \/ Update(c) \/ Delete(c) \/ Commit(c)
    \/ \E t \in Existing : DropTemplateRead(c, t)
    \/ EnsureRead(c) \/ ResetAllRead(c)
    \/ \E keys \in Selections : SyncRead(c, keys) \/ WizardRead(c, keys)
    \/ \E force \in BOOLEAN : PushRead(c, force)
TemplatesNext ==
    \/ \E c \in Editors : TemplatesCall(c)
    \/ \E t \in Ids : Restore(t) \/ Use(t)

\* A push that saw a customised template leaves the member's text alone, whatever
\* happens between its reading and its writing.
MembersVersionKept ==
    [][\A c \in Editors : edit[c].at = "import" /\ edit'[c].at = "over" =>
          \A t \in edit[c].skip :
              Lives(t) => Lives(t)' /\ template'[t].text = template[t].text]_templates

\* As long as calls do not overlap, the rules of the household's own templates lead to
\* templates that exist, through deletions, resets, pushes and the wizard.
OwnRulesResolve ==
    ~overlapped => \A r \in rules : template[r.from].key = Own => Lives(r.to)
================================================================================
