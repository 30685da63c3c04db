------------------------------ MODULE Parts_proofs ------------------------------
(***************************************************************************)
(* More parts of the server, in a behaviour of it: the templates from the  *)
(* rows that an import leaves and that overlapping calls alone can undo,   *)
(* the starters from the rules of the answers, the rewards from what was   *)
(* granted when a child asked, the board of a session from what is on its  *)
(* way to put it right, and a series from its count and its rhythm.        *)
(***************************************************************************)
EXTENDS Server, Sums, FunctionTheorems

\* Each takes steps of its own.
LEMMA PartsMove ==
    ASSUME [ServerNext]_<<vars, parts>>
    PROVE  /\ [TemplatesNext]_templates
           /\ [\E S : StartersNext(S)]_starters
           /\ [\E S : PrizesNext(S)]_prizes
BY DEF ServerNext, vars, parts, AccountsStep, TemplatesStep, BonusesStep, DashboardStep, TurnsStep,
      CalendarStep, StartersStep, PrizesStep

\* The templates.
\* As many free ids as are needed: the new templates get one each.
LEMMA Enough ==
    ASSUME NEW S, NEW T, IsFiniteSet(S), IsFiniteSet(T), Cardinality(S) <= Cardinality(T)
    PROVE  \E f \in [S -> T] : \A x, y \in S : f[x] = f[y] => x = y
<1>1. PICK m \in Nat, n \in Nat : m = Cardinality(S) /\ n = Cardinality(T)
  BY FS_CardinalityType
<1>2. ExistsBijection(1..m, S) /\ ExistsBijection(1..n, T)
  BY <1>1, FS_CardinalityType
<1>3. ExistsInjection(S, 1..m) /\ ExistsInjection(1..n, T)
  BY <1>2, Fun_ExistsBijEquiv
<1>4. ExistsInjection(1..m, 1..n)
  BY <1>1, Fun_NatInjLeq
<1>5. ExistsInjection(S, T)
  BY <1>3, <1>4, Fun_ExistsInjTransitive
<1>6. PICK f : f \in Injection(S, T)
  BY <1>5 DEF ExistsInjection
<1>. QED  BY <1>6 DEF Injection, IsInjective

LEMMA MadeByIs ==
    ASSUME NEW p, p.make \subseteq Catalog, Cardinality(p.make) <= Cardinality(FreeIds)
    PROVE  /\ MadeBy(p) \in [p.make -> FreeIds]
           /\ \A k, l \in p.make : MadeBy(p)[k] = MadeBy(p)[l] => k = l
<1>1. IsFiniteSet(p.make)
  BY TemplatesAssumption, FS_Subset
<1>2. IsFiniteSet(FreeIds)
  <2>1. IsFiniteSet(1..MaxTemplates)
    BY TemplatesAssumption, FS_Interval
  <2>. QED  BY <2>1, FS_Subset DEF FreeIds, Ids
<1>3. \E f \in [p.make -> FreeIds] : \A k, l \in p.make : f[k] = f[l] => k = l
  BY <1>1, <1>2, Enough
<1>. QED  BY <1>3 DEF MadeBy

LEMMA ByKeyIn == ASSUME NEW S, NEW k \in DOMAIN ByKey(S) PROVE ByKey(S)[k] \in S
<1>1. k \in {template[t].key : t \in S} /\ ByKey(S)[k] = CHOOSE t \in S : template[t].key = k
  BY DEF ByKey
<1>2. PICK t \in S : template[t].key = k
  BY <1>1
<1>. QED  BY <1>1, <1>2

\* A row of a template, and of a rule; what a call has read and will write.
Texts == {Own, "catalog", "pushed"}
TemplateRows == [key : Catalog \cup {Own}, text : Texts, custom : BOOLEAN, update : BOOLEAN]
RuleRows == [from : Ids, to : Ids, by : Editors]
Born == {t \in Ids : template[t] # Unborn}
Imports(x) ==
    /\ x.make \subseteq Catalog /\ x.text \in {"catalog", "pushed"}
    /\ x.drop \cup x.rewrite \cup x.flag \cup x.skip \subseteq Born
    /\ x.skip \cap (x.drop \cup x.rewrite) = {}
    /\ \A k \in DOMAIN x.known : x.known[k] \in Born
    /\ \A f \in x.repoint : f.row \in RuleRows /\ f.row.from \in Born
Edits(x) ==
    /\ x.at \in {"idle", "create", "look", "update", "delete", "import", "over"}
    /\ x.at \in {"create", "look", "update"} => x.targets \subseteq Ids
    /\ x.at \in {"look", "update", "delete"} => x.id \in Ids
    /\ x.at = "import" => Imports(x)
TemplatesInv ==
    /\ template \in [Ids -> TemplateRows \cup {Unborn, Gone}]
    /\ rules \subseteq RuleRows /\ \A r \in rules : r.from \in Born
    /\ DOMAIN edit = Editors /\ \A c \in Editors : Edits(edit[c])

\* While no calls overlap, what the one call has read is so still: its targets and
\* the templates it knows exist, and it will see to the rules that it would break.
Leads == \A r \in rules : template[r.from].key = Own => Lives(r.to)
Current(x) ==
    /\ x.at \in {"create", "look", "update"} => x.targets \subseteq Existing
    /\ x.at = "import" =>
          /\ \A k \in DOMAIN x.known : x.known[k] \in Existing \ x.drop
          /\ \A r \in rules : template[r.from].key = Own /\ r.from \notin x.drop /\ r.to \in x.drop =>
                \E f \in x.repoint : f.row = r
Alone ==
    /\ Leads /\ \A c \in Editors : Current(edit[c])
    /\ \A c, d \in Editors : Busy(c) /\ Busy(d) => c = d
RulesInv == TemplatesInv /\ (~overlapped => Alone)

LEMMA TemplateForms ==
    /\ \A x \in TemplateRows : x # Unborn /\ x # Gone
    /\ Unborn # Gone /\ Unborn.key # Own /\ Gone.key # Own
    /\ \A k \in Catalog \cup {Own}, w \in Texts : Fresh(k, w) \in TemplateRows
<1>1. ASSUME NEW x \in TemplateRows PROVE x # Unborn /\ x # Gone
  <2>1. "text" \in DOMAIN x
    BY DEF TemplateRows
  <2>. QED  BY <2>1 DEF Unborn, Gone
<1>2. Unborn # Gone /\ Unborn.key # Own /\ Gone.key # Own
  BY DEF Unborn, Gone, Own
<1>3. \A k \in Catalog \cup {Own}, w \in Texts : Fresh(k, w) \in TemplateRows
  BY DEF Fresh, TemplateRows
<1>. QED  BY <1>1, <1>2, <1>3

LEMMA LivesIs == ASSUME TemplatesInv, NEW t \in Ids PROVE Lives(t) <=> template[t] \in TemplateRows
BY TemplateForms DEF Lives, TemplatesInv
LEMMA OwnLives == ASSUME TemplatesInv, NEW t \in Ids, template[t].key = Own PROVE Lives(t)
BY TemplateForms DEF Lives, TemplatesInv

\* A call begins with what it reads.
LEMMA BeginKeeps ==
    ASSUME RulesInv, NEW c \in Editors, NEW x, Begins(c, x), Edits(x),
           ~overlapped => Current(x)
    PROVE  RulesInv'
<1>1. /\ edit'[c] = x /\ \A d \in Editors \ {c} : edit'[d] = edit[d]
      /\ DOMAIN edit' = Editors /\ UNCHANGED <<template, rules, inUse>>
  BY DEF Begins, Moves, RulesInv, TemplatesInv
<1>2. TemplatesInv'
  <2>1. Edits(x)'
    BY <1>1 DEF Edits, Imports, Born
  <2>2. \A d \in Editors : Edits(edit[d])'
    <3>1. ASSUME NEW d \in Editors \ {c}, NEW y, y = edit[d] PROVE Edits(y)'
      BY <1>1, <3>1 DEF Edits, Imports, Born, RulesInv, TemplatesInv
    <3>. QED  BY <1>1, <2>1, <3>1 DEF Edits, Imports, Born
  <2>. QED  BY <1>1, <2>2 DEF RulesInv, TemplatesInv, Born, Edits, Imports
<1>3. ASSUME ~overlapped' PROVE Alone'
  <2>1. ~overlapped /\ \A d \in Editors \ {c} : ~Busy(d)
    BY <1>3 DEF Begins
  <2>2. Alone /\ Current(x)
    BY <2>1 DEF RulesInv
  <2>3. \A d \in Editors : Busy(d)' => d = c
    BY <1>1, <2>1 DEF Busy
  <2>4. \A d \in Editors : Current(edit'[d])
    BY <1>1, <2>2 DEF Alone
  <2>. QED  BY <1>1, <2>2, <2>3, <2>4 DEF Alone, Leads, Lives, Current, Existing
<1>. QED  BY <1>2, <1>3 DEF RulesInv

\* A call ends, having written what leaves every template that was made made.
LEMMA FinishKeeps ==
    ASSUME RulesInv, NEW c \in Editors, Busy(c), Finish(c),
           template' \in [Ids -> TemplateRows \cup {Unborn, Gone}], rules' \subseteq RuleRows,
           \A t \in Born : template'[t] # Unborn, \A r \in rules' : r.from \in Born',
           ~overlapped => Leads'
    PROVE  RulesInv'
<1>1. /\ edit'[c] = [at |-> "over"] /\ \A d \in Editors \ {c} : edit'[d] = edit[d]
      /\ DOMAIN edit' = Editors /\ UNCHANGED overlapped
  BY DEF Finish, Moves, RulesInv, TemplatesInv
<1>2. Born \subseteq Born'
  BY DEF Born
<1>3. \A d \in Editors : Edits(edit[d])'
  <2>1. ASSUME NEW d \in Editors \ {c}, NEW y, y = edit[d] PROVE Edits(y)'
    BY <1>2, <2>1 DEF Edits, Imports, RulesInv, TemplatesInv
  <2>2. ASSUME NEW y, y = [at |-> "over"] PROVE Edits(y)'
    BY <2>2 DEF Edits
  <2>. QED  BY <1>1, <2>1, <2>2 DEF Edits, Imports
<1>4. TemplatesInv'
  BY <1>1, <1>3 DEF TemplatesInv, Edits, Imports
<1>5. ASSUME ~overlapped PROVE Alone'
  <2>1. \A d \in Editors : edit'[d].at \in {"idle", "over"}
    BY <1>1, <1>5 DEF RulesInv, Alone, Busy
  <2>2. \A d \in Editors : Current(edit[d])' /\ ~Busy(d)'
    BY <2>1 DEF Current, Busy
  <2>. QED  BY <1>5, <2>2 DEF Alone, Current
<1>. QED  BY <1>1, <1>4, <1>5 DEF RulesInv

\* Neither the calls nor which templates and rules there are change.
LEMMA RowsStay ==
    ASSUME RulesInv, UNCHANGED <<rules, edit, overlapped>>,
           template' \in [Ids -> TemplateRows \cup {Unborn, Gone}],
           \A t \in Ids : /\ template'[t].key = template[t].key /\ (Lives(t)' <=> Lives(t))
                          /\ template'[t] = Unborn <=> template[t] = Unborn
    PROVE  RulesInv'
<1>1. Born' = Born /\ Existing' = Existing
  BY DEF Born, Existing
<1>2. TemplatesInv'
  <2>1. ASSUME NEW d \in Editors, NEW y, y = edit[d] PROVE Edits(y)'
    BY <1>1, <2>1 DEF Edits, Imports, RulesInv, TemplatesInv
  <2>2. \A d \in Editors : Edits(edit[d])'
    BY <2>1 DEF Edits, Imports
  <2>. QED  BY <1>1, <2>2 DEF RulesInv, TemplatesInv, Edits, Imports
<1>3. ASSUME Alone PROVE Alone'
  <2>1. \A r \in rules : r.from \in Ids /\ r.to \in Ids
    BY DEF RulesInv, TemplatesInv, RuleRows
  <2>2. Leads'
    BY <1>3, <2>1 DEF Alone, Leads
  <2>3. ASSUME NEW d \in Editors, NEW y, y = edit[d] PROVE Current(y)'
    BY <1>1, <1>3, <2>1, <2>3 DEF Alone, Current
  <2>4. \A d \in Editors : Current(edit[d])'
    BY <2>3 DEF Current
  <2>. QED  BY <1>3, <2>2, <2>4 DEF Alone, Busy, Current
<1>. QED  BY <1>2, <1>3 DEF RulesInv

LEMMA RestoreKeeps == ASSUME RulesInv, NEW t \in Ids, Restore(t) \/ Use(t) PROVE RulesInv'
<1>1. CASE Use(t)
  BY <1>1, RowsStay DEF Use, RulesInv, TemplatesInv, Lives
<1>2. CASE Restore(t)
  <2>1. PICK x \in TemplateRows : x = template[t]
    BY <1>2, LivesIs DEF Restore, Seeded, Existing, RulesInv
  <2>2. PICK y \in TemplateRows : y = [x EXCEPT !.custom = FALSE, !.update = FALSE] /\ y.key = x.key
    <3>1. PICK z : z = [x EXCEPT !.custom = FALSE]
      OBVIOUS
    <3>2. z \in TemplateRows /\ z.key = x.key
      BY <3>1 DEF TemplateRows
    <3>3. PICK y : y = [z EXCEPT !.update = FALSE]
      OBVIOUS
    <3>4. y \in TemplateRows /\ y.key = z.key
      BY <3>2, <3>3 DEF TemplateRows
    <3>. QED  BY <3>1, <3>2, <3>3, <3>4
  <2>3. template' = [template EXCEPT ![t] = y]
    BY <1>2, <2>1, <2>2 DEF Restore, RulesInv, TemplatesInv
  <2>4. \A s \in Ids : template'[s] = template[s] \/ (template'[s] = y /\ s = t)
    BY <2>3 DEF RulesInv, TemplatesInv
  <2>. QED  BY <1>2, <2>1, <2>2, <2>3, <2>4, TemplateForms, RowsStay DEF Restore, RulesInv, TemplatesInv, Lives
<1>. QED  BY <1>1, <1>2

LEMMA CreateKeeps == ASSUME RulesInv, NEW c \in Editors, Create(c) PROVE RulesInv'
<1>1. PICK i \in Ids : i = NewId /\ template[i] = Unborn
  BY DEF Create, NewId
<1>2. PICK y \in TemplateRows : y = Fresh(Own, Own)
  BY TemplateForms DEF Texts
<1>3. PICK S \in SUBSET Ids : S = edit[c].targets /\ (~overlapped => S \subseteq Existing)
  BY DEF Create, RulesInv, TemplatesInv, Edits, Alone, Current
<1>4. template' = [template EXCEPT ![i] = y] /\ rules' = rules \cup Rows(c, i, S) /\ Finish(c) /\ Busy(c)
  BY <1>1, <1>2, <1>3 DEF Create, Busy
<1>5. template'[i] = y /\ \A t \in Ids \ {i} : template'[t] = template[t]
  BY <1>4 DEF RulesInv, TemplatesInv
<1>6. template' \in [Ids -> TemplateRows \cup {Unborn, Gone}]
  BY <1>4 DEF RulesInv, TemplatesInv
<1>7. Rows(c, i, S) \subseteq RuleRows /\ \A r \in Rows(c, i, S) : r.from = i /\ r.to \in S
  BY DEF Rows, RuleRows
<1>8. \A t \in Born : t # i /\ t \in Ids
  BY <1>1 DEF Born
<1>9. \A r \in rules' : r.from \in Born'
  BY <1>4, <1>5, <1>7, <1>8, TemplateForms DEF RulesInv, TemplatesInv, Born
<1>10. ASSUME ~overlapped PROVE Leads'
  <2>1. ASSUME NEW t \in Existing PROVE Lives(t)'
    BY <1>1, <1>5, <2>1, TemplateForms DEF Existing, Lives
  <2>2. ASSUME NEW r \in rules, template'[r.from].key = Own PROVE r.to \in Existing
    BY <1>5, <1>8, <1>10, <2>2 DEF RulesInv, TemplatesInv, Alone, Leads, RuleRows, Existing
  <2>. QED  BY <1>3, <1>4, <1>7, <1>10, <2>1, <2>2 DEF Leads
<1>. QED  BY <1>4, <1>5, <1>6, <1>7, <1>8, <1>9, <1>10, FinishKeeps DEF RulesInv, TemplatesInv, Born

LEMMA UpdateKeeps == ASSUME RulesInv, NEW c \in Editors, Update(c) PROVE RulesInv'
<1>1. PICK i \in Ids, S \in SUBSET Ids : /\ i = edit[c].id /\ S = edit[c].targets
                                         /\ ~overlapped => S \subseteq Existing
  BY DEF Update, RulesInv, TemplatesInv, Edits, Alone, Current
<1>2. Finish(c) /\ Busy(c)
  BY DEF Update, Busy
<1>3. CASE ~Lives(i)
  BY <1>1, <1>2, <1>3, FinishKeeps DEF Update, RulesInv, TemplatesInv, Born, Alone, Leads, Lives
<1>4. CASE Lives(i)
  <2>1. PICK x \in TemplateRows : x = template[i]
    BY <1>4, LivesIs DEF RulesInv
  <2>2. PICK y \in TemplateRows : /\ y.key = x.key
                                  /\ y = IF x.key = Own THEN x
                                         ELSE [x EXCEPT !.text = Own, !.custom = TRUE, !.update = FALSE]
    BY DEF TemplateRows, Texts
  <2>3. template' = [template EXCEPT ![i] = y] /\ rules' = (rules \ edit[c].seen) \cup Rows(c, i, S)
    BY <1>1, <1>4, <2>1, <2>2 DEF Update
  <2>4. template'[i] = y /\ \A t \in Ids \ {i} : template'[t] = template[t]
    BY <2>3 DEF RulesInv, TemplatesInv
  <2>5. template' \in [Ids -> TemplateRows \cup {Unborn, Gone}]
    BY <2>3 DEF RulesInv, TemplatesInv
  <2>6. Rows(c, i, S) \subseteq RuleRows /\ \A r \in Rows(c, i, S) : r.from = i /\ r.to \in S
    BY DEF Rows, RuleRows
  <2>7. \A t \in Ids : template'[t].key = template[t].key /\ (Lives(t)' <=> Lives(t))
    BY <2>1, <2>2, <2>4, TemplateForms DEF Lives
  <2>8. Born' = Born /\ i \in Born
    BY <2>1, <2>4, TemplateForms DEF Born
  <2>9. ASSUME ~overlapped PROVE Leads'
    <3>1. \A r \in rules : r.from \in Ids /\ r.to \in Ids
      BY DEF RulesInv, TemplatesInv, RuleRows
    <3>. QED  BY <1>1, <2>3, <2>6, <2>7, <2>9, <3>1 DEF RulesInv, Alone, Leads, Existing
  <2>10. rules' \subseteq RuleRows /\ \A r \in rules' : r.from \in Born'
    BY <2>3, <2>6, <2>8 DEF RulesInv, TemplatesInv
  <2>11. \A t \in Born : template'[t] # Unborn
    BY <2>8 DEF Born
  <2>. QED  BY <1>2, <2>5, <2>9, <2>10, <2>11, FinishKeeps
<1>. QED  BY <1>3, <1>4

LEMMA DeleteKeeps == ASSUME RulesInv, NEW c \in Editors, Delete(c) PROVE RulesInv'
<1>1. PICK i \in Ids : i = edit[c].id
  BY DEF Delete, RulesInv, TemplatesInv, Edits
<1>2. Finish(c) /\ Busy(c)
  BY DEF Delete, Busy
<1>3. CASE ~Lives(i)
  BY <1>1, <1>2, <1>3, FinishKeeps DEF Delete, RulesInv, TemplatesInv, Born, Alone, Leads, Lives
<1>4. CASE Lives(i)
  <2>1. template' = [template EXCEPT ![i] = Gone] /\ rules' = {r \in rules : i \notin {r.from, r.to}}
    BY <1>1, <1>4 DEF Delete, DropRules
  <2>2. template'[i] = Gone /\ \A t \in Ids \ {i} : template'[t] = template[t]
    BY <2>1 DEF RulesInv, TemplatesInv
  <2>3. template' \in [Ids -> TemplateRows \cup {Unborn, Gone}]
    BY <2>1 DEF RulesInv, TemplatesInv
  <2>4. \A r \in rules' : r \in rules /\ r.from \in Ids \ {i} /\ r.to \in Ids \ {i}
    BY <2>1 DEF RulesInv, TemplatesInv, RuleRows
  <2>5. \A t \in Born : template'[t] # Unborn
    BY <2>2, TemplateForms DEF Born
  <2>6. \A r \in rules' : r.from \in Born'
    BY <2>4, <2>5 DEF RulesInv, TemplatesInv, Born
  <2>7. ~overlapped => Leads'
    BY <2>2, <2>4 DEF RulesInv, Alone, Leads, Lives
  <2>. QED  BY <1>2, <2>3, <2>4, <2>5, <2>6, <2>7, FinishKeeps DEF RulesInv, TemplatesInv
<1>. QED  BY <1>3, <1>4

LEMMA LookKeeps == ASSUME RulesInv, NEW c \in Editors, UpdateLook(c) PROVE RulesInv'
<1>1. PICK i \in Ids, S \in SUBSET Ids : /\ i = edit[c].id /\ S = edit[c].targets
                                         /\ ~overlapped => S \subseteq Existing
  BY DEF UpdateLook, RulesInv, TemplatesInv, Edits, Alone, Current
<1>2. PICK y : y = [at |-> "update", id |-> i, targets |-> S, seen |-> From({i})]
  OBVIOUS
<1>3. /\ edit'[c] = y /\ \A d \in Editors \ {c} : edit'[d] = edit[d]
      /\ DOMAIN edit' = Editors /\ UNCHANGED <<template, rules, overlapped>>
  BY <1>1, <1>2 DEF UpdateLook, Moves, RulesInv, TemplatesInv
<1>4. Edits(y) /\ (~overlapped => Current(y)) /\ Busy(c)
  BY <1>1, <1>2 DEF Edits, Current, UpdateLook, Busy
<1>5. \A d \in Editors : Edits(edit'[d]) /\ (~overlapped => Current(edit'[d])) /\ (Busy(d)' => Busy(d))
  BY <1>3, <1>4 DEF RulesInv, TemplatesInv, Alone, Busy
<1>6. TemplatesInv'
  <2>1. ASSUME NEW d \in Editors, NEW z, z = edit'[d] PROVE Edits(z)'
    BY <1>3, <1>5, <2>1 DEF Edits, Imports, Born
  <2>2. \A d \in Editors : Edits(edit[d])'
    BY <2>1 DEF Edits, Imports
  <2>. QED  BY <1>3, <2>2 DEF RulesInv, TemplatesInv, Born, Edits, Imports
<1>7. ASSUME ~overlapped PROVE Alone'
  <2>1. ASSUME NEW d \in Editors, NEW z, z = edit'[d] PROVE Current(z)'
    BY <1>3, <1>5, <1>7, <2>1 DEF Current, Existing, Lives
  <2>2. \A d \in Editors : Current(edit[d])'
    BY <2>1 DEF Current
  <2>. QED  BY <1>3, <1>5, <1>7, <2>2 DEF RulesInv, Alone, Leads, Lives, Current
<1>. QED  BY <1>3, <1>6, <1>7 DEF RulesInv

\* What an import writes where its conflicts allow it.
LEMMA ImportedRows ==
    ASSUME TemplatesInv, NEW p, Imports(p), Cardinality(p.make) <= Cardinality(FreeIds),
           \A t \in p.rewrite \cup p.flag : template[t] # Gone
    PROVE  /\ Imported(p) \in [Ids -> TemplateRows \cup {Unborn, Gone}]
           /\ \A k \in p.make : MadeBy(p)[k] \in Ids \ Born /\ Imported(p)[MadeBy(p)[k]] \in TemplateRows
           /\ \A t \in Born : Imported(p)[t] # Unborn
           /\ \A t \in Born \ p.drop : template[t] \in TemplateRows =>
                 /\ Imported(p)[t] \in TemplateRows /\ Imported(p)[t].key = template[t].key
                 /\ t \notin p.rewrite => Imported(p)[t].text = template[t].text
           /\ \A t \in p.drop : Imported(p)[t] = Gone
           /\ \A t \in Born \ p.drop : template[t] = Gone => Imported(p)[t] = Gone
<1>1. /\ MadeBy(p) \in [p.make -> FreeIds]
      /\ \A k, l \in p.make : MadeBy(p)[k] = MadeBy(p)[l] => k = l
  BY MadeByIs DEF Imports
<1>2. PICK f \in [p.make -> FreeIds] : f = MadeBy(p) /\ \A k, l \in p.make : f[k] = f[l] => k = l
  BY <1>1
<1>3. FreeIds = Ids \ Born
  BY DEF FreeIds, Born
<1>4. p.text \in Texts /\ p.make \subseteq Catalog /\ p.drop \cup p.rewrite \cup p.flag \subseteq Born
  BY DEF Imports, Texts
<1>5. ASSUME NEW k \in p.make PROVE f[k] \in Ids \ Born /\ Imported(p)[f[k]] = Fresh(k, p.text)
  <2>1. f[k] \in Ids \ Born
    BY <1>2, <1>3
  <2>2. (CHOOSE l \in p.make : f[l] = f[k]) = k
    BY <1>2
  <2>. QED  BY <1>2, <2>1, <2>2 DEF Imported
<1>6. ASSUME NEW t \in Ids, ~\E k \in p.make : f[k] = t
      PROVE  Imported(p)[t] = IF t \in p.drop THEN Gone
                              ELSE IF t \in p.rewrite THEN Fresh(template[t].key, p.text)
                              ELSE IF t \in p.flag THEN [template[t] EXCEPT !.update = TRUE]
                              ELSE template[t]
  BY <1>2, <1>6 DEF Imported
<1>7. ASSUME NEW t \in Born PROVE t \in Ids /\ ~\E k \in p.make : f[k] = t
  BY <1>2, <1>3 DEF Born
<1>8. ASSUME NEW t \in Born \ p.drop, template[t] \in TemplateRows
      PROVE  /\ Imported(p)[t] \in TemplateRows /\ Imported(p)[t].key = template[t].key
             /\ t \notin p.rewrite => Imported(p)[t].text = template[t].text
  <2>1. PICK x \in TemplateRows : x = template[t]
    BY <1>8
  <2>2. /\ Fresh(x.key, p.text) \in TemplateRows /\ Fresh(x.key, p.text).key = x.key
        /\ [x EXCEPT !.update = TRUE] \in TemplateRows /\ [x EXCEPT !.update = TRUE].key = x.key
        /\ [x EXCEPT !.update = TRUE].text = x.text
    BY <1>4 DEF Fresh, TemplateRows
  <2>. QED  BY <1>6, <1>7, <1>8, <2>1, <2>2
<1>9. \A t \in p.drop : Imported(p)[t] = Gone
  BY <1>4, <1>6, <1>7
<1>10. ASSUME NEW t \in Born \ p.drop, template[t] = Gone PROVE Imported(p)[t] = Gone
  BY <1>6, <1>7, <1>10
<1>11. ASSUME NEW t \in Ids, t \notin Born, ~\E k \in p.make : f[k] = t PROVE Imported(p)[t] = Unborn
  BY <1>4, <1>6, <1>11 DEF Born
<1>12. \A k \in p.make : Imported(p)[f[k]] \in TemplateRows
  BY <1>4, <1>5, TemplateForms
<1>13. \A t \in Born : Imported(p)[t] \in TemplateRows \cup {Gone}
  BY <1>8, <1>9, <1>10 DEF TemplatesInv, Born
<1>14. \A t \in Ids : Imported(p)[t] \in TemplateRows \cup {Unborn, Gone}
  BY <1>11, <1>12, <1>13
<1>15. Imported(p) \in [Ids -> TemplateRows \cup {Unborn, Gone}]
  <2>1. DOMAIN Imported(p) = Ids /\ Imported(p) = [t \in Ids |-> Imported(p)[t]]
    BY DEF Imported
  <2>. QED  BY <1>14, <2>1
<1>. QED  BY <1>2, <1>5, <1>8, <1>9, <1>10, <1>12, <1>13, <1>15, TemplateForms

\* The ids that the rules of an import lead to.
LEMMA IdsLead ==
    ASSUME TemplatesInv, NEW p, Imports(p), Cardinality(p.make) <= Cardinality(FreeIds),
           NEW k \in DOMAIN IdsOf(p)
    PROVE  \/ k \in p.make /\ IdsOf(p)[k] = MadeBy(p)[k] /\ IdsOf(p)[k] \in Ids
           \/ k \in DOMAIN p.known /\ IdsOf(p)[k] = p.known[k] /\ IdsOf(p)[k] \in Born
<1>1. MadeBy(p) \in [p.make -> FreeIds]
  BY MadeByIs DEF Imports
<1>2. DOMAIN IdsOf(p) = p.make \cup DOMAIN p.known
  BY DEF IdsOf
<1>3. IdsOf(p)[k] = IF k \in p.make THEN MadeBy(p)[k] ELSE p.known[k]
  BY <1>2 DEF IdsOf
<1>. QED  BY <1>1, <1>2, <1>3 DEF Imports, FreeIds

LEMMA CommitKeeps == ASSUME RulesInv, NEW c \in Editors, Commit(c) PROVE RulesInv'
<1>1. PICK p : p = edit[c] /\ Imports(p) /\ (~overlapped => Current(p)) /\ p.at = "import"
  BY DEF Commit, RulesInv, TemplatesInv, Edits, Alone
<1>2. Finish(c) /\ Busy(c) /\ Cardinality(p.make) <= Cardinality(FreeIds) /\ TemplatesInv
  BY <1>1 DEF Commit, Busy, RulesInv
<1>3. CASE UNCHANGED <<template, rules>>
  BY <1>2, <1>3, FinishKeeps DEF RulesInv, TemplatesInv, Born, Alone, Leads, Lives
<1>4. CASE /\ ~Conflicts(c, p)
           /\ template' = Imported(p)
           /\ rules' = Wired(c, p) \cup Repoint(p) \cup
                  (rules \ (p.clear \cup {f.row : f \in p.repoint} \cup From(p.drop)))
  <2>1. \A t \in p.rewrite \cup p.flag : template[t] # Gone
    BY <1>4 DEF Conflicts
  <2>2. /\ template' \in [Ids -> TemplateRows \cup {Unborn, Gone}]
        /\ \A k \in p.make : template'[MadeBy(p)[k]] \in TemplateRows
        /\ \A t \in Born : template'[t] # Unborn
        /\ \A t \in Born \ p.drop : template[t] \in TemplateRows =>
              template'[t] \in TemplateRows /\ template'[t].key = template[t].key
        /\ \A t \in Born \ p.drop : template[t] = Gone => template'[t] = Gone
    BY <1>1, <1>2, <1>4, <2>1, ImportedRows
  <2>3. ASSUME NEW k \in DOMAIN IdsOf(p)
        PROVE  /\ IdsOf(p)[k] \in Ids /\ template'[IdsOf(p)[k]] # Unborn
               /\ ~overlapped => template'[IdsOf(p)[k]] \in TemplateRows
    <3>1. CASE k \in p.make /\ IdsOf(p)[k] = MadeBy(p)[k] /\ IdsOf(p)[k] \in Ids
      <4>1. PICK i \in Ids : i = IdsOf(p)[k] /\ template'[i] \in TemplateRows
        BY <2>2, <3>1
      <4>. QED  BY <4>1, TemplateForms
    <3>2. CASE k \in DOMAIN p.known /\ IdsOf(p)[k] = p.known[k] /\ IdsOf(p)[k] \in Born
      <4>1. PICK i \in Born : i = IdsOf(p)[k] /\ i = p.known[k]
        BY <3>2
      <4>2. i \in Ids /\ template'[i] # Unborn
        BY <2>2 DEF Born
      <4>3. ASSUME ~overlapped PROVE template'[i] \in TemplateRows
        <5>1. i \in Existing \ p.drop
          BY <1>1, <3>2, <4>1, <4>3 DEF Current
        <5>. QED  BY <1>2, <2>2, <4>2, <5>1, LivesIs DEF Existing
      <4>. QED  BY <4>1, <4>2, <4>3
    <3>. QED  BY <1>1, <1>2, <3>1, <3>2, IdsLead
  <2>4. ASSUME NEW r \in Wired(c, p)
        PROVE  r \in RuleRows /\ r.from \in Born' /\ (~overlapped => Lives(r.to)')
    <3>1. PICK e \in Chains : /\ e[1] \in DOMAIN IdsOf(p) /\ e[2] \in DOMAIN IdsOf(p)
                              /\ r = [from |-> IdsOf(p)[e[1]], to |-> IdsOf(p)[e[2]], by |-> c]
      BY DEF Wired
    <3>2. PICK i \in Ids, j \in Ids :
             /\ i = IdsOf(p)[e[1]] /\ j = IdsOf(p)[e[2]] /\ i \in Born'
             /\ ~overlapped => Lives(j)'
      BY <2>3, <3>1, TemplateForms DEF Born, Lives
    <3>3. r = [from |-> i, to |-> j, by |-> c]
      BY <3>1, <3>2
    <3>. QED  BY <3>2, <3>3 DEF RuleRows
  <2>5. ASSUME NEW r \in Repoint(p)
        PROVE  r \in RuleRows /\ r.from \in Born' /\ (~overlapped => Lives(r.to)')
    <3>1. PICK f \in p.repoint : f.key \in DOMAIN IdsOf(p) /\ r = [f.row EXCEPT !.to = IdsOf(p)[f.key]]
      BY DEF Repoint
    <3>2. PICK j \in Ids : j = IdsOf(p)[f.key] /\ (~overlapped => Lives(j)')
      BY <2>3, <3>1, TemplateForms DEF Lives
    <3>3. PICK x \in RuleRows : x = f.row /\ x.from \in Born
      BY <1>1 DEF Imports
    <3>4. r = [x EXCEPT !.to = j] /\ r \in RuleRows /\ r.from = x.from /\ r.to = j
      BY <3>1, <3>2, <3>3 DEF RuleRows
    <3>5. x.from \in Born'
      BY <2>2, <3>3 DEF Born
    <3>. QED  BY <3>2, <3>4, <3>5
  <2>6. ASSUME NEW r \in rules, r \notin {f.row : f \in p.repoint} \cup From(p.drop)
        PROVE  /\ r \in RuleRows /\ r.from \in Born'
               /\ ~overlapped => (template'[r.from].key = Own => Lives(r.to)')
    <3>1. r \in RuleRows /\ r.from \in Born /\ r.from \in Ids /\ r.to \in Ids /\ r.from \notin p.drop
      BY <2>6 DEF RulesInv, TemplatesInv, RuleRows, From
    <3>2. r.from \in Born'
      BY <2>2, <3>1 DEF Born
    <3>3. ASSUME ~overlapped, template'[r.from].key = Own PROVE Lives(r.to)'
      <4>1. template[r.from].key = Own
        BY <2>2, <3>1, <3>3, TemplateForms DEF RulesInv, TemplatesInv, Born
      <4>2. Lives(r.to) /\ template[r.to] \in TemplateRows
        BY <1>2, <3>1, <3>3, <4>1, LivesIs DEF RulesInv, Alone, Leads
      <4>3. r.to \notin p.drop
        BY <1>1, <2>6, <3>1, <3>3, <4>1 DEF Current
      <4>4. r.to \in Born
        BY <3>1, <4>2, TemplateForms DEF Born
      <4>. QED  BY <2>2, <4>2, <4>3, <4>4, TemplateForms DEF Lives
    <3>. QED  BY <3>1, <3>2, <3>3
  <2>7. rules' \subseteq RuleRows /\ \A r \in rules' : r.from \in Born'
    BY <1>4, <2>4, <2>5, <2>6
  <2>8. ~overlapped => Leads'
    BY <1>4, <2>4, <2>5, <2>6 DEF Leads
  <2>. QED  BY <1>2, <2>2, <2>7, <2>8, FinishKeeps
<1>. QED  BY <1>1, <1>3, <1>4 DEF Commit

-----------------------------------------------------------------------------
\* What the calls read when they begin.
LEMMA BareRead ==
    ASSUME RulesInv, NEW c \in Editors, NEW S, S \subseteq Existing, NEW t \in Existing,
           NewTemplateRead(c, S) \/ UpdateRead(c, t, S) \/ DropTemplateRead(c, t)
    PROVE  RulesInv'
<1>1. S \subseteq Ids /\ t \in Ids
  BY DEF Existing
<1>2. ASSUME NEW y, \/ y = [at |-> "create", targets |-> S]
                    \/ y = [at |-> "look", id |-> t, targets |-> S]
                    \/ y = [at |-> "delete", id |-> t]
      PROVE  Edits(y) /\ Current(y)
  BY <1>1, <1>2 DEF Edits, Current
<1>. QED  BY <1>2, BeginKeeps DEF NewTemplateRead, UpdateRead, DropTemplateRead

LEMMA NewRead ==
    ASSUME RulesInv, NEW c \in Editors, NEW S, S \subseteq Existing, NewTemplateRead(c, S)
    PROVE  RulesInv'
<1>1. S \subseteq Ids
  BY DEF Existing
<1>2. ASSUME NEW y, y = [at |-> "create", targets |-> S] PROVE Edits(y) /\ Current(y)
  BY <1>1, <1>2 DEF Edits, Current
<1>. QED  BY <1>2, BeginKeeps DEF NewTemplateRead

\* An import that drops nothing, and knows what is there.
LEMMA Gentle ==
    ASSUME RulesInv, NEW x, x.at = "import", x.make \subseteq Catalog, x.text \in {"catalog", "pushed"},
           x.drop = {}, x.repoint = {}, x.known = ByKey(Seeded),
           x.rewrite \cup x.flag \cup x.skip \subseteq Seeded, x.skip \cap x.rewrite = {}
    PROVE  Edits(x) /\ Current(x)
<1>1. Seeded \subseteq Existing /\ Existing \subseteq Born
  BY DEF Seeded, Existing, Lives, Born
<1>2. \A k \in DOMAIN x.known : x.known[k] \in Seeded
  BY ByKeyIn
<1>3. Imports(x)
  BY <1>1, <1>2 DEF Imports
<1>. QED  BY <1>1, <1>2, <1>3 DEF Edits, Current

LEMMA GentleRead ==
    ASSUME RulesInv, NEW c \in Editors,
           EnsureRead(c) \/ (\E keys \in Selections : SyncRead(c, keys)) \/ \E f \in BOOLEAN : PushRead(c, f)
    PROVE  RulesInv'
<1>1. CASE EnsureRead(c)
  <2>1. PICK x : x = [Import("ensure", "catalog") EXCEPT !.make = Catalog, !.wire = Catalog]
    OBVIOUS
  <2>2. /\ x.at = "import" /\ x.make = Catalog /\ x.text = "catalog" /\ x.drop = {} /\ x.repoint = {}
        /\ x.known = ByKey(Seeded) /\ x.rewrite = {} /\ x.flag = {} /\ x.skip = {}
    BY <2>1 DEF Import
  <2>3. Edits(x) /\ Current(x)
    BY <2>2, Gentle
  <2>. QED  BY <1>1, <2>1, <2>3, BeginKeeps DEF EnsureRead
<1>2. ASSUME NEW keys \in Selections, SyncRead(c, keys) PROVE RulesInv'
  <2>1. PICK missing : missing = {k \in keys : WithKey(k) = {}}
    OBVIOUS
  <2>2. PICK x : x = [Import("sync", "catalog") EXCEPT !.make = missing, !.wire = missing]
    OBVIOUS
  <2>3. /\ x.at = "import" /\ x.make = missing /\ x.text = "catalog" /\ x.drop = {} /\ x.repoint = {}
        /\ x.known = ByKey(Seeded) /\ x.rewrite = {} /\ x.flag = {} /\ x.skip = {}
    BY <2>2 DEF Import
  <2>4. missing \subseteq Catalog
    BY <2>1, TemplatesAssumption
  <2>5. Edits(x) /\ Current(x)
    BY <2>3, <2>4, Gentle
  <2>. QED  BY <1>2, <2>1, <2>2, <2>5, BeginKeeps DEF SyncRead
<1>3. ASSUME NEW f \in BOOLEAN, PushRead(c, f) PROVE RulesInv'
  <2>1. PICK x : x = PushImport(f, Skipped(f))
    OBVIOUS
  <2>2. /\ x.at = "import" /\ x.make = {k \in Catalog : WithKey(k) = {}} /\ x.text = "pushed"
        /\ x.drop = {} /\ x.repoint = {} /\ x.known = ByKey(Seeded)
        /\ x.rewrite = Seeded \ Skipped(f) /\ x.skip = Skipped(f)
        /\ x.flag = {t \in Skipped(f) : template[t].text # "pushed"}
    BY <2>1 DEF PushImport, Import
  <2>3. Skipped(f) \subseteq Seeded
    BY DEF Skipped
  <2>4. Edits(x) /\ Current(x)
    BY <2>2, <2>3, Gentle
  <2>. QED  BY <1>3, <2>1, <2>4, BeginKeeps DEF PushRead
<1>. QED  BY <1>1, <1>2, <1>3

LEMMA ResetsRead == ASSUME RulesInv, NEW c \in Editors, ResetAllRead(c) PROVE RulesInv'
<1>1. PICK x : x = [Import("reset", "catalog") EXCEPT !.drop = Existing, !.make = Catalog, !.wire = Catalog,
                                                      !.known = ByKey({})]
  OBVIOUS
<1>2. /\ x.at = "import" /\ x.make = Catalog /\ x.text = "catalog" /\ x.drop = Existing /\ x.repoint = {}
      /\ x.known = ByKey({}) /\ x.rewrite = {} /\ x.flag = {} /\ x.skip = {}
  BY <1>1 DEF Import
<1>3. DOMAIN x.known = {}
  BY <1>2, ByKeyIn
<1>4. Existing \subseteq Born
  BY DEF Existing, Born, Lives
<1>5. Edits(x)
  BY <1>2, <1>3, <1>4 DEF Edits, Imports
<1>6. \A r \in rules : template[r.from].key = Own => r.from \in Existing
  BY OwnLives DEF RulesInv, TemplatesInv, RuleRows, Existing
<1>7. Current(x)
  BY <1>2, <1>3, <1>6 DEF Current
<1>. QED  BY <1>1, <1>5, <1>7, BeginKeeps DEF ResetAllRead

LEMMA WizardReads ==
    ASSUME RulesInv, NEW c \in Editors, NEW keys \in Selections, WizardRead(c, keys)
    PROVE  RulesInv'
<1>1. PICK held : held = WizardKeeps(keys) /\ held \subseteq Seeded
  BY DEF WizardKeeps
<1>2. PICK make : make = keys \ {template[t].key : t \in held} /\ make \subseteq Catalog
  <2>1. keys \subseteq Catalog
    BY TemplatesAssumption
  <2>2. PICK taken : taken = {template[t].key : t \in held}
    OBVIOUS
  <2>. QED  BY <2>1, <2>2
<1>3. PICK x : x = [Import("wizard", "catalog") EXCEPT !.known = ByKey(held), !.drop = Seeded \ held,
                                                       !.make = make, !.wire = keys, !.repoint = Followers]
  OBVIOUS
<1>4. /\ x.at = "import" /\ x.make = make /\ x.text = "catalog" /\ x.drop = Seeded \ held
      /\ x.repoint = Followers /\ x.known = ByKey(held) /\ x.rewrite = {} /\ x.flag = {} /\ x.skip = {}
  BY <1>3 DEF Import
<1>5. Seeded \subseteq Existing /\ Existing \subseteq Born
  BY DEF Seeded, Existing, Born, Lives
<1>6. \A k \in DOMAIN x.known : x.known[k] \in held
  BY <1>4, ByKeyIn
<1>7. \A f \in Followers : f.row \in RuleRows /\ f.row.from \in Born
  BY DEF Followers, RulesInv, TemplatesInv
<1>8. Edits(x)
  BY <1>1, <1>2, <1>4, <1>5, <1>6, <1>7 DEF Edits, Imports
<1>9. ASSUME NEW r \in rules, template[r.from].key = Own, r.to \in x.drop
      PROVE  \E f \in x.repoint : f.row = r
  <2>1. r.from \notin Seeded /\ r.to \in Seeded
    BY <1>4, <1>9 DEF Seeded
  <2>2. [row |-> r, key |-> template[r.to].key] \in Followers
    BY <2>1 DEF Followers
  <2>. QED  BY <1>4, <2>2
<1>10. Current(x)
  BY <1>1, <1>4, <1>5, <1>6, <1>9 DEF Current
<1>. QED  BY <1>1, <1>2, <1>3, <1>8, <1>10, BeginKeeps DEF WizardRead

LEMMA TemplatesStepKeeps == RulesInv /\ [TemplatesNext]_templates => RulesInv'
<1>1. SUFFICES ASSUME RulesInv, [TemplatesNext]_templates PROVE RulesInv'
  OBVIOUS
<1>2. ASSUME NEW c \in Editors, TemplatesCall(c) PROVE RulesInv'
  <2>1. ASSUME NEW S \in SUBSET Existing, NewTemplateRead(c, S) \/ \E t \in Existing : UpdateRead(c, t, S)
        PROVE  RulesInv'
    BY <1>1, <2>1, NewRead, BareRead
  <2>2. ASSUME NEW t \in Existing, DropTemplateRead(c, t) PROVE RulesInv'
    <3>1. {} \subseteq Existing
      OBVIOUS
    <3>. QED  BY <1>1, <2>2, <3>1, BareRead
  <2>3. CASE Create(c) \/ UpdateLook(c) \/ Update(c) \/ Delete(c) \/ Commit(c)
    BY <1>1, <2>3, CreateKeeps, LookKeeps, UpdateKeeps, DeleteKeeps, CommitKeeps
  <2>4. CASE EnsureRead(c) \/ ResetAllRead(c)
    BY <1>1, <2>4, GentleRead, ResetsRead
  <2>5. CASE \E keys \in Selections : SyncRead(c, keys) \/ WizardRead(c, keys)
    BY <1>1, <2>5, GentleRead, WizardReads
  <2>6. CASE \E f \in BOOLEAN : PushRead(c, f)
    BY <1>1, <2>6, GentleRead
  <2>. QED  BY <1>2, <2>1, <2>2, <2>3, <2>4, <2>5, <2>6 DEF TemplatesCall
<1>3. ASSUME NEW t \in Ids, Restore(t) \/ Use(t) PROVE RulesInv'
  BY <1>1, <1>3, RestoreKeeps
<1>4. CASE UNCHANGED templates
  BY <1>1, <1>4, RowsStay DEF templates, RulesInv, TemplatesInv, Lives
<1>. QED  BY <1>1, <1>2, <1>3, <1>4 DEF TemplatesNext

LEMMA VersionKept ==
    ASSUME TemplatesInv, [TemplatesNext]_templates, NEW c \in Editors, edit[c].at = "import", edit'[c].at = "over",
           NEW t \in edit[c].skip, Lives(t)
    PROVE  Lives(t)' /\ template'[t].text = template[t].text
<1>1. ASSUME NEW d \in Editors, TemplatesCall(d), ~Commit(c) PROVE edit'[c].at # "over"
  <2>1. (\E y : Begins(d, y)) \/ Create(d) \/ UpdateLook(d) \/ Update(d) \/ Delete(d) \/ (d # c /\ Commit(d))
    BY <1>1 DEF TemplatesCall, NewTemplateRead, UpdateRead, DropTemplateRead, EnsureRead, ResetAllRead,
       SyncRead, WizardRead, PushRead
  <2>2. CASE \E y : Begins(d, y)
    BY <2>2 DEF TemplatesInv, Begins, Moves, Unmade
  <2>3. CASE Create(d) \/ UpdateLook(d) \/ Update(d) \/ Delete(d) \/ (d # c /\ Commit(d))
    <3>1. PICK y : edit' = [edit EXCEPT ![d] = y] /\ (d = c => edit[c].at # "import")
      BY <2>3 DEF Create, UpdateLook, Update, Delete, Commit, Finish, Moves
    <3>. QED  BY <3>1 DEF TemplatesInv
  <2>. QED  BY <2>1, <2>2, <2>3
<1>2. Commit(c)
  BY <1>1 DEF TemplatesNext, Restore, Use, templates
<1>3. PICK p : p = edit[c] /\ Imports(p) /\ t \in p.skip
  BY DEF TemplatesInv, Edits
<1>4. t \in Born /\ t \in Ids /\ t \notin p.drop /\ t \notin p.rewrite /\ template[t] \in TemplateRows
  BY <1>3, LivesIs DEF Imports, Born
<1>5. CASE template' = template
  BY <1>5 DEF Lives
<1>6. CASE template' = Imported(p) /\ ~Conflicts(c, p) /\ Cardinality(p.make) <= Cardinality(FreeIds)
  <2>1. \A s \in p.rewrite \cup p.flag : template[s] # Gone
    BY <1>6 DEF Conflicts
  <2>2. template'[t] \in TemplateRows /\ template'[t].text = template[t].text
    BY <1>3, <1>4, <1>6, <2>1, ImportedRows
  <2>. QED  BY <2>2, TemplateForms DEF Lives
<1>. QED  BY <1>2, <1>3, <1>5, <1>6 DEF Commit

LEMMA RulesBegin == ServerInit => RulesInv
<1>1. SUFFICES ASSUME ServerInit PROVE RulesInv
  OBVIOUS
<1>2. template = [t \in Ids |-> Unborn] /\ rules = {} /\ edit = [c \in Editors |-> Unmade]
  BY <1>1 DEF ServerInit, TemplatesInit
<1>3. \A c \in Editors : edit[c].at = "idle"
  BY <1>2 DEF Unmade
<1>4. TemplatesInv
  BY <1>2, <1>3 DEF TemplatesInv, Edits
<1>5. Alone
  BY <1>2, <1>3 DEF Alone, Leads, Current, Busy
<1>. QED  BY <1>4, <1>5 DEF RulesInv

LEMMA RulesKept == ServerSpec => []RulesInv
<1>1. RulesInv /\ [ServerNext]_<<vars, parts>> => RulesInv'
  BY PartsMove, TemplatesStepKeeps
<1>. QED  BY <1>1, RulesBegin, PTL DEF ServerSpec

\* As long as calls do not overlap, no deletion, reset, push or wizard leaves a rule of a
\* household's own template leading to a template that is gone.
THEOREM RulesResolve == ServerSpec => []OwnRulesResolve
<1>1. RulesInv => OwnRulesResolve
  BY DEF RulesInv, Alone, Leads, OwnRulesResolve
<1>. QED  BY <1>1, RulesKept, PTL

\* Calls may overlap as they like: an operator's push that saw a customised template
\* leaves the text alone that the members have given it.
THEOREM MembersKeepTheirText == ServerSpec => MembersVersionKept
<1>1. RulesInv /\ [ServerNext]_<<vars, parts>> =>
          [\A c \in Editors : edit[c].at = "import" /\ edit'[c].at = "over" =>
              \A t \in edit[c].skip : Lives(t) => Lives(t)' /\ template'[t].text = template[t].text]_templates
  <2>1. SUFFICES ASSUME RulesInv, [ServerNext]_<<vars, parts>>, NEW c \in Editors,
                        edit[c].at = "import", edit'[c].at = "over", NEW t \in edit[c].skip, Lives(t)
                 PROVE  Lives(t)' /\ template'[t].text = template[t].text
    OBVIOUS
  <2>2. TemplatesInv /\ [TemplatesNext]_templates
    BY <2>1, PartsMove DEF RulesInv
  <2>. QED  BY <2>1, <2>2, VersionKept
<1>. QED  BY <1>1, RulesKept, PTL DEF ServerSpec, MembersVersionKept

\* What a call keeps, and points anew, it does not drop.
Spares(x) ==
    x.at = "import" =>
        /\ \A k \in DOMAIN x.known : x.known[k] \notin x.drop
        /\ \A f \in x.repoint : f.row.from \notin x.drop
UniqueKeys ==
    \A s, t \in Existing : template[s].key = template[t].key /\ template[s].key # Own => s = t
KeysInv ==
    /\ UniqueKeys /\ (\A r \in rules : Lives(r.from)) /\ inUse \subseteq Existing
    /\ \A c \in Editors : Spares(edit[c])

LEMMA CallSpares ==
    ASSUME RulesInv, KeysInv, NEW c \in Editors, NEW x, edit' = [edit EXCEPT ![c] = x], Spares(x)
    PROVE  \A d \in Editors : Spares(edit'[d])
<1>1. edit'[c] = x /\ \A d \in Editors \ {c} : edit'[d] = edit[d]
  BY DEF RulesInv, TemplatesInv
<1>. QED  BY <1>1 DEF KeysInv

\* What lives has lived, with the same key.
LEMMA FewerKeys ==
    ASSUME UniqueKeys, \A t \in Existing' : t \in Existing /\ template'[t].key = template[t].key
    PROVE  UniqueKeys'
BY DEF UniqueKeys

LEMMA ReadsSpare ==
    ASSUME RulesInv, KeysInv, NEW c \in Editors, NEW x, Begins(c, x), Spares(x)
    PROVE  KeysInv'
<1>1. edit' = [edit EXCEPT ![c] = x] /\ UNCHANGED <<template, rules, inUse>>
  BY DEF Begins, Moves
<1>2. Existing' = Existing /\ UniqueKeys'
  BY <1>1 DEF Existing, Lives, UniqueKeys, KeysInv
<1>. QED  BY <1>1, <1>2, CallSpares DEF KeysInv, Lives

LEMMA TemplateReads ==
    ASSUME RulesInv, KeysInv, NEW c \in Editors,
           \/ \E S \in SUBSET Existing : NewTemplateRead(c, S) \/ \E t \in Existing : UpdateRead(c, t, S)
           \/ \E t \in Existing : DropTemplateRead(c, t)
           \/ EnsureRead(c) \/ ResetAllRead(c)
           \/ \E keys \in Selections : SyncRead(c, keys) \/ WizardRead(c, keys)
           \/ \E force \in BOOLEAN : PushRead(c, force)
    PROVE  KeysInv'
<1>1. ASSUME NEW S, NEW t, NewTemplateRead(c, S) \/ UpdateRead(c, t, S) \/ DropTemplateRead(c, t)
      PROVE  KeysInv'
  <2>1. ASSUME NEW y, \/ y = [at |-> "create", targets |-> S]
                      \/ y = [at |-> "look", id |-> t, targets |-> S]
                      \/ y = [at |-> "delete", id |-> t]
        PROVE  Spares(y)
    BY <2>1 DEF Spares
  <2>. QED  BY <1>1, <2>1, ReadsSpare DEF NewTemplateRead, UpdateRead, DropTemplateRead
<1>2. ASSUME NEW x, Begins(c, x), x.drop = {} PROVE KeysInv'
  BY <1>2, ReadsSpare DEF Spares
<1>3. CASE EnsureRead(c)
  <2>1. PICK x : x = [Import("ensure", "catalog") EXCEPT !.make = Catalog, !.wire = Catalog]
    OBVIOUS
  <2>2. x.drop = {}
    BY <2>1 DEF Import
  <2>. QED  BY <1>2, <1>3, <2>1, <2>2 DEF EnsureRead
<1>4. ASSUME NEW keys \in Selections, SyncRead(c, keys) PROVE KeysInv'
  <2>1. PICK missing : missing = {k \in keys : WithKey(k) = {}}
    OBVIOUS
  <2>2. PICK x : x = [Import("sync", "catalog") EXCEPT !.make = missing, !.wire = missing]
    OBVIOUS
  <2>3. x.drop = {}
    BY <2>2 DEF Import
  <2>. QED  BY <1>2, <1>4, <2>1, <2>2, <2>3 DEF SyncRead
<1>5. ASSUME NEW f \in BOOLEAN, PushRead(c, f) PROVE KeysInv'
  <2>1. PICK x : x = PushImport(f, Skipped(f))
    OBVIOUS
  <2>2. x.drop = {}
    BY <2>1 DEF PushImport, Import
  <2>. QED  BY <1>2, <1>5, <2>1, <2>2 DEF PushRead
<1>6. CASE ResetAllRead(c)
  <2>1. PICK x : x = [Import("reset", "catalog") EXCEPT !.drop = Existing, !.make = Catalog, !.wire = Catalog,
                                                        !.known = ByKey({})]
    OBVIOUS
  <2>2. x.known = ByKey({}) /\ x.repoint = {}
    BY <2>1 DEF Import
  <2>3. DOMAIN x.known = {}
    BY <2>2, ByKeyIn
  <2>4. Spares(x)
    BY <2>2, <2>3 DEF Spares
  <2>. QED  BY <1>6, <2>1, <2>4, ReadsSpare DEF ResetAllRead
<1>7. ASSUME NEW keys \in Selections, WizardRead(c, keys) PROVE KeysInv'
  <2>1. PICK held : held = WizardKeeps(keys)
    OBVIOUS
  <2>2. PICK make : make = keys \ {template[t].key : t \in held}
    OBVIOUS
  <2>3. PICK x : x = [Import("wizard", "catalog") EXCEPT !.known = ByKey(held), !.drop = Seeded \ held,
                                                         !.make = make, !.wire = keys, !.repoint = Followers]
    OBVIOUS
  <2>4. x.known = ByKey(held) /\ x.drop = Seeded \ held /\ x.repoint = Followers
    BY <2>3 DEF Import
  <2>5. \A k \in DOMAIN x.known : x.known[k] \in held
    BY <2>4, ByKeyIn
  <2>6. \A f \in Followers : f.row.from \notin Seeded
    BY DEF Followers
  <2>7. Spares(x)
    BY <2>4, <2>5, <2>6 DEF Spares
  <2>. QED  BY <1>7, <2>1, <2>2, <2>3, <2>7, ReadsSpare DEF WizardRead
<1>. QED  BY <1>1, <1>3, <1>4, <1>5, <1>6, <1>7

\* What an import leaves is what lived before, or was made with a key of its own.
LEMMA ImportedKeys ==
    ASSUME TemplatesInv, NEW p, Imports(p), Cardinality(p.make) <= Cardinality(FreeIds),
           \A t \in p.rewrite \cup p.flag : template[t] # Gone, template' = Imported(p),
           NEW t \in Existing'
    PROVE  \/ t \in Existing \ p.drop /\ template'[t].key = template[t].key
           \/ \E k \in p.make : t = MadeBy(p)[k] /\ template'[t].key = k
<1>1. /\ MadeBy(p) \in [p.make -> FreeIds]
      /\ \A k, l \in p.make : MadeBy(p)[k] = MadeBy(p)[l] => k = l
  BY MadeByIs DEF Imports
<1>2. PICK f \in [p.make -> FreeIds] : f = MadeBy(p) /\ \A k, l \in p.make : f[k] = f[l] => k = l
  BY <1>1
<1>3. t \in Ids /\ template'[t] # Unborn /\ template'[t] # Gone
  BY DEF Existing, Lives
<1>4. CASE \E k \in p.make : f[k] = t
  <2>1. PICK k \in p.make : f[k] = t
    BY <1>4
  <2>2. (CHOOSE l \in p.make : f[l] = t) = k
    BY <1>2, <2>1
  <2>3. template'[t] = Fresh(k, p.text)
    BY <1>2, <1>3, <2>1, <2>2 DEF Imported
  <2>4. template'[t].key = k
    BY <2>3 DEF Fresh
  <2>. QED  BY <1>2, <2>1, <2>4
<1>5. CASE ~\E k \in p.make : f[k] = t
  <2>1. template'[t] = IF t \in p.drop THEN Gone
                       ELSE IF t \in p.rewrite THEN Fresh(template[t].key, p.text)
                       ELSE IF t \in p.flag THEN [template[t] EXCEPT !.update = TRUE]
                       ELSE template[t]
    BY <1>2, <1>3, <1>5 DEF Imported
  <2>2. t \in p.rewrite \cup p.flag => template[t] # Unborn /\ template[t] # Gone
    BY DEF Imports, Born
  <2>3. t \notin p.drop /\ Lives(t)
    BY <1>3, <2>1, <2>2 DEF Lives
  <2>4. template[t] \in TemplateRows
    BY <1>3, <2>3, LivesIs
  <2>5. template'[t].key = template[t].key
    BY <2>1, <2>3, <2>4 DEF Fresh, TemplateRows
  <2>. QED  BY <1>3, <2>3, <2>5 DEF Existing
<1>. QED  BY <1>4, <1>5

LEMMA CommitUnique ==
    ASSUME RulesInv, KeysInv, NEW c \in Editors, Commit(c)
    PROVE  KeysInv'
<1>1. PICK p : p = edit[c] /\ Imports(p) /\ Spares(p) /\ p.at = "import"
  BY DEF Commit, RulesInv, TemplatesInv, Edits, KeysInv
<1>2. Cardinality(p.make) <= Cardinality(FreeIds) /\ TemplatesInv /\ edit' = [edit EXCEPT ![c] = [at |-> "over"]]
  BY <1>1 DEF Commit, RulesInv, Finish, Moves
<1>3. \A d \in Editors : Spares(edit'[d])
  BY <1>2, CallSpares DEF Spares
<1>4. CASE UNCHANGED <<template, rules, inUse>>
  <2>1. Existing' = Existing /\ UniqueKeys'
    BY <1>4 DEF Existing, Lives, UniqueKeys, KeysInv
  <2>. QED  BY <1>3, <1>4, <2>1 DEF KeysInv, Lives
<1>5. CASE /\ ~Conflicts(c, p) /\ template' = Imported(p) /\ inUse' = inUse \ p.drop
           /\ rules' = Wired(c, p) \cup Repoint(p) \cup
                  (rules \ (p.clear \cup {f.row : f \in p.repoint} \cup From(p.drop)))
  <2>1. /\ \A t \in p.rewrite \cup p.flag \cup {r.from : r \in Wired(c, p)} : template[t] # Gone
        /\ \A k \in p.make : WithKey(k) \subseteq p.drop
        /\ \A f \in p.repoint : f.row \in rules
    BY <1>5 DEF Conflicts
  <2>2. \A t \in Existing' :
           \/ t \in Existing \ p.drop /\ template'[t].key = template[t].key
           \/ \E k \in p.make : t = MadeBy(p)[k] /\ template'[t].key = k
    BY <1>1, <1>2, <1>5, <2>1, ImportedKeys
  <2>3. UniqueKeys'
    <3>1. SUFFICES ASSUME NEW s \in Existing', NEW t \in Existing', template'[s].key = template'[t].key,
                          template'[s].key # Own
                   PROVE  s = t
      BY DEF UniqueKeys
    <3>2. ASSUME NEW u \in Existing \ p.drop, NEW k \in p.make, template[u].key = k PROVE FALSE
      BY <2>1, <3>2 DEF WithKey
    <3>3. CASE s \in Existing \ p.drop /\ template'[s].key = template[s].key
      <4>1. t \in Existing /\ template'[t].key = template[t].key
        BY <2>2, <3>1, <3>2, <3>3
      <4>. QED  BY <3>1, <3>3, <4>1 DEF KeysInv, UniqueKeys
    <3>4. CASE \E k \in p.make : s = MadeBy(p)[k] /\ template'[s].key = k
      BY <2>2, <3>1, <3>2, <3>4
    <3>. QED  BY <2>2, <3>3, <3>4
  <2>4. /\ \A k \in p.make : MadeBy(p)[k] \in Ids /\ template'[MadeBy(p)[k]] \in TemplateRows
        /\ \A t \in Born \ p.drop : template[t] \in TemplateRows => template'[t] \in TemplateRows
    BY <1>1, <1>2, <1>5, <2>1, ImportedRows
  <2>5. ASSUME NEW t \in Ids, Lives(t) \/ (t \in Born /\ template[t] # Gone), t \notin p.drop PROVE Lives(t)'
    <3>1. template[t] \in TemplateRows /\ t \in Born
      BY <1>2, <2>5, LivesIs DEF Lives, Born
    <3>. QED  BY <2>4, <2>5, <3>1, TemplateForms DEF Lives
  <2>6. ASSUME NEW r \in Wired(c, p) PROVE Lives(r.from)'
    <3>1. PICK e \in Chains : e[1] \in DOMAIN IdsOf(p) /\ r.from = IdsOf(p)[e[1]]
      BY DEF Wired
    <3>2. CASE e[1] \in p.make /\ r.from = MadeBy(p)[e[1]]
      BY <2>4, <3>2, TemplateForms DEF Lives
    <3>3. CASE e[1] \in DOMAIN p.known /\ r.from = p.known[e[1]] /\ r.from \in Born
      <4>1. r.from \notin p.drop /\ r.from \in Ids
        BY <1>1, <3>3 DEF Spares, Born
      <4>. QED  BY <2>1, <2>5, <3>3, <4>1
    <3>. QED  BY <1>1, <1>2, <3>1, <3>2, <3>3, IdsLead
  <2>7. ASSUME NEW r \in Repoint(p) PROVE Lives(r.from)'
    <3>1. PICK f \in p.repoint : r = [f.row EXCEPT !.to = IdsOf(p)[f.key]]
      BY DEF Repoint
    <3>2. PICK x \in RuleRows : x = f.row /\ x \in rules /\ x.from \notin p.drop
      BY <1>1, <2>1 DEF Imports, Spares
    <3>3. r.from = x.from /\ x.from \in Ids /\ Lives(x.from)
      BY <3>1, <3>2 DEF RuleRows, KeysInv
    <3>. QED  BY <2>5, <3>2, <3>3
  <2>8. ASSUME NEW r \in rules, r \notin From(p.drop) PROVE Lives(r.from)'
    <3>1. r.from \in Ids /\ Lives(r.from) /\ r.from \notin p.drop
      BY <2>8 DEF KeysInv, RulesInv, TemplatesInv, RuleRows, From
    <3>. QED  BY <2>5, <3>1
  <2>9. \A r \in rules' : Lives(r.from)'
    BY <1>5, <2>6, <2>7, <2>8
  <2>10. inUse' \subseteq Existing'
    BY <1>5, <2>5 DEF KeysInv, Existing
  <2>. QED  BY <1>3, <2>3, <2>9, <2>10 DEF KeysInv, Lives
<1>. QED  BY <1>1, <1>4, <1>5 DEF Commit

LEMMA EditsUnique ==
    ASSUME RulesInv, KeysInv, NEW c \in Editors,
           Create(c) \/ UpdateLook(c) \/ Update(c) \/ Delete(c)
    PROVE  KeysInv'
<1>1. CASE UpdateLook(c)
  <2>1. PICK y : /\ y = [at |-> "update", id |-> edit[c].id, targets |-> edit[c].targets,
                         seen |-> From({edit[c].id})]
                 /\ edit' = [edit EXCEPT ![c] = y] /\ UNCHANGED <<template, rules, inUse>>
    BY <1>1 DEF UpdateLook, Moves
  <2>2. Existing' = Existing /\ UniqueKeys' /\ Spares(y)
    BY <2>1 DEF Existing, Lives, UniqueKeys, KeysInv, Spares
  <2>. QED  BY <2>1, <2>2, CallSpares DEF KeysInv, Lives
<1>2. ASSUME Finish(c) PROVE \A d \in Editors : Spares(edit'[d])
  BY <1>2, CallSpares DEF Finish, Moves, Spares
<1>3. \A t \in Existing : template[t] \in TemplateRows /\ t \in Ids
  BY LivesIs DEF RulesInv, Existing
<1>4. CASE Create(c)
  <2>1. PICK i \in Ids : i = NewId /\ template[i] = Unborn
    BY <1>4 DEF Create, NewId
  <2>2. PICK S : S = edit[c].targets
    OBVIOUS
  <2>3. template' = [template EXCEPT ![i] = Fresh(Own, Own)] /\ rules' = rules \cup Rows(c, i, S) /\ inUse' = inUse
    BY <1>4, <2>1, <2>2 DEF Create
  <2>4. template'[i] = Fresh(Own, Own) /\ \A t \in Ids \ {i} : template'[t] = template[t]
    BY <2>3 DEF RulesInv, TemplatesInv
  <2>5. Fresh(Own, Own).key = Own /\ Fresh(Own, Own) # Unborn /\ Fresh(Own, Own) # Gone
    BY TemplateForms DEF Fresh, Texts
  <2>6. i \notin Existing /\ Existing' = Existing \cup {i}
    BY <2>1, <2>4, <2>5 DEF Existing, Lives
  <2>7. UniqueKeys'
    BY <1>3, <2>4, <2>5, <2>6 DEF KeysInv, UniqueKeys
  <2>8. \A r \in rules' : r.from \in Existing \cup {i}
    BY <2>3 DEF Rows, KeysInv, Existing, RulesInv, TemplatesInv, RuleRows
  <2>9. \A r \in rules' : Lives(r.from)'
    BY <2>6, <2>8 DEF Existing
  <2>. QED  BY <1>2, <1>4, <2>3, <2>6, <2>7, <2>9 DEF KeysInv, Create, Lives
<1>5. CASE Update(c)
  <2>1. PICK t \in Ids : t = edit[c].id
    BY <1>5 DEF Update, RulesInv, TemplatesInv, Edits
  <2>2. CASE Lives(t)
    <3>1. PICK x \in TemplateRows : x = template[t]
      BY <1>3, <2>2 DEF Existing
    <3>2. PICK y : y = IF x.key = Own THEN x ELSE [x EXCEPT !.text = Own, !.custom = TRUE, !.update = FALSE]
      OBVIOUS
    <3>3. y \in TemplateRows /\ y.key = x.key
      BY <3>2 DEF TemplateRows, Texts
    <3>4. template' = [template EXCEPT ![t] = y] /\ rules' = (rules \ edit[c].seen) \cup Rows(c, t, edit[c].targets)
      BY <1>5, <2>1, <2>2, <3>1, <3>2 DEF Update
    <3>5. template'[t] = y /\ \A s \in Ids \ {t} : template'[s] = template[s]
      BY <3>4 DEF RulesInv, TemplatesInv
    <3>6. /\ Existing' = Existing /\ t \in Existing
          /\ \A s \in Existing : template'[s].key = template[s].key
      BY <2>2, <3>1, <3>3, <3>5, TemplateForms DEF Existing, Lives
    <3>7. UniqueKeys'
      BY <3>6, FewerKeys DEF KeysInv
    <3>8. \A r \in rules' : r.from \in Existing
      BY <3>4, <3>6 DEF Rows, KeysInv, Existing, RulesInv, TemplatesInv, RuleRows
    <3>9. \A r \in rules' : Lives(r.from)'
      BY <3>6, <3>8 DEF Existing
    <3>. QED  BY <1>2, <1>5, <3>6, <3>7, <3>9 DEF KeysInv, Update, Lives
  <2>3. CASE ~Lives(t)
    <3>1. UNCHANGED <<template, rules, inUse>> /\ Finish(c)
      BY <1>5, <2>1, <2>3 DEF Update
    <3>2. Existing' = Existing /\ UniqueKeys'
      BY <3>1 DEF Existing, Lives, UniqueKeys, KeysInv
    <3>. QED  BY <1>2, <3>1, <3>2 DEF KeysInv, Lives
  <2>. QED  BY <2>2, <2>3
<1>6. CASE Delete(c)
  <2>1. PICK t \in Ids : t = edit[c].id
    BY <1>6 DEF Delete, RulesInv, TemplatesInv, Edits
  <2>2. CASE Lives(t)
    <3>1. /\ rules' = {r \in rules : t \notin {r.from, r.to}} /\ inUse' = inUse \ {t}
          /\ template' = [template EXCEPT ![t] = Gone]
      BY <1>6, <2>1, <2>2 DEF Delete, DropRules
    <3>2. template'[t] = Gone /\ \A s \in Ids \ {t} : template'[s] = template[s]
      BY <3>1 DEF RulesInv, TemplatesInv
    <3>3. Existing' = Existing \ {t} /\ \A s \in Existing' : template'[s].key = template[s].key
      BY <3>2 DEF Existing, Lives
    <3>4. UniqueKeys'
      BY <3>3, FewerKeys DEF KeysInv
    <3>5. \A r \in rules' : r.from \in Existing'
      BY <3>1, <3>3 DEF KeysInv, Existing, RulesInv, TemplatesInv, RuleRows
    <3>6. \A r \in rules' : Lives(r.from)'
      BY <3>5 DEF Existing
    <3>. QED  BY <1>2, <1>6, <3>1, <3>3, <3>4, <3>6 DEF KeysInv, Delete, Lives
  <2>3. CASE ~Lives(t)
    <3>1. UNCHANGED <<template, rules, inUse>> /\ Finish(c)
      BY <1>6, <2>1, <2>3 DEF Delete
    <3>2. Existing' = Existing /\ UniqueKeys'
      BY <3>1 DEF Existing, Lives, UniqueKeys, KeysInv
    <3>. QED  BY <1>2, <3>1, <3>2 DEF KeysInv, Lives
  <2>. QED  BY <2>2, <2>3
<1>. QED  BY <1>1, <1>4, <1>5, <1>6

LEMMA KeysStep ==
    ASSUME RulesInv, KeysInv, [TemplatesNext]_templates
    PROVE  KeysInv'
<1>1. ASSUME NEW c \in Editors, TemplatesCall(c) PROVE KeysInv'
  BY <1>1, TemplateReads, EditsUnique, CommitUnique DEF TemplatesCall
<1>2. ASSUME UNCHANGED <<rules, edit>>, inUse' \subseteq Existing, Existing' = Existing,
             \A t \in Existing : template'[t].key = template[t].key
      PROVE  KeysInv'
  <2>1. UniqueKeys'
    BY <1>2, FewerKeys DEF KeysInv
  <2>2. \A r \in rules : r.from \in Existing
    BY DEF KeysInv, Existing, RulesInv, TemplatesInv, RuleRows
  <2>3. \A r \in rules' : Lives(r.from)'
    BY <1>2, <2>2 DEF Existing
  <2>4. \A d \in Editors : Spares(edit'[d])
    BY <1>2 DEF KeysInv
  <2>. QED  BY <1>2, <2>1, <2>3, <2>4 DEF KeysInv, Lives
<1>3. ASSUME NEW t \in Ids, Use(t) PROVE KeysInv'
  BY <1>2, <1>3 DEF Use, KeysInv, Existing, Lives
<1>4. ASSUME NEW t \in Ids, Restore(t) PROVE KeysInv'
  <2>1. PICK x \in TemplateRows : x = template[t]
    BY <1>4, LivesIs DEF Restore, Seeded, Existing, RulesInv
  <2>2. PICK y : y = [x EXCEPT !.custom = FALSE, !.update = FALSE]
    OBVIOUS
  <2>3. y \in TemplateRows /\ y.key = x.key
    BY <2>2 DEF TemplateRows
  <2>4. template' = [template EXCEPT ![t] = y]
    BY <1>4, <2>1, <2>2 DEF Restore, RulesInv, TemplatesInv
  <2>5. template'[t] = y /\ \A s \in Ids \ {t} : template'[s] = template[s]
    BY <2>4 DEF RulesInv, TemplatesInv
  <2>6. Existing' = Existing /\ \A s \in Existing : template'[s].key = template[s].key
    BY <2>1, <2>3, <2>5, TemplateForms DEF Existing, Lives
  <2>. QED  BY <1>2, <1>4, <2>6 DEF Restore, KeysInv
<1>5. CASE UNCHANGED templates
  BY <1>2, <1>5 DEF templates, KeysInv, Existing, Lives
<1>. QED  BY <1>1, <1>3, <1>4, <1>5 DEF TemplatesNext

\* Each key of the catalogue has one template at most, a rule belongs to a template that
\* exists, and so does what chores were made from.
LEMMA TemplatesTyped == ServerSpec => []TemplatesTypeOK
<1>1. ServerInit => KeysInv
  <2>1. SUFFICES ASSUME ServerInit PROVE KeysInv
    OBVIOUS
  <2>2. rules = {} /\ inUse = {} /\ Existing = {} /\ edit = [c \in Editors |-> Unmade]
    BY <2>1 DEF ServerInit, TemplatesInit, Existing, Lives
  <2>3. \A c \in Editors : Spares(edit[c])
    BY <2>2 DEF Unmade, Spares
  <2>. QED  BY <2>2, <2>3 DEF KeysInv, UniqueKeys
<1>2. RulesInv /\ KeysInv /\ [ServerNext]_<<vars, parts>> => KeysInv'
  BY PartsMove, KeysStep
<1>3. ASSUME KeysInv PROVE TemplatesTypeOK
  <2>1. ASSUME NEW k \in Catalog PROVE Cardinality(WithKey(k)) <= 1
    <3>1. k # Own
      BY TemplatesAssumption
    <3>2. \A s, t \in WithKey(k) : s = t
      BY <1>3, <3>1 DEF WithKey, KeysInv, UniqueKeys
    <3>3. CASE WithKey(k) = {}
      BY <3>3, FS_EmptySet
    <3>4. CASE WithKey(k) # {}
      <4>1. PICK s : WithKey(k) = {s}
        BY <3>2, <3>4
      <4>. QED  BY <4>1, FS_Singleton
    <3>. QED  BY <3>3, <3>4
  <2>. QED  BY <1>3, <2>1 DEF TemplatesTypeOK, KeysInv
<1>. QED  BY <1>1, <1>2, <1>3, RulesKept, PTL DEF ServerSpec

-----------------------------------------------------------------------------
\* What the wizard chooses.
FollowUps == {"laundry_hang_clothes", "laundry_run_dryer", "laundry_fold_clothes", "laundry_put_away",
              "kitchen_unload_dishwasher", "cleaning_mop_floors", "bedroom_put_on_sheets", "kids_room_put_on_sheets"}

LEMMA GroupsLead ==
    /\ \A k \in DOMAIN Laundry : Laundry[k].next \subseteq FollowUps
    /\ \A k \in DOMAIN Kitchen : Kitchen[k].next \subseteq FollowUps
    /\ \A k \in DOMAIN FridgeAndOven : FridgeAndOven[k].next \subseteq FollowUps
    /\ \A k \in DOMAIN Cleaning : Cleaning[k].next \subseteq FollowUps
    /\ \A k \in DOMAIN TidyingAndWaste : TidyingAndWaste[k].next \subseteq FollowUps
    /\ \A k \in DOMAIN Bedroom : Bedroom[k].next \subseteq FollowUps
    /\ \A k \in DOMAIN PlantsAndKids : PlantsAndKids[k].next \subseteq FollowUps
    /\ \A k \in DOMAIN Outside : Outside[k].next \subseteq FollowUps
<1>1. \A k \in DOMAIN Laundry : Laundry[k].next \subseteq FollowUps
  BY DEF Laundry, Once, FollowUps
<1>2. \A k \in DOMAIN Kitchen : Kitchen[k].next \subseteq FollowUps
  BY DEF Kitchen, Once, Then, Recurring, FollowUps
<1>3. \A k \in DOMAIN FridgeAndOven : FridgeAndOven[k].next \subseteq FollowUps
  BY DEF FridgeAndOven, Recurring
<1>4. \A k \in DOMAIN Cleaning : Cleaning[k].next \subseteq FollowUps
  BY DEF Cleaning, Then, Recurring, FollowUps
<1>5. \A k \in DOMAIN TidyingAndWaste : TidyingAndWaste[k].next \subseteq FollowUps
  BY DEF TidyingAndWaste, Once, Recurring
<1>6. \A k \in DOMAIN Bedroom : Bedroom[k].next \subseteq FollowUps
  BY DEF Bedroom, Once, Then, Recurring, FollowUps
<1>7. \A k \in DOMAIN PlantsAndKids : PlantsAndKids[k].next \subseteq FollowUps
  BY DEF PlantsAndKids, Once, Then, Recurring, FollowUps
<1>8. \A k \in DOMAIN Outside : Outside[k].next \subseteq FollowUps
  BY DEF Outside, Recurring
<1>. QED  BY <1>1, <1>2, <1>3, <1>4, <1>5, <1>6, <1>7, <1>8

LEMMA InGroups ==
    \A k \in DOMAIN Starter :
        \/ k \in DOMAIN Laundry /\ Starter[k] = Laundry[k]
        \/ k \in DOMAIN Kitchen /\ Starter[k] = Kitchen[k]
        \/ k \in DOMAIN FridgeAndOven /\ Starter[k] = FridgeAndOven[k]
        \/ k \in DOMAIN Cleaning /\ Starter[k] = Cleaning[k]
        \/ k \in DOMAIN TidyingAndWaste /\ Starter[k] = TidyingAndWaste[k]
        \/ k \in DOMAIN Bedroom /\ Starter[k] = Bedroom[k]
        \/ k \in DOMAIN PlantsAndKids /\ Starter[k] = PlantsAndKids[k]
        \/ k \in DOMAIN Outside /\ Starter[k] = Outside[k]
<1>1. ASSUME NEW f, NEW g, NEW k \in DOMAIN (f ++ g)
      PROVE  (k \in DOMAIN f /\ (f ++ g)[k] = f[k]) \/ (k \in DOMAIN g /\ (f ++ g)[k] = g[k])
  BY DEF ++
<1>. QED  BY <1>1 DEF Starter
LEMMA FollowUpsOf == ASSUME NEW k \in DOMAIN Starter PROVE Starter[k].next \subseteq FollowUps
BY GroupsLead, InGroups

\* The entries that matter, and the pairs that they make.
LEMMA LaundryEntries ==
    /\ DOMAIN Laundry = {"laundry_run_machine", "laundry_run_dryer", "laundry_hang_clothes",
                         "laundry_fold_clothes", "laundry_put_away"}
    /\ Starter["laundry_run_machine"].next = {"laundry_hang_clothes", "laundry_run_dryer"}
    /\ Starter["laundry_run_dryer"].next = {"laundry_fold_clothes"}
    /\ Starter["laundry_hang_clothes"].next = {"laundry_fold_clothes"}
    /\ Starter["laundry_fold_clothes"].next = {"laundry_put_away"}
    /\ Starter["laundry_put_away"].next = {}
    /\ Starter["bedroom_strip_sheets"].next = {"bedroom_put_on_sheets"}
    /\ Starter["kids_room_strip_sheets"].next = {"kids_room_put_on_sheets"}
    /\ Starter["kitchen_unload_dishwasher"].recurs /\ Starter["cleaning_mop_floors"].recurs
    /\ {"bedroom_strip_sheets", "bedroom_put_on_sheets", "kids_room_strip_sheets", "kids_room_put_on_sheets"}
           \subseteq DOMAIN Starter
    /\ DOMAIN Laundry \subseteq DOMAIN Starter
<1>1. DOMAIN Laundry = {"laundry_run_machine", "laundry_run_dryer", "laundry_hang_clothes",
                       "laundry_fold_clothes", "laundry_put_away"}
  BY DEF Laundry
<1>2. \A k \in DOMAIN Laundry : k \in DOMAIN Starter /\ Starter[k] = Laundry[k]
  BY DEF Starter, ++
<1>3. DOMAIN Kitchen = {"kitchen_evening_cleanup", "kitchen_unload_dishwasher", "kitchen_hand_wash_dishes",
                        "kitchen_clean_microwave"}
  BY DEF Kitchen
<1>4. DOMAIN FridgeAndOven = {"kitchen_clean_fridge", "kitchen_clean_oven"}
  BY DEF FridgeAndOven
<1>5. DOMAIN Cleaning = {"cleaning_vacuum_house", "cleaning_mop_floors", "cleaning_dust_surfaces",
                         "cleaning_bathroom", "cleaning_toilet", "cleaning_windows"}
  BY DEF Cleaning
<1>6. DOMAIN TidyingAndWaste = {"cleaning_tidy_living_areas", "waste_take_out_rubbish", "waste_take_out_recycling"}
  BY DEF TidyingAndWaste
<1>7. DOMAIN Bedroom = {"bedroom_make_bed", "bedroom_strip_sheets", "bedroom_put_on_sheets", "bedroom_change_towels"}
  BY DEF Bedroom
<1>8. DOMAIN PlantsAndKids = {"plants_water_plants", "kids_room_tidy", "kids_room_strip_sheets",
                              "kids_room_put_on_sheets"}
  BY DEF PlantsAndKids
<1>9. DOMAIN Outside \cap FollowUps = {}
  BY DEF Outside, FollowUps
<1>10. DOMAIN Starter = DOMAIN Laundry \cup DOMAIN Kitchen \cup DOMAIN FridgeAndOven \cup DOMAIN Cleaning
           \cup DOMAIN TidyingAndWaste \cup DOMAIN Bedroom \cup DOMAIN PlantsAndKids \cup DOMAIN Outside
  BY DEF Starter, ++
<1>11. /\ Starter["laundry_run_machine"].next = {"laundry_hang_clothes", "laundry_run_dryer"}
       /\ Starter["laundry_run_dryer"].next = {"laundry_fold_clothes"}
       /\ Starter["laundry_hang_clothes"].next = {"laundry_fold_clothes"}
       /\ Starter["laundry_fold_clothes"].next = {"laundry_put_away"}
       /\ Starter["laundry_put_away"].next = {}
  BY <1>1, <1>2 DEF Laundry, Once
<1>12. "bedroom_strip_sheets" \notin DOMAIN Outside /\ "kids_room_strip_sheets" \notin DOMAIN Outside
  BY DEF Outside
<1>13. Starter["bedroom_strip_sheets"] = Bedroom["bedroom_strip_sheets"]
  BY <1>1, <1>3, <1>4, <1>5, <1>6, <1>7, <1>8, <1>10, <1>12, InGroups
<1>14. Starter["kids_room_strip_sheets"] = PlantsAndKids["kids_room_strip_sheets"]
  BY <1>1, <1>3, <1>4, <1>5, <1>6, <1>7, <1>8, <1>10, <1>12, InGroups
<1>15. Starter["kitchen_unload_dishwasher"] = Kitchen["kitchen_unload_dishwasher"]
  BY <1>1, <1>3, <1>4, <1>5, <1>6, <1>7, <1>8, <1>9, <1>10, InGroups DEF FollowUps
<1>16. Starter["cleaning_mop_floors"] = Cleaning["cleaning_mop_floors"]
  BY <1>1, <1>3, <1>4, <1>5, <1>6, <1>7, <1>8, <1>9, <1>10, InGroups DEF FollowUps
<1>17. /\ Bedroom["bedroom_strip_sheets"].next = {"bedroom_put_on_sheets"}
       /\ PlantsAndKids["kids_room_strip_sheets"].next = {"kids_room_put_on_sheets"}
       /\ Kitchen["kitchen_unload_dishwasher"].recurs /\ Cleaning["cleaning_mop_floors"].recurs
  BY DEF Bedroom, PlantsAndKids, Kitchen, Cleaning, Then, Recurring
<1>18. {"bedroom_strip_sheets", "bedroom_put_on_sheets", "kids_room_strip_sheets", "kids_room_put_on_sheets"}
           \subseteq DOMAIN Starter
  BY <1>7, <1>8, <1>10
<1>. QED  BY <1>1, <1>2, <1>11, <1>13, <1>14, <1>15, <1>16, <1>17, <1>18

\* What is chosen and follows another is called for by something that is chosen.
LEMMA Preceded ==
    ASSUME NEW a \in AllAnswers, NEW t \in Seeds(a), ~Starter[t].recurs, NEW e \in StarterChains, e[2] = t
    PROVE  \E x \in StarterChains : x[2] = t /\ x[1] \in Seeds(a)
<1>1. t \in FollowUps
  BY FollowUpsOf DEF StarterChains
<1>2. ASSUME NEW k \in DOMAIN Starter, NEW l \in DOMAIN Starter, l \in Starter[k].next
      PROVE  <<k, l>> \in StarterChains /\ <<k, l>>[1] = k /\ <<k, l>>[2] = l
  BY <1>2 DEF StarterChains
<1>3. ASSUME NEW k \in DOMAIN Starter, t \in Starter[k].next, k \in Seeds(a)
      PROVE  \E x \in StarterChains : x[2] = t /\ x[1] \in Seeds(a)
  <2>1. t \in DOMAIN Starter
    BY DEF StarterChains
  <2>2. <<k, t>> \in StarterChains /\ <<k, t>>[1] = k /\ <<k, t>>[2] = t
    BY <1>2, <1>3, <2>1
  <2>. QED  BY <1>3, <2>2
<1>4. "bedroom_strip_sheets" \in Seeds(a)
  BY DEF Seeds, Baseline
<1>5. ASSUME t \in {"laundry_hang_clothes", "laundry_run_dryer", "laundry_fold_clothes", "laundry_put_away"}
      PROVE  /\ {"laundry_run_machine", "laundry_fold_clothes"} \subseteq Seeds(a)
             /\ "laundry_hang_clothes" \in Seeds(a) \/ "laundry_run_dryer" \in Seeds(a)
  <2>1. "washing_machine" \in a.appliances
    BY <1>5 DEF Seeds, Baseline, When
  <2>. QED  BY <2>1 DEF Seeds, When, Drying
<1>6. t = "kids_room_put_on_sheets" => "kids_room_strip_sheets" \in Seeds(a)
  <2>1. ASSUME t = "kids_room_put_on_sheets"
        PROVE  a.people = "family" /\ (a.split # "adults_do_most" \/ a.older)
    BY <2>1 DEF Seeds, Baseline, When, Drying
  <2>. QED  BY <2>1 DEF Seeds, When
<1>. QED  BY <1>1, <1>3, <1>4, <1>5, <1>6, LaundryEntries DEF FollowUps

\* After the wizard, what is kept is what some answers choose, and all of it is wired.
ServedInv ==
    ~apart =>
        /\ \E a \in AllAnswers : kept = Seeds(a)
        /\ \A e \in StarterChains : {e[1], e[2]} \subseteq kept => wires[e] > 0

LEMMA ServedStep ==
    ASSUME ServedInv, NEW S, [StartersNext(S)]_starters
    PROVE  ServedInv'
<1>1. CASE UNCHANGED <<kept, wires, apart>>
  BY <1>1 DEF ServedInv
<1>2. CASE apart'
  BY <1>2 DEF ServedInv
<1>3. ASSUME NEW a \in AllAnswers, SubmitOnboarding(a) PROVE ServedInv'
  <2>1. kept' = Seeds(a) /\ wires' = RulesOfAll(customized \cap Seeds(a), Seeds(a))
    BY <1>3 DEF SubmitOnboarding
  <2>2. ASSUME NEW e \in StarterChains, {e[1], e[2]} \subseteq Seeds(a) PROVE wires'[e] > 0
    BY <2>1, <2>2 DEF RulesOfAll
  <2>. QED  BY <2>1, <2>2 DEF ServedInv
<1>4. ASSUME NEW keys, SyncCatalogTemplates(keys), ~apart' PROVE ServedInv'
  <2>1. keys \ kept = {} /\ ~apart
    BY <1>4 DEF SyncCatalogTemplates
  <2>2. kept' = kept /\ \A e \in StarterChains : wires'[e] = wires[e]
    BY <1>4, <2>1 DEF SyncCatalogTemplates, WireMade
  <2>. QED  BY <2>1, <2>2 DEF ServedInv
<1>5. ASSUME NEW c \in Sessions, SyncCatalog(c) \/ AcceptProfileSuggestion(c) PROVE ServedInv'
  BY <1>2, <1>4, <1>5 DEF SyncCatalog, AcceptProfileSuggestion
<1>6. ASSUME NEW c \in Sessions,
             \/ SyncAnswers(c) \/ (\E a \in Profiles : ProfileRead(c, a)) \/ SaveHouseholdProfile(c)
             \/ \E keys, accepted : SuggestionRead(c, keys, accepted)
             \/ UpdateProfileSuggestions(c)
      PROVE  ServedInv'
  BY <1>1, <1>6 DEF SyncAnswers, ProfileRead, SaveHouseholdProfile, SuggestionRead, UpdateProfileSuggestions
<1>7. CASE \E k \in Wash : (\E T \in SUBSET Starter[k].next : Customize(k, T)) \/ DeleteStarter(k)
  BY <1>2, <1>7 DEF Customize, DeleteStarter
<1>8. CASE BeginLoad \/ (\E k \in Wash : CompleteChore(k)) \/ CompleteLoose
  BY <1>1, <1>8 DEF BeginLoad, CompleteChore, CompleteLoose
<1>9. CASE \E a \in Profiles \cup {HalfAnswered} : SaveDraft(a)
  BY <1>1, <1>9 DEF SaveDraft
<1>10. CASE UNCHANGED starters
  BY <1>1, <1>10 DEF starters
<1>. QED  BY <1>3, <1>5, <1>6, <1>7, <1>8, <1>9, <1>10, StartersAssumption DEF StartersNext

LEMMA ServedFollows == ServedInv => FollowUpsComeUp
<1>1. SUFFICES ASSUME ServedInv, ~apart, NEW t \in kept, ~Starter[t].recurs, NEW e \in StarterChains, e[2] = t
               PROVE  \E x \in StarterChains : x[2] = t /\ wires[x] > 0
  BY DEF FollowUpsComeUp
<1>2. PICK a \in AllAnswers : kept = Seeds(a)
  BY <1>1 DEF ServedInv
<1>3. PICK x \in StarterChains : x[2] = t /\ x[1] \in Seeds(a)
  BY <1>1, <1>2, Preceded
<1>. QED  BY <1>1, <1>2, <1>3 DEF ServedInv

LEMMA ServedKept == ServerSpec => []ServedInv
<1>1. ServerInit => ServedInv
  BY DEF ServerInit, StartersInit, ServedInv
<1>2. ServedInv /\ [ServerNext]_<<vars, parts>> => ServedInv'
  BY PartsMove, ServedStep
<1>. QED  BY <1>1, <1>2, PTL DEF ServerSpec

\* Whatever a household answers the wizard, each chore that only comes up after another
\* one is called for by a chore that the wizard has given it too, until a synchronisation,
\* a suggestion or a member changes the templates again.
THEOREM WizardIsComplete == ServerSpec => []FollowUpsComeUp
BY ServedKept, ServedFollows, PTL

-----------------------------------------------------------------------------
\* One load at a time.

Run == "laundry_run_machine"
Dryer == "laundry_run_dryer"
Line == "laundry_hang_clothes"
Folding == "laundry_fold_clothes"
Away == "laundry_put_away"

LEMMA WashKeys ==
    /\ Wash = {Run, Dryer, Line, Folding, Away} /\ Wash \subseteq DOMAIN Starter
    /\ Apart(Run, Dryer, Line, Folding, Away)
    /\ Starter[Run].next = {Line, Dryer} /\ Starter[Dryer].next = {Folding}
    /\ Starter[Line].next = {Folding} /\ Starter[Folding].next = {Away} /\ Starter[Away].next = {}
BY LaundryEntries DEF Run, Dryer, Line, Folding, Away, Wash, Apart

\* The rules of the laundry.
LEMMA WashChains ==
    {<<Run, Line>>, <<Run, Dryer>>, <<Dryer, Folding>>, <<Line, Folding>>, <<Folding, Away>>}
        \subseteq StarterChains
<1>1. ASSUME NEW k \in DOMAIN Starter, NEW t \in DOMAIN Starter, t \in Starter[k].next
      PROVE  <<k, t>> \in StarterChains
  BY <1>1 DEF StarterChains
<1>2. {Run, Dryer, Line, Folding, Away} \subseteq DOMAIN Starter
  BY WashKeys
<1>3. <<Run, Line>> \in StarterChains /\ <<Run, Dryer>> \in StarterChains
  BY <1>1, <1>2, WashKeys
<1>4. <<Dryer, Folding>> \in StarterChains /\ <<Line, Folding>> \in StarterChains
  BY <1>1, <1>2, WashKeys
<1>5. <<Folding, Away>> \in StarterChains
  BY <1>1, <1>2, WashKeys
<1>. QED  BY <1>3, <1>4, <1>5

\* A machine comes with the folding and the putting away, and with one way to dry.
Whole(keys) ==
    keys \cap Wash # {} => {Run, Folding, Away} \subseteq keys /\ ~({Line, Dryer} \subseteq keys)

LEMMA SeedsOfWash ==
    ASSUME NEW a \in AllAnswers
    PROVE  /\ "washing_machine" \in a.appliances =>
                  /\ {Run, Folding, Away} \subseteq Seeds(a)
                  /\ Dryer \in Seeds(a) <=> "tumble_dryer" \in a.appliances
                  /\ Line \in Seeds(a) <=> "tumble_dryer" \notin a.appliances
           /\ "washing_machine" \notin a.appliances => Seeds(a) \cap Wash = {}
<1>1. ASSUME "washing_machine" \in a.appliances
      PROVE  /\ {Run, Folding, Away} \subseteq Seeds(a)
             /\ "tumble_dryer" \in a.appliances => Dryer \in Seeds(a)
             /\ "tumble_dryer" \notin a.appliances => Line \in Seeds(a)
  BY <1>1 DEF Seeds, When, Drying, Run, Folding, Away, Dryer, Line
<1>2. ASSUME Dryer \in Seeds(a) PROVE "washing_machine" \in a.appliances /\ "tumble_dryer" \in a.appliances
  BY <1>2 DEF Seeds, Baseline, When, Drying, Dryer
<1>3. ASSUME Line \in Seeds(a) PROVE "washing_machine" \in a.appliances /\ "tumble_dryer" \notin a.appliances
  BY <1>3 DEF Seeds, Baseline, When, Drying, Line
<1>4. ASSUME Run \in Seeds(a) PROVE "washing_machine" \in a.appliances
  BY <1>4 DEF Seeds, Baseline, When, Drying, Run
<1>5. ASSUME Folding \in Seeds(a) PROVE "washing_machine" \in a.appliances
  BY <1>5 DEF Seeds, Baseline, When, Drying, Folding
<1>6. ASSUME Away \in Seeds(a) PROVE "washing_machine" \in a.appliances
  BY <1>6 DEF Seeds, Baseline, When, Drying, Away
<1>. QED  BY <1>1, <1>2, <1>3, <1>4, <1>5, <1>6, WashKeys

\* So does what one profile adds to another.
LEMMA SeedsWhole == ASSUME NEW a \in AllAnswers PROVE Whole(Seeds(a))
BY SeedsOfWash, WashKeys DEF Whole
LEMMA AddedWhole ==
    ASSUME NEW x \in AllAnswers, NEW a \in AllAnswers, Seeds(x) \subseteq Seeds(a)
    PROVE  Whole(Seeds(a) \ Seeds(x))
<1>1. CASE "washing_machine" \notin x.appliances
  <2>1. Seeds(x) \cap Wash = {}
    BY <1>1, SeedsOfWash
  <2>. QED  BY <2>1, SeedsWhole, WashKeys DEF Whole
<1>2. CASE "washing_machine" \in x.appliances
  <2>1. {Run, Folding, Away} \subseteq Seeds(x) /\ (Dryer \in Seeds(x) \/ Line \in Seeds(x))
    BY <1>2, SeedsOfWash
  <2>2. Whole(Seeds(a)) /\ {Run, Folding, Away} \subseteq Seeds(a)
    BY <2>1, SeedsWhole
  <2>3. (Seeds(a) \ Seeds(x)) \cap Wash = {}
    BY <2>1, <2>2, WashKeys DEF Whole
  <2>. QED  BY <2>3 DEF Whole
<1>. QED  BY <1>1, <1>2

\* All of it is in the catalogue.
LEMMA InCatalog ==
    \A k : k \in DOMAIN Starter <=>
        \/ k \in DOMAIN Laundry \/ k \in DOMAIN Kitchen \/ k \in DOMAIN FridgeAndOven
        \/ k \in DOMAIN Cleaning \/ k \in DOMAIN TidyingAndWaste \/ k \in DOMAIN Bedroom
        \/ k \in DOMAIN PlantsAndKids \/ k \in DOMAIN Outside
<1>1. ASSUME NEW f, NEW g PROVE \A k : k \in DOMAIN (f ++ g) <=> k \in DOMAIN f \/ k \in DOMAIN g
  BY DEF ++
<1>2. PICK f2 : f2 = Laundry ++ Kitchen
  OBVIOUS
<1>3. PICK f3 : f3 = f2 ++ FridgeAndOven
  OBVIOUS
<1>4. PICK f4 : f4 = f3 ++ Cleaning
  OBVIOUS
<1>5. PICK f5 : f5 = f4 ++ TidyingAndWaste
  OBVIOUS
<1>6. PICK f6 : f6 = f5 ++ Bedroom
  OBVIOUS
<1>7. PICK f7 : f7 = f6 ++ PlantsAndKids
  OBVIOUS
<1>8. Starter = f7 ++ Outside
  BY <1>2, <1>3, <1>4, <1>5, <1>6, <1>7, Zenon DEF Starter
<1>9. \A k : k \in DOMAIN f4 <=> k \in DOMAIN Laundry \/ k \in DOMAIN Kitchen \/ k \in DOMAIN FridgeAndOven
                                \/ k \in DOMAIN Cleaning
  BY <1>1, <1>2, <1>3, <1>4
<1>. QED  BY <1>1, <1>5, <1>6, <1>7, <1>8, <1>9

LEMMA SeedsKnown == ASSUME NEW a PROVE Seeds(a) \subseteq DOMAIN Starter
<1>1. {"cleaning_bathroom", "cleaning_toilet", "cleaning_dust_surfaces", "cleaning_mop_floors",
       "cleaning_vacuum_house"} \subseteq DOMAIN Starter
  <2>1. {"cleaning_bathroom", "cleaning_toilet", "cleaning_dust_surfaces", "cleaning_mop_floors",
         "cleaning_vacuum_house"} \subseteq DOMAIN Cleaning
    BY DEF Cleaning
  <2>. QED  BY <2>1, InCatalog
<1>2. {"waste_take_out_rubbish", "waste_take_out_recycling", "cleaning_tidy_living_areas"} \subseteq DOMAIN Starter
  <2>1. {"waste_take_out_rubbish", "waste_take_out_recycling", "cleaning_tidy_living_areas"}
            \subseteq DOMAIN TidyingAndWaste
    BY DEF TidyingAndWaste
  <2>. QED  BY <2>1, InCatalog
<1>3. {"bedroom_make_bed", "bedroom_change_towels", "bedroom_strip_sheets", "bedroom_put_on_sheets"}
          \subseteq DOMAIN Starter
  <2>1. {"bedroom_make_bed", "bedroom_change_towels", "bedroom_strip_sheets", "bedroom_put_on_sheets"}
            \subseteq DOMAIN Bedroom
    BY DEF Bedroom
  <2>. QED  BY <2>1, InCatalog
<1>4. {"kitchen_evening_cleanup", "kitchen_unload_dishwasher", "kitchen_hand_wash_dishes"} \subseteq DOMAIN Starter
  <2>1. {"kitchen_evening_cleanup", "kitchen_unload_dishwasher", "kitchen_hand_wash_dishes"} \subseteq DOMAIN Kitchen
    BY DEF Kitchen
  <2>. QED  BY <2>1, InCatalog
<1>5. "kitchen_clean_fridge" \in DOMAIN Starter
  <2>1. "kitchen_clean_fridge" \in DOMAIN FridgeAndOven
    BY DEF FridgeAndOven
  <2>. QED  BY <2>1, InCatalog
<1>6. {"plants_water_plants", "kids_room_tidy", "kids_room_strip_sheets", "kids_room_put_on_sheets"}
          \subseteq DOMAIN Starter
  <2>1. {"plants_water_plants", "kids_room_tidy", "kids_room_strip_sheets", "kids_room_put_on_sheets"}
            \subseteq DOMAIN PlantsAndKids
    BY DEF PlantsAndKids
  <2>. QED  BY <2>1, InCatalog
<1>7. {"outdoor_sweep_entrance", "outdoor_mow_lawn", "cooking_prepare_dinner", "shopping_grocery_run"}
          \subseteq DOMAIN Starter
  <2>1. {"outdoor_sweep_entrance", "outdoor_mow_lawn", "cooking_prepare_dinner", "shopping_grocery_run"}
            \subseteq DOMAIN Outside
    BY DEF Outside
  <2>. QED  BY <2>1, InCatalog
<1>8. Baseline \subseteq DOMAIN Starter
  BY <1>1, <1>2, <1>3, <1>4, <1>5 DEF Baseline
<1>9. {"laundry_run_machine", "laundry_fold_clothes", "laundry_put_away"} \cup Drying(a) \subseteq DOMAIN Starter
  BY WashKeys DEF Drying, Run, Dryer, Line, Folding, Away
<1>10. \A condition, keys : keys \subseteq DOMAIN Starter => When(condition, keys) \subseteq DOMAIN Starter
  BY DEF When
<1>. QED  BY <1>1, <1>4, <1>6, <1>7, <1>8, <1>9, <1>10 DEF Seeds

\* The open chores of the laundry, put together.
LEMMA OpenChores ==
    ASSUME NEW o \in [Wash -> Nat], NEW l \in Nat
    PROVE  FoldFunction(+, l, o) = l + o[Run] + o[Dryer] + o[Line] + o[Folding] + o[Away]
<1>1. FoldFunction(+, l, o) = Folded(l, o, Wash)
  <2>1. DOMAIN o = Wash
    OBVIOUS
  <2>. QED  BY <2>1 DEF FoldFunction, Folded
<1>2. Wash = {Run, Dryer, Line, Folding, Away}
  BY WashKeys
<1>3. o \in [Wash -> Int] /\ l \in Int
  OBVIOUS
<1>4. Folded(l, o, Wash) = Together(l, o, Run, Dryer, Line, Folding, Away)
  <2>1. Apart(Run, Dryer, Line, Folding, Away)
    BY WashKeys
  <2>. QED  BY <1>2, <1>3, <2>1, FoldOfFive
<1>. QED  BY <1>1, <1>4 DEF Together

\* What is suggested, and what calls have read, is whole and of the catalogue.
Known(keys) == keys \subseteq DOMAIN Starter /\ Whole(keys)
SuggestsWhole(x) == \A keys \in x.pending : Known(keys)
ReadWhole(s) ==
    /\ s.at \in {"sync", "accept"} => Known(s.keys)
    /\ s.at = "profile" => s.answers \in AllAnswers /\ SuggestsWhole(s)
    /\ s.at \in {"accept", "answer"} => SuggestsWhole(s.next)
    /\ s.at = "accept" => s = [at |-> "accept", keys |-> s.keys, next |-> s.next]
ReadInv ==
    /\ answers \in AllAnswers \cup {NoAnswers, HalfAnswered}
    /\ SuggestsWhole(suggestions)
    /\ DOMAIN session = Sessions /\ \A c \in Sessions : ReadWhole(session[c])

LEMMA SessionMoves ==
    ASSUME ReadInv, NEW c \in Sessions, NEW y, ReadWhole(y), Proceeds(c, y),
           answers' \in AllAnswers \cup {NoAnswers, HalfAnswered}, SuggestsWhole(suggestions)'
    PROVE  ReadInv'
<1>1. session' = [session EXCEPT ![c] = y] /\ DOMAIN session' = Sessions
  BY DEF Proceeds, ReadInv
<1>2. ASSUME NEW d \in Sessions PROVE ReadWhole(session'[d])
  <2>1. session'[d] = IF d = c THEN y ELSE session[d]
    BY <1>1 DEF ReadInv
  <2>. QED  BY <2>1 DEF ReadInv
<1>. QED  BY <1>1, <1>2 DEF ReadInv

LEMMA AnsweredTyped == ASSUME ReadInv, answers # HalfAnswered PROVE Answered \in AllAnswers
<1>1. BlankProfile \in AllAnswers
  BY DEF BlankProfile, AllAnswers
<1>. QED  BY <1>1 DEF ReadInv, Answered

LEMMA SuggestionReadKeeps ==
    ASSUME ReadInv, NEW c \in Sessions,
           \/ SyncAnswers(c) \/ SyncCatalog(c)
           \/ (\E a \in Profiles : ProfileRead(c, a)) \/ SaveHouseholdProfile(c)
           \/ \E keys \in suggestions.pending, accepted \in BOOLEAN : SuggestionRead(c, keys, accepted)
           \/ AcceptProfileSuggestion(c) \/ UpdateProfileSuggestions(c)
    PROVE  ReadInv'
<1>1. ReadWhole(Unopened)
  BY DEF Unopened, ReadWhole
<1>2. ReadWhole(session[c])
  BY DEF ReadInv
<1>3. CASE SyncAnswers(c)
  <2>1. ReadWhole([at |-> "sync", keys |-> Seeds(Answered)])
    BY <1>3, AnsweredTyped, SeedsWhole, SeedsKnown DEF ReadWhole, Known, SyncAnswers
  <2>. QED  BY <1>3, <2>1, SessionMoves DEF SyncAnswers, ReadInv
<1>4. CASE SyncCatalog(c)
  BY <1>1, <1>4, SessionMoves DEF SyncCatalog, Closes, ReadInv
<1>5. ASSUME NEW a \in Profiles, ProfileRead(c, a) PROVE ReadInv'
  <2>. DEFINE added == Seeds(a) \ Seeds(Answered)
              P == {added} \ ({{}} \cup suggestions.dismissed)
  <2>1. a \in AllAnswers /\ Answered \in AllAnswers /\ Seeds(Answered) \subseteq Seeds(a)
    BY <1>5, AnsweredTyped, StartersAssumption DEF ProfileRead
  <2>2. \A keys \in P : Known(keys)
    BY <2>1, AddedWhole, SeedsKnown DEF Known
  <2>3. ReadWhole([at |-> "profile", answers |-> a, pending |-> P])
    BY <2>1, <2>2 DEF ReadWhole, SuggestsWhole
  <2>4. Proceeds(c, [at |-> "profile", answers |-> a, pending |-> P]) /\ UNCHANGED <<answers, suggestions>>
    BY <1>5 DEF ProfileRead
  <2>. QED  BY <2>3, <2>4, SessionMoves DEF ReadInv
<1>6. CASE SaveHouseholdProfile(c)
  <2>1. session[c].answers \in AllAnswers /\ SuggestsWhole(session[c])
    BY <1>2, <1>6 DEF ReadWhole, SaveHouseholdProfile
  <2>2. answers' \in AllAnswers /\ SuggestsWhole(suggestions)'
    BY <1>6, <2>1 DEF SaveHouseholdProfile, SuggestsWhole
  <2>. QED  BY <1>1, <1>6, <2>2, SessionMoves DEF SaveHouseholdProfile, Closes
<1>7. ASSUME NEW keys \in suggestions.pending, NEW accepted \in BOOLEAN, SuggestionRead(c, keys, accepted)
      PROVE  ReadInv'
  <2>. DEFINE x == [pending |-> suggestions.pending \ {keys},
                    dismissed |-> suggestions.dismissed \cup (IF accepted THEN {} ELSE {keys})]
              y == [at |-> IF accepted THEN "accept" ELSE "answer", keys |-> keys, next |-> x]
  <2>1. Known(keys) /\ SuggestsWhole(x)
    BY DEF ReadInv, SuggestsWhole
  <2>2. Proceeds(c, y) /\ UNCHANGED <<answers, suggestions>>
    BY <1>7 DEF SuggestionRead
  <2>. HIDE DEF x
  <2>3. ReadWhole(y)
    BY <2>1 DEF ReadWhole
  <2>. HIDE DEF y
  <2>. QED  BY <2>2, <2>3, SessionMoves DEF ReadInv
<1>8. CASE AcceptProfileSuggestion(c)
  <2>1. SuggestsWhole(session[c].next) /\ session[c] = [at |-> "accept", keys |-> session[c].keys, next |-> session[c].next]
    BY <1>2, <1>8 DEF ReadWhole, AcceptProfileSuggestion
  <2>2. [session[c] EXCEPT !.at = "answer"].at = "answer" /\ [session[c] EXCEPT !.at = "answer"].next = session[c].next
    BY <2>1
  <2>3. ReadWhole([session[c] EXCEPT !.at = "answer"])
    BY <2>1, <2>2 DEF ReadWhole
  <2>. QED  BY <1>8, <2>3, SessionMoves DEF AcceptProfileSuggestion, ReadInv
<1>9. CASE UpdateProfileSuggestions(c)
  <2>1. SuggestsWhole(suggestions)'
    BY <1>2, <1>9 DEF ReadWhole, UpdateProfileSuggestions, SuggestsWhole
  <2>. QED  BY <1>1, <1>9, <2>1, SessionMoves DEF UpdateProfileSuggestions, Closes, ReadInv
<1>. QED  BY <1>3, <1>4, <1>5, <1>6, <1>7, <1>8, <1>9

LEMMA SuggestionReadStep == ASSUME ReadInv, NEW S, [StartersNext(S)]_starters PROVE ReadInv'
<1>1. CASE UNCHANGED <<answers, suggestions, session>>
  BY <1>1 DEF ReadInv, SuggestsWhole, ReadWhole
<1>2. ASSUME NEW a \in AllAnswers \cup {HalfAnswered}, answers' = a, UNCHANGED <<suggestions, session>>
      PROVE  ReadInv'
  BY <1>2 DEF ReadInv, SuggestsWhole, ReadWhole
<1>3. ASSUME NEW a \in AllAnswers, SubmitOnboarding(a) PROVE ReadInv'
  BY <1>2, <1>3 DEF SubmitOnboarding
<1>4. CASE \E a \in Profiles \cup {HalfAnswered} : SaveDraft(a)
  BY <1>2, <1>4, StartersAssumption DEF SaveDraft
<1>5. CASE \E k \in Wash : (\E T \in SUBSET Starter[k].next : Customize(k, T)) \/ DeleteStarter(k)
  BY <1>1, <1>5 DEF Customize, DeleteStarter
<1>6. CASE BeginLoad \/ (\E k \in Wash : CompleteChore(k)) \/ CompleteLoose
  BY <1>1, <1>6 DEF BeginLoad, CompleteChore, CompleteLoose
<1>7. CASE UNCHANGED starters
  BY <1>1, <1>7 DEF starters
<1>. QED  BY <1>3, <1>4, <1>5, <1>6, <1>7, SuggestionReadKeeps, StartersAssumption DEF StartersNext

\* As long as only answers have shaped it, the laundry has one rule to dry by, no rule
\* twice or of what is gone, and no more open chores than loads.
InAll == Together(loose, open, Run, Dryer, Line, Folding, Away)
Shaped ==
    /\ customized = {} /\ loose \in Nat
    /\ kept \cap Wash # {} => {Run, Folding, Away} \subseteq kept
    /\ \A e \in StarterChains : wires[e] <= 1 /\ (wires[e] > 0 => {e[1], e[2]} \subseteq kept)
    /\ wires[<<Run, Line>>] + wires[<<Run, Dryer>>] <= 1
    /\ InAll <= loads
LoadsInv ==
    /\ open \in [Wash -> Nat] /\ wires \in [StarterChains -> Nat] /\ loads \in Nat
    /\ loads = 0 => loose = 0 /\ \A k \in Wash : open[k] = 0
    /\ ~byHand => Shaped

LEMMA OpenTyped ==
    ASSUME NEW o \in [Wash -> Nat]
    PROVE  o[Run] \in Nat /\ o[Dryer] \in Nat /\ o[Line] \in Nat /\ o[Folding] \in Nat /\ o[Away] \in Nat
<1>1. Run \in Wash /\ Dryer \in Wash /\ Line \in Wash /\ Folding \in Wash /\ Away \in Wash
  BY WashKeys
<1>. QED  BY <1>1

LEMMA WashFinite == IsFiniteSet(Wash)
<1>1. \A S, x : IsFiniteSet(S) => IsFiniteSet(S \cup {x})
  BY FS_AddElement
<1>2. IsFiniteSet({} \cup {Run})
  BY <1>1, FS_EmptySet
<1>3. IsFiniteSet(({} \cup {Run}) \cup {Dryer})
  BY <1>1, <1>2
<1>4. IsFiniteSet((({} \cup {Run}) \cup {Dryer}) \cup {Line})
  BY <1>1, <1>3
<1>5. IsFiniteSet(((({} \cup {Run}) \cup {Dryer}) \cup {Line}) \cup {Folding})
  BY <1>1, <1>4
<1>6. IsFiniteSet((((({} \cup {Run}) \cup {Dryer}) \cup {Line}) \cup {Folding}) \cup {Away})
  BY <1>1, <1>5
<1>7. Wash = (((({} \cup {Run}) \cup {Dryer}) \cup {Line}) \cup {Folding}) \cup {Away}
  BY WashKeys
<1>. QED  BY <1>6, <1>7

\* What is synchronised is wired once, and to what was there before only from what is new.
LEMMA SyncKeeps ==
    ASSUME LoadsInv, NEW keys, Whole(keys), SyncCatalogTemplates(keys), UNCHANGED TheLaundry
    PROVE  LoadsInv'
<1>. DEFINE fresh == keys \ kept
<1>1. /\ kept' = kept \cup fresh /\ customized' = customized /\ UNCHANGED <<open, loose, loads, byHand>>
      /\ wires' = [e \in StarterChains |-> IF e[1] \in fresh /\ e[2] \in kept \cup fresh THEN 1 ELSE wires[e]]
  BY DEF SyncCatalogTemplates, WireMade, TheLaundry
<1>2. \A e \in StarterChains : wires'[e] = IF e[1] \in fresh /\ e[2] \in kept \cup fresh THEN 1 ELSE wires[e]
  BY <1>1
<1>3. wires' \in [StarterChains -> Nat]
  BY <1>1 DEF LoadsInv
<1>4. ASSUME ~byHand PROVE Shaped'
  <2>1. Shaped /\ InAll' = InAll
    BY <1>1, <1>4 DEF LoadsInv, InAll
  <2>2. customized' = {} /\ loose' \in Nat /\ InAll' <= loads'
    BY <1>1, <2>1 DEF Shaped
  <2>3. kept' \cap Wash # {} => {Run, Folding, Away} \subseteq kept'
    <3>1. CASE kept \cap Wash # {}
      BY <1>1, <2>1, <3>1 DEF Shaped
    <3>2. CASE keys \cap Wash # {}
      BY <1>1, <3>2 DEF Whole
    <3>. QED  BY <1>1, <3>1, <3>2
  <2>4. \A e \in StarterChains : wires'[e] <= 1 /\ (wires'[e] > 0 => {e[1], e[2]} \subseteq kept')
    BY <1>1, <1>2, <2>1 DEF Shaped
  <2>5. <<Run, Line>> \in StarterChains /\ <<Run, Dryer>> \in StarterChains
    BY WashChains
  <2>6. wires'[<<Run, Line>>] + wires'[<<Run, Dryer>>] <= 1
    <3>1. CASE Run \in fresh
      <4>1. kept \cap Wash = {}
        BY <2>1, <3>1 DEF Shaped
      <4>2. ~(Line \in kept \cup fresh /\ Dryer \in kept \cup fresh)
        BY <3>1, <4>1, WashKeys DEF Whole
      <4>3. Run \notin kept /\ Line \notin kept /\ Dryer \notin kept
        BY <4>1, WashKeys
      <4>4. /\ wires[<<Run, Line>>] \in Nat /\ ~(wires[<<Run, Line>>] > 0)
            /\ wires[<<Run, Dryer>>] \in Nat /\ ~(wires[<<Run, Dryer>>] > 0)
        BY <2>1, <2>5, <4>3 DEF LoadsInv, Shaped
      <4>5. wires[<<Run, Line>>] = 0 /\ wires[<<Run, Dryer>>] = 0
        BY <4>4
      <4>6. /\ wires'[<<Run, Line>>] = IF Line \in kept \cup fresh THEN 1 ELSE 0
            /\ wires'[<<Run, Dryer>>] = IF Dryer \in kept \cup fresh THEN 1 ELSE 0
        BY <1>2, <2>5, <3>1, <4>5
      <4>. HIDE DEF fresh
      <4>. QED  BY <4>2, <4>6
    <3>2. CASE Run \notin fresh
      <4>1. wires'[<<Run, Line>>] = wires[<<Run, Line>>] /\ wires'[<<Run, Dryer>>] = wires[<<Run, Dryer>>]
        BY <1>2, <2>5, <3>2
      <4>. QED  BY <2>1, <4>1 DEF Shaped
    <3>. QED  BY <3>1, <3>2
  <2>. QED  BY <2>2, <2>3, <2>4, <2>6 DEF Shaped
<1>. QED  BY <1>1, <1>3, <1>4 DEF LoadsInv

\* The wizard takes the open chores along, and writes the rules of one way to dry.
LEMMA SubmitKeeps ==
    ASSUME LoadsInv, NEW a \in AllAnswers, SubmitOnboarding(a)
    PROVE  LoadsInv'
<1>. DEFINE keys == Seeds(a)
            stay == customized \cap keys
<1>1. /\ kept' = keys /\ customized' = stay /\ loads' = loads
      /\ wires' = RulesOfAll(stay, keys)
      /\ open' = [k \in Wash |-> IF k \in stay THEN open[k] ELSE 0]
      /\ loose' = loose + Folded(0, open, Wash \ stay)
      /\ byHand' = (byHand /\ (loads > 0 \/ stay # {}))
  BY DEF SubmitOnboarding, Folded
<1>. HIDE DEF stay, keys
<1>2. open' \in [Wash -> Nat] /\ \A k \in Wash : open'[k] = IF k \in stay THEN open[k] ELSE 0
  BY <1>1 DEF LoadsInv
<1>3. wires' \in [StarterChains -> Nat]
  BY <1>1 DEF LoadsInv, RulesOfAll
<1>4. ASSUME loads = 0 PROVE loose' = 0 /\ \A k \in Wash : open'[k] = 0
  <2>1. loose = 0 /\ (\A k \in Wash : open[k] = 0)
    BY <1>4 DEF LoadsInv
  <2>2. IsFiniteSet(Wash \ stay)
    BY WashFinite, FS_Subset
  <2>3. 0 \in Int /\ \A k \in Wash \ stay : open[k] = 0
    BY <2>1
  <2>4. Folded(0, open, Wash \ stay) = 0
    BY <2>2, <2>3, FoldOfZeros
  <2>. QED  BY <1>1, <1>2, <2>1, <2>4
<1>5. ASSUME ~byHand' PROVE Shaped'
  <2>1. loose \in Nat /\ stay = {} /\ InAll <= loads
    <3>1. CASE byHand
      <4>0. ~(loads > 0 \/ stay # {})
        BY <1>1, <1>5, <3>1, Zenon
      <4>1. loads = 0 /\ stay = {} /\ loose = 0 /\ \A k \in Wash : open[k] = 0
        BY <4>0 DEF LoadsInv
      <4>2. InAll = 0
        <5>1. open[Run] = 0 /\ open[Dryer] = 0 /\ open[Line] = 0 /\ open[Folding] = 0 /\ open[Away] = 0
          BY <4>1, WashKeys
        <5>. QED  BY <4>1, <5>1 DEF InAll, Together
      <4>. QED  BY <4>1, <4>2
    <3>2. CASE ~byHand
      BY <3>2 DEF LoadsInv, Shaped, stay
    <3>. QED  BY <3>1, <3>2
  <2>2. Wash \ stay = Wash /\ IsFiniteSet(Wash)
    BY <2>1, WashFinite
  <2>3. Folded(0, open, Wash) = Together(0, open, Run, Dryer, Line, Folding, Away)
    <3>1. Wash = {Run, Dryer, Line, Folding, Away} /\ Apart(Run, Dryer, Line, Folding, Away)
      BY WashKeys
    <3>2. open \in [Wash -> Int] /\ 0 \in Int
      BY DEF LoadsInv
    <3>. QED  BY <3>1, <3>2, FoldOfFive
  <2>4. open[Run] \in Nat /\ open[Dryer] \in Nat /\ open[Line] \in Nat /\ open[Folding] \in Nat /\ open[Away] \in Nat
    BY OpenTyped DEF LoadsInv
  <2>5. loose' = loose + open[Run] + open[Dryer] + open[Line] + open[Folding] + open[Away]
    <3>1. Folded(0, open, Wash) = open[Run] + open[Dryer] + open[Line] + open[Folding] + open[Away]
      BY <2>3, <2>4 DEF Together
    <3>2. loose' = loose + Folded(0, open, Wash)
      BY <1>1, <2>2
    <3>. QED  BY <2>1, <2>4, <3>1, <3>2
  <2>6. open'[Run] = 0 /\ open'[Dryer] = 0 /\ open'[Line] = 0 /\ open'[Folding] = 0 /\ open'[Away] = 0
    BY <1>2, <2>1, WashKeys
  <2>7. loose' \in Nat /\ InAll' <= loads'
    <3>1. InAll' = loose'
      BY <2>1, <2>4, <2>5, <2>6 DEF InAll, Together
    <3>2. loose' = InAll
      BY <2>5 DEF InAll, Together
    <3>. QED  BY <1>1, <2>1, <2>4, <2>5, <3>1, <3>2
  <2>8. customized' = {} /\ (kept' \cap Wash # {} => {Run, Folding, Away} \subseteq kept')
    BY <1>1, <2>1, SeedsWhole DEF keys, Whole
  <2>9. \A e \in StarterChains : wires'[e] = IF {e[1], e[2]} \subseteq keys THEN 1 ELSE 0
    BY <1>1, <2>1 DEF RulesOfAll
  <2>10. \A e \in StarterChains : wires'[e] <= 1 /\ (wires'[e] > 0 => {e[1], e[2]} \subseteq kept')
    BY <1>1, <2>9
  <2>11. wires'[<<Run, Line>>] + wires'[<<Run, Dryer>>] <= 1
    <3>1. ~({Line, Dryer} \subseteq keys)
      BY SeedsWhole, WashKeys DEF keys, Whole
    <3>2. /\ wires'[<<Run, Line>>] = IF {Run, Line} \subseteq keys THEN 1 ELSE 0
          /\ wires'[<<Run, Dryer>>] = IF {Run, Dryer} \subseteq keys THEN 1 ELSE 0
      BY <2>9, WashChains
    <3>. QED  BY <3>1, <3>2
  <2>. QED  BY <2>7, <2>8, <2>10, <2>11 DEF Shaped
<1>. QED  BY <1>1, <1>2, <1>3, <1>4, <1>5 DEF LoadsInv

\* What is begun and finished: a chore makes way for no more chores than one.
LEMMA LoadKeeps == ASSUME LoadsInv, BeginLoad PROVE LoadsInv'
<1>1. /\ loads' = loads + 1 /\ open' = [open EXCEPT ![Run] = open[Run] + 1]
      /\ UNCHANGED <<customized, kept, wires, loose, byHand>>
  BY DEF BeginLoad, Run
<1>2. /\ Run \in Wash /\ Dryer \in Wash /\ Line \in Wash /\ Folding \in Wash /\ Away \in Wash
      /\ Apart(Run, Dryer, Line, Folding, Away)
  BY WashKeys
<1>3. /\ open[Run] \in Nat /\ open[Dryer] \in Nat /\ open[Line] \in Nat /\ open[Folding] \in Nat /\ open[Away] \in Nat
      /\ loads \in Nat /\ open \in [Wash -> Nat]
  BY OpenTyped DEF LoadsInv
<1>4. /\ open' \in [Wash -> Nat] /\ open'[Run] = open[Run] + 1 /\ open'[Dryer] = open[Dryer]
      /\ open'[Line] = open[Line] /\ open'[Folding] = open[Folding] /\ open'[Away] = open[Away]
  BY <1>1, <1>2, <1>3 DEF Apart
<1>5. ASSUME ~byHand PROVE Shaped'
  <2>1. Shaped
    BY <1>1, <1>5 DEF LoadsInv
  <2>2. loose \in Nat /\ InAll <= loads
    BY <2>1 DEF Shaped
  <2>3. InAll' <= loads'
    BY <1>1, <1>3, <1>4, <2>2 DEF InAll, Together
  <2>. QED  BY <1>1, <2>1, <2>3 DEF Shaped
<1>. QED  BY <1>1, <1>3, <1>4, <1>5 DEF LoadsInv

LEMMA CompleteKeeps == ASSUME LoadsInv, NEW k \in Wash, CompleteChore(k) PROVE LoadsInv'
<1>1. /\ open[k] > 0 /\ UNCHANGED <<customized, kept, wires, loose, loads, byHand>>
      /\ open' = [t \in Wash |->
                     (IF t = k THEN open[t] - 1 ELSE open[t])
                     + (IF t \in Starter[k].next THEN wires[<<k, t>>] ELSE 0)]
  BY DEF CompleteChore
<1>2. ASSUME NEW t \in Wash, t \in Starter[k].next PROVE <<k, t>> \in StarterChains
  BY <1>2, WashKeys DEF StarterChains
<1>3. open \in [Wash -> Nat] /\ wires \in [StarterChains -> Nat] /\ loads \in Nat /\ loads # 0
  BY <1>1 DEF LoadsInv
<1>4. ASSUME NEW t \in Wash
      PROVE  /\ (IF t = k THEN open[t] - 1 ELSE open[t]) \in Nat
             /\ (IF t \in Starter[k].next THEN wires[<<k, t>>] ELSE 0) \in Nat
  BY <1>1, <1>2, <1>3
<1>5. open' \in [Wash -> Nat]
  BY <1>1, <1>4
<1>6. ASSUME NEW t \in Wash
      PROVE  open'[t] = (IF t = k THEN open[t] - 1 ELSE open[t])
                        + (IF t \in Starter[k].next THEN wires[<<k, t>>] ELSE 0)
  BY <1>1
<1>7. ASSUME ~byHand PROVE Shaped'
  <2>1. Shaped
    BY <1>1, <1>7 DEF LoadsInv
  <2>2. loose \in Nat /\ InAll <= loads
    BY <2>1 DEF Shaped
  <2>3. /\ Run \in Wash /\ Dryer \in Wash /\ Line \in Wash /\ Folding \in Wash /\ Away \in Wash
        /\ Apart(Run, Dryer, Line, Folding, Away)
    BY WashKeys
  <2>4. /\ open[Run] \in Nat /\ open[Dryer] \in Nat /\ open[Line] \in Nat /\ open[Folding] \in Nat
        /\ open[Away] \in Nat
    BY <1>3, OpenTyped
  <2>5. \A e \in {<<Run, Line>>, <<Run, Dryer>>, <<Dryer, Folding>>, <<Line, Folding>>, <<Folding, Away>>} :
            wires[e] \in Nat /\ wires[e] <= 1
    BY <1>3, <2>1, WashChains DEF Shaped
  <2>6. InAll' <= InAll
    <3>1. CASE k = Run
      <4>1. /\ open'[Run] = open[Run] - 1 /\ open'[Dryer] = open[Dryer] + wires[<<Run, Dryer>>]
            /\ open'[Line] = open[Line] + wires[<<Run, Line>>]
            /\ open'[Folding] = open[Folding] /\ open'[Away] = open[Away]
        BY <1>6, <2>3, <2>4, <3>1, WashKeys DEF Apart
      <4>2. /\ wires[<<Run, Line>>] + wires[<<Run, Dryer>>] <= 1
            /\ wires[<<Run, Line>>] \in Nat /\ wires[<<Run, Dryer>>] \in Nat
        BY <2>1, <2>5 DEF Shaped
      <4>. QED  BY <1>1, <2>2, <2>4, <4>1, <4>2 DEF InAll, Together
    <3>2. CASE k = Dryer
      <4>1. /\ open'[Dryer] = open[Dryer] - 1 /\ open'[Folding] = open[Folding] + wires[<<Dryer, Folding>>]
            /\ open'[Run] = open[Run] /\ open'[Line] = open[Line] /\ open'[Away] = open[Away]
        BY <1>6, <2>3, <2>4, <3>2, WashKeys DEF Apart
      <4>2. wires[<<Dryer, Folding>>] \in Nat /\ wires[<<Dryer, Folding>>] <= 1
        BY <2>5
      <4>. QED  BY <1>1, <2>2, <2>4, <4>1, <4>2 DEF InAll, Together
    <3>3. CASE k = Line
      <4>1. /\ open'[Line] = open[Line] - 1 /\ open'[Folding] = open[Folding] + wires[<<Line, Folding>>]
            /\ open'[Run] = open[Run] /\ open'[Dryer] = open[Dryer] /\ open'[Away] = open[Away]
        BY <1>6, <2>3, <2>4, <3>3, WashKeys DEF Apart
      <4>2. wires[<<Line, Folding>>] \in Nat /\ wires[<<Line, Folding>>] <= 1
        BY <2>5
      <4>. QED  BY <1>1, <2>2, <2>4, <4>1, <4>2 DEF InAll, Together
    <3>4. CASE k = Folding
      <4>1. /\ open'[Folding] = open[Folding] - 1 /\ open'[Away] = open[Away] + wires[<<Folding, Away>>]
            /\ open'[Run] = open[Run] /\ open'[Dryer] = open[Dryer] /\ open'[Line] = open[Line]
        BY <1>6, <2>3, <2>4, <3>4, WashKeys DEF Apart
      <4>2. wires[<<Folding, Away>>] \in Nat /\ wires[<<Folding, Away>>] <= 1
        BY <2>5
      <4>. QED  BY <1>1, <2>2, <2>4, <4>1, <4>2 DEF InAll, Together
    <3>5. CASE k = Away
      <4>1. /\ open'[Away] = open[Away] - 1 /\ open'[Folding] = open[Folding]
            /\ open'[Run] = open[Run] /\ open'[Dryer] = open[Dryer] /\ open'[Line] = open[Line]
        BY <1>6, <2>3, <2>4, <3>5, WashKeys DEF Apart
      <4>. QED  BY <1>1, <2>2, <2>4, <4>1 DEF InAll, Together
    <3>. QED  BY <3>1, <3>2, <3>3, <3>4, <3>5, WashKeys
  <2>7. InAll \in Nat /\ InAll' \in Nat
    <3>1. /\ open'[Run] \in Nat /\ open'[Dryer] \in Nat /\ open'[Line] \in Nat
          /\ open'[Folding] \in Nat /\ open'[Away] \in Nat
      BY <1>5, <2>3
    <3>. QED  BY <1>1, <2>2, <2>4, <3>1 DEF InAll, Together
  <2>8. InAll' <= loads'
    BY <1>1, <1>3, <2>2, <2>6, <2>7
  <2>. QED  BY <1>1, <2>1, <2>8 DEF Shaped
<1>. QED  BY <1>1, <1>3, <1>5, <1>7 DEF LoadsInv

LEMMA LooseKeeps == ASSUME LoadsInv, CompleteLoose PROVE LoadsInv'
<1>1. loose > 0 /\ loose' = loose - 1 /\ UNCHANGED <<open, customized, kept, wires, loads, byHand>>
  BY DEF CompleteLoose
<1>2. loads # 0
  BY <1>1 DEF LoadsInv
<1>3. ASSUME ~byHand PROVE Shaped'
  <2>1. Shaped
    BY <1>1, <1>3 DEF LoadsInv
  <2>2. loose \in Nat /\ InAll <= loads /\ loads \in Nat
    BY <2>1 DEF Shaped, LoadsInv
  <2>3. /\ open[Run] \in Nat /\ open[Dryer] \in Nat /\ open[Line] \in Nat /\ open[Folding] \in Nat
        /\ open[Away] \in Nat
    BY OpenTyped DEF LoadsInv
  <2>4. loose' \in Nat /\ InAll' <= loads'
    BY <1>1, <2>2, <2>3 DEF InAll, Together
  <2>. QED  BY <1>1, <2>1, <2>4 DEF Shaped
<1>. QED  BY <1>1, <1>2, <1>3 DEF LoadsInv

\* What members change by hand.
LEMMA HandKeeps ==
    ASSUME LoadsInv, NEW k \in Wash, (\E T \in SUBSET Starter[k].next : Customize(k, T)) \/ DeleteStarter(k)
    PROVE  LoadsInv'
<1>1. byHand' /\ UNCHANGED <<open, loose, loads>>
  BY DEF Customize, DeleteStarter
<1>2. wires' \in [StarterChains -> Nat]
  BY DEF Customize, DeleteStarter, LoadsInv
<1>. QED  BY <1>1, <1>2 DEF LoadsInv

LEMMA LoadsStep == ASSUME ReadInv, LoadsInv, NEW S, [StartersNext(S)]_starters PROVE LoadsInv'
<1>1. CASE UNCHANGED <<open, wires, loads, loose, kept, customized, byHand>>
  BY <1>1 DEF LoadsInv, Shaped, InAll, Together
<1>2. ASSUME NEW a \in AllAnswers, SubmitOnboarding(a) PROVE LoadsInv'
  BY <1>2, SubmitKeeps
<1>3. ASSUME NEW c \in Sessions, SyncCatalog(c) \/ AcceptProfileSuggestion(c) PROVE LoadsInv'
  <2>1. Whole(session[c].keys)
    BY <1>3 DEF ReadInv, ReadWhole, Known, SyncCatalog, AcceptProfileSuggestion
  <2>. QED  BY <1>3, <2>1, SyncKeeps DEF SyncCatalog, AcceptProfileSuggestion
<1>4. ASSUME NEW c \in Sessions,
             \/ SyncAnswers(c) \/ (\E a \in Profiles : ProfileRead(c, a)) \/ SaveHouseholdProfile(c)
             \/ \E keys, accepted : SuggestionRead(c, keys, accepted)
             \/ UpdateProfileSuggestions(c)
      PROVE  LoadsInv'
  BY <1>1, <1>4 DEF SyncAnswers, ProfileRead, SaveHouseholdProfile, SuggestionRead, UpdateProfileSuggestions, TheLaundry
<1>5. CASE \E a \in Profiles \cup {HalfAnswered} : SaveDraft(a)
  BY <1>1, <1>5 DEF SaveDraft
<1>6. CASE UNCHANGED starters
  BY <1>1, <1>6 DEF starters
<1>7. CASE \E k \in Wash : (\E T \in SUBSET Starter[k].next : Customize(k, T)) \/ DeleteStarter(k)
  BY <1>7, HandKeeps
<1>8. CASE BeginLoad \/ (\E k \in Wash : CompleteChore(k)) \/ CompleteLoose
  BY <1>8, LoadKeeps, CompleteKeeps, LooseKeeps
<1>. QED  BY <1>2, <1>3, <1>4, <1>5, <1>6, <1>7, <1>8, StartersAssumption DEF StartersNext

LEMMA LoadsBegin == ServerInit => ReadInv /\ LoadsInv
<1>1. SUFFICES ASSUME ServerInit PROVE ReadInv /\ LoadsInv
  OBVIOUS
<1>2. StartersInit
  BY <1>1 DEF ServerInit
<1>3. ReadInv
  BY <1>2 DEF StartersInit, ReadInv, NoSuggestions, SuggestsWhole, ReadWhole, Unopened
<1>4. LoadsInv
  BY <1>2 DEF StartersInit, LoadsInv, NoChores
<1>. QED  BY <1>3, <1>4

LEMMA LoadsKept == ServerSpec => [](ReadInv /\ LoadsInv)
<1>1. (ReadInv /\ LoadsInv) /\ [ServerNext]_<<vars, parts>> => (ReadInv /\ LoadsInv)'
  BY PartsMove, SuggestionReadStep, LoadsStep
<1>. QED  BY <1>1, LoadsBegin, PTL DEF ServerSpec

\* As long as a household only answers questions, by the wizard, by its profile and by
\* accepting what that suggests, and synchronises, in any order and from two sessions at
\* once, the chores of a load never become more than the loads that were begun.
THEOREM LaundryStaysTogether == ServerSpec => []OneLoadAtATime
<1>1. LoadsInv => OneLoadAtATime
  <2>1. SUFFICES ASSUME LoadsInv, ~byHand PROVE FoldFunction(+, loose, open) <= loads
    BY DEF OneLoadAtATime
  <2>2. loose \in Nat /\ InAll <= loads /\ open \in [Wash -> Nat]
    BY <2>1 DEF LoadsInv, Shaped
  <2>3. FoldFunction(+, loose, open) = InAll
    BY <2>2, OpenChores DEF InAll, Together
  <2>. QED  BY <2>2, <2>3
<1>. QED  BY <1>1, LoadsKept, PTL

\* What is kept, customised or has chores is of the catalogue, and rules lead between what
\* is kept.
KeptInv ==
    /\ customized \subseteq kept /\ kept \subseteq DOMAIN Starter /\ used \subseteq kept
    /\ \A e \in StarterChains : wires[e] > 0 => {e[1], e[2]} \subseteq kept

LEMMA ShapeKeeps ==
    ASSUME KeptInv, NEW k \in Wash, (\E T \in SUBSET Starter[k].next : Customize(k, T)) \/ DeleteStarter(k)
    PROVE  KeptInv'
<1>1. CASE DeleteStarter(k)
  BY <1>1 DEF DeleteStarter, KeptInv
<1>2. ASSUME NEW T \in SUBSET Starter[k].next, Customize(k, T) PROVE KeptInv'
  <2>1. \A e \in StarterChains : wires'[e] = IF e[1] # k THEN wires[e] ELSE IF e[2] \in T THEN 1 ELSE 0
    BY <1>2 DEF Customize
  <2>2. /\ k \in kept /\ T \subseteq kept /\ kept' = kept /\ customized' = customized \cup {k} /\ used' = used
    BY <1>2 DEF Customize
  <2>3. ASSUME NEW e \in StarterChains, wires'[e] > 0 PROVE e[1] \in kept /\ e[2] \in kept
    <3>1. CASE e[1] # k
      BY <2>1, <2>3, <3>1 DEF KeptInv
    <3>2. CASE e[1] = k /\ e[2] \in T
      BY <2>2, <3>2
    <3>3. CASE e[1] = k /\ e[2] \notin T
      BY <2>1, <2>3, <3>3
    <3>. QED  BY <3>1, <3>2, <3>3
  <2>. QED  BY <2>2, <2>3 DEF KeptInv
<1>. QED  BY <1>1, <1>2

LEMMA KeptStep == ASSUME ReadInv, LoadsInv, KeptInv, NEW S, [StartersNext(S)]_starters PROVE KeptInv'
<1>1. CASE UNCHANGED <<kept, customized, wires, used>>
  BY <1>1 DEF KeptInv
<1>2. ASSUME NEW a \in AllAnswers, SubmitOnboarding(a) PROVE KeptInv'
  <2>1. PICK stay : stay = customized \cap Seeds(a)
    OBVIOUS
  <2>2. kept' = Seeds(a) /\ customized' = stay /\ used' = used \cap stay /\ wires' = RulesOfAll(stay, Seeds(a))
    BY <1>2, <2>1 DEF SubmitOnboarding
  <2>3. ASSUME NEW e \in StarterChains, wires'[e] > 0 PROVE {e[1], e[2]} \subseteq Seeds(a)
    BY <2>2, <2>3 DEF RulesOfAll
  <2>. QED  BY <2>1, <2>2, <2>3, SeedsKnown DEF KeptInv
<1>3. ASSUME NEW c \in Sessions, SyncCatalog(c) \/ AcceptProfileSuggestion(c) PROVE KeptInv'
  <2>1. PICK fresh : fresh = session[c].keys \ kept
    OBVIOUS
  <2>2. fresh \subseteq DOMAIN Starter
    BY <1>3, <2>1 DEF ReadInv, ReadWhole, Known, SyncCatalog, AcceptProfileSuggestion
  <2>3. SyncCatalogTemplates(session[c].keys) /\ used' = used
    BY <1>3 DEF SyncCatalog, AcceptProfileSuggestion, TheLaundry
  <2>4. /\ kept' = kept \cup fresh /\ customized' = customized
        /\ \A e \in StarterChains : wires'[e] = IF e[1] \in fresh /\ e[2] \in kept \cup fresh THEN 1 ELSE wires[e]
    BY <2>1, <2>3 DEF SyncCatalogTemplates, WireMade
  <2>. QED  BY <2>2, <2>3, <2>4 DEF KeptInv
<1>4. ASSUME NEW c \in Sessions,
             \/ SyncAnswers(c) \/ (\E a \in Profiles : ProfileRead(c, a)) \/ SaveHouseholdProfile(c)
             \/ \E keys, accepted : SuggestionRead(c, keys, accepted)
             \/ UpdateProfileSuggestions(c)
      PROVE  KeptInv'
  BY <1>1, <1>4 DEF SyncAnswers, ProfileRead, SaveHouseholdProfile, SuggestionRead, UpdateProfileSuggestions, TheLaundry
<1>5. CASE \E a \in Profiles \cup {HalfAnswered} : SaveDraft(a)
  BY <1>1, <1>5 DEF SaveDraft
<1>6. CASE UNCHANGED starters
  BY <1>1, <1>6 DEF starters
<1>7. CASE \E k \in Wash : (\E T \in SUBSET Starter[k].next : Customize(k, T)) \/ DeleteStarter(k)
  BY <1>7, ShapeKeeps
<1>8. CASE BeginLoad
  BY <1>8 DEF BeginLoad, KeptInv
<1>9. ASSUME NEW k \in Wash, CompleteChore(k) PROVE KeptInv'
  <2>1. k \in DOMAIN Starter /\ UNCHANGED <<kept, customized, wires>>
    BY <1>9, WashKeys DEF CompleteChore
  <2>2. used' = used \cup {t \in Starter[k].next : wires[<<k, t>>] > 0}
    BY <1>9 DEF CompleteChore
  <2>3. ASSUME NEW t \in Starter[k].next, wires[<<k, t>>] > 0 PROVE t \in kept
    <3>1. t \in DOMAIN Starter
      BY <2>3, WashKeys
    <3>2. <<k, t>> \in StarterChains /\ <<k, t>>[2] = t
      BY <2>1, <3>1 DEF StarterChains
    <3>. QED  BY <2>3, <3>2 DEF KeptInv
  <2>. QED  BY <2>1, <2>2, <2>3 DEF KeptInv
<1>10. CASE CompleteLoose
  BY <1>1, <1>10 DEF CompleteLoose
<1>. QED  BY <1>2, <1>3, <1>4, <1>5, <1>6, <1>7, <1>8, <1>9, <1>10, StartersAssumption DEF StartersNext

LEMMA StartersTyped == ServerSpec => []StartersTypeOK
<1>1. ServerInit => KeptInv
  <2>1. StartersInit => KeptInv
    BY DEF StartersInit, KeptInv, StarterChains
  <2>. QED  BY <2>1 DEF ServerInit
<1>2. ReadInv /\ LoadsInv /\ KeptInv /\ [ServerNext]_<<vars, parts>> => KeptInv'
  BY PartsMove, KeptStep
<1>3. ReadInv /\ KeptInv => StartersTypeOK
  BY DEF ReadInv, KeptInv, StartersTypeOK
<1>. QED  BY <1>1, <1>2, <1>3, LoadsKept, PTL DEF ServerSpec

-----------------------------------------------------------------------------
\* The terms of the rewards.

\* A reward and a redemption.
RewardRows == [status : {"on", "off"}, terms : TermRows]
WishRows ==
    [status : {"asked", "counted", "rested", "pending", "approved"}, kid : Kids, key : Offered,
     terms : TermRows, day : Nat, resolved : Nat, before : SUBSET Wishes]

\* What was granted before a child asked is granted still, and was less than the limit
\* when that had been looked at, and long enough ago when that had.
WellAsked(x) ==
    /\ x.before \subseteq Granted(x.kid, x.key)
    /\ x.status # "asked" /\ x.terms.limit # 0 => Cardinality(x.before) < x.terms.limit
    /\ x.status \notin {"asked", "counted"} =>
           \A v \in x.before : x.day - wish[v].resolved >= x.terms.cooldown
PrizesInv ==
    /\ shelf \in [Offered -> RewardRows \cup {NoReward}]
    /\ wish \in [Wishes -> WishRows \cup {NoWish, Moot}]
    /\ date \in Nat
    /\ \A w \in Wishes : wish[w] \in WishRows =>
           WellAsked(wish[w]) /\ wish[w].resolved <= date

LEMMA CatalogTerms == ASSUME NEW k \in DOMAIN StarterRewards PROVE StarterRewards[k] \in TermRows
<1>1. NoTerms \in TermRows /\ \A l, d \in Nat : Terms(l, d) \in TermRows /\ RestFor(d) \in TermRows
  BY DEF NoTerms, Terms, RestFor, TermRows
<1>2. \A j \in DOMAIN TimeTreatAndActivity : TimeTreatAndActivity[j] \in TermRows
  BY <1>1 DEF TimeTreatAndActivity
<1>3. \A j \in DOMAIN PrivilegeAndAllowance : PrivilegeAndAllowance[j] \in TermRows
  BY <1>1 DEF PrivilegeAndAllowance
<1>4. \A j \in DOMAIN Permissions : Permissions[j] \in TermRows
  BY <1>1 DEF Permissions
<1>5. \A j \in DOMAIN OutingsAndParents : OutingsAndParents[j] \in TermRows
  BY <1>1 DEF OutingsAndParents
<1>. QED  BY <1>2, <1>3, <1>4, <1>5 DEF StarterRewards, ++

LEMMA WishForms ==
    /\ \A x \in WishRows : x # NoWish /\ x # Moot /\ x.status # "none" /\ x.status # "over"
    /\ NoWish.status = "none" /\ Moot.status = "over" /\ NoReward.status = "none"
<1>1. NoWish.status = "none" /\ Moot.status = "over" /\ NoReward.status = "none"
  BY DEF NoWish, Moot, NoReward
<1>2. \A x \in WishRows : x.status # "none" /\ x.status # "over"
  BY DEF WishRows
<1>. QED  BY <1>1, <1>2

LEMMA LastIsLast ==
    ASSUME PrizesInv, NEW S, S \subseteq {v \in Wishes : wish[v].status = "approved"}, S # {}
    PROVE  LastApproved(S) \in S /\ \A v \in S : wish[v].resolved <= wish[LastApproved(S)].resolved
<1>1. \A v \in S : v \in Wishes /\ wish[v] \in WishRows /\ wish[v].resolved \in Nat /\ wish[v].resolved <= date
  BY WishForms DEF PrizesInv, WishRows
<1>2. PICK D : D = {date - wish[v].resolved : v \in S}
  OBVIOUS
<1>3. D \subseteq Nat /\ D # {}
  BY <1>1, <1>2 DEF PrizesInv
<1>4. PICK n \in D : \A m \in D : n <= m
  BY <1>3, Smallest
<1>5. PICK w \in S : n = date - wish[w].resolved
  BY <1>2, <1>4
<1>6. \A v \in S : wish[v].resolved <= wish[w].resolved
  BY <1>1, <1>2, <1>4, <1>5 DEF PrizesInv
<1>. QED  BY <1>5, <1>6 DEF LastApproved

\* One redemption changes that is not approved yet.
LEMMA OneWish ==
    ASSUME PrizesInv, NEW w \in Wishes, wish[w].status # "approved",
           NEW y \in WishRows \cup {Moot}, wish' = [wish EXCEPT ![w] = y], UNCHANGED <<shelf, date>>,
           y \in WishRows => WellAsked(y) /\ y.resolved <= date
    PROVE  PrizesInv'
<1>1. /\ shelf' \in [Offered -> RewardRows \cup {NoReward}] /\ date' \in Nat
      /\ wish' \in [Wishes -> WishRows \cup {NoWish, Moot}]
      /\ wish'[w] = y /\ \A v \in Wishes \ {w} : wish'[v] = wish[v]
  BY DEF PrizesInv
<1>2. \A v \in Wishes : wish[v].status = "approved" => v # w /\ wish'[v] = wish[v]
  BY <1>1
<1>3. ASSUME NEW kid, NEW key PROVE Granted(kid, key) \subseteq Granted(kid, key)'
  BY <1>2 DEF Granted
<1>4. ASSUME NEW x \in WishRows, WellAsked(x) PROVE WellAsked(x)'
  <2>1. \A v \in x.before : v \in Wishes /\ wish'[v] = wish[v]
    BY <1>2, <1>4 DEF WellAsked, Granted
  <2>2. x.before \subseteq Granted(x.kid, x.key)'
    BY <1>3, <1>4 DEF WellAsked
  <2>. QED  BY <1>4, <2>1, <2>2 DEF WellAsked
<1>5. ASSUME NEW v \in Wishes, NEW x, x = wish'[v], x \in WishRows PROVE WellAsked(x)' /\ x.resolved <= date'
  BY <1>1, <1>4, <1>5 DEF PrizesInv
<1>6. \A v \in Wishes : wish'[v] \in WishRows => WellAsked(wish[v])' /\ wish'[v].resolved <= date'
  BY <1>5 DEF WellAsked
<1>. QED  BY <1>1, <1>6 DEF PrizesInv

LEMMA RowOf ==
    ASSUME PrizesInv, NEW w \in Wishes, wish[w].status \notin {"none", "over"}
    PROVE  wish[w] \in WishRows /\ WellAsked(wish[w])
BY WishForms DEF PrizesInv

LEMMA AskKeeps ==
    ASSUME PrizesInv, NEW w \in Wishes, NEW kid \in Kids, NEW k \in Offered, AskFor(w, kid, k)
    PROVE  PrizesInv'
<1>1. shelf[k] \in RewardRows
  BY WishForms DEF AskFor, PrizesInv
<1>2. PICK y : y = [status |-> "asked", kid |-> kid, key |-> k, terms |-> shelf[k].terms,
                    day |-> 0, resolved |-> 0, before |-> Granted(kid, k)]
  OBVIOUS
<1>3. Granted(kid, k) \in SUBSET Wishes /\ shelf[k].terms \in TermRows
  BY <1>1 DEF Granted, RewardRows
<1>4. y \in WishRows /\ y.resolved <= date
  BY <1>2, <1>3 DEF WishRows, PrizesInv
<1>5. WellAsked(y)
  BY <1>2 DEF WellAsked
<1>6. wish[w].status # "approved"
  BY WishForms DEF AskFor
<1>. QED  BY <1>2, <1>4, <1>5, <1>6, OneWish DEF AskFor

LEMMA CountsKeeps == ASSUME PrizesInv, NEW w \in Wishes, CountGranted(w) PROVE PrizesInv'
<1>1. PICK x \in WishRows : x = wish[w] /\ WellAsked(x) /\ x.status = "asked" /\ x.resolved <= date
  BY RowOf DEF CountGranted, PrizesInv
<1>2. PICK y : y = [x EXCEPT !.status = "counted", !.day = 0]
  OBVIOUS
<1>8. /\ y \in WishRows /\ y.status = "counted" /\ y.day = 0 /\ y.resolved = x.resolved
       /\ y.kid = x.kid /\ y.key = x.key /\ y.terms = x.terms /\ y.before = x.before
  <2>1. PICK z : z = [x EXCEPT !.status = "counted"]
    OBVIOUS
  <2>2. /\ z \in WishRows /\ z.status = "counted" /\ z.day = x.day /\ z.resolved = x.resolved
        /\ z.kid = x.kid /\ z.key = x.key /\ z.terms = x.terms /\ z.before = x.before
    BY <2>1 DEF WishRows
  <2>3. y = [z EXCEPT !.day = 0]
    BY <1>2, <2>1
  <2>. QED  BY <2>2, <2>3 DEF WishRows
<1>3. wish' = [wish EXCEPT ![w] = y] /\ UNCHANGED <<shelf, date>>
  BY <1>1, <1>2 DEF CountGranted, AsksOn, PrizesInv
<1>4. x.terms.limit # 0 => Cardinality(x.before) < x.terms.limit
  <2>1. IsFiniteSet(Wishes)
    BY PrizesAssumption, FS_Interval DEF Wishes
  <2>2. PICK G : G = Granted(x.kid, x.key)
    OBVIOUS
  <2>3. IsFiniteSet(G) /\ x.before \subseteq G
    BY <1>1, <2>1, <2>2, FS_Subset DEF Granted, WellAsked
  <2>4. /\ Cardinality(x.before) <= Cardinality(G)
        /\ Cardinality(G) \in Nat /\ Cardinality(x.before) \in Nat
    BY <2>3, FS_Subset, FS_CardinalityType
  <2>5. x.terms.limit \in Nat
    BY DEF WishRows, TermRows
  <2>. QED  BY <1>1, <2>2, <2>4, <2>5 DEF CountGranted
<1>5. WellAsked(y)
  BY <1>1, <1>2, <1>4, <1>8 DEF WellAsked
<1>. QED  BY <1>1, <1>2, <1>3, <1>5, <1>8, OneWish

LEMMA CooldownKeeps == ASSUME PrizesInv, NEW w \in Wishes, CheckCooldown(w) PROVE PrizesInv'
<1>1. PICK x \in WishRows : x = wish[w] /\ WellAsked(x) /\ x.status = "counted" /\ x.resolved <= date
  BY RowOf DEF CheckCooldown, PrizesInv
<1>2. date \in Nat
  BY DEF PrizesInv
<1>3. PICK y : y = [x EXCEPT !.status = "rested", !.day = date]
  OBVIOUS
<1>8. /\ y \in WishRows /\ y.status = "rested" /\ y.day = date /\ y.resolved = x.resolved
       /\ y.kid = x.kid /\ y.key = x.key /\ y.terms = x.terms /\ y.before = x.before
  <2>1. PICK z : z = [x EXCEPT !.status = "rested"]
    OBVIOUS
  <2>2. /\ z \in WishRows /\ z.status = "rested" /\ z.day = x.day /\ z.resolved = x.resolved
        /\ z.kid = x.kid /\ z.key = x.key /\ z.terms = x.terms /\ z.before = x.before
    BY <2>1 DEF WishRows
  <2>3. y = [z EXCEPT !.day = date]
    BY <1>3, <2>1
  <2>. QED  BY <1>2, <2>2, <2>3 DEF WishRows
<1>4. wish' = [wish EXCEPT ![w] = y] /\ UNCHANGED <<shelf, date>>
  BY <1>1, <1>3 DEF CheckCooldown, AsksOn, PrizesInv
<1>5. ASSUME NEW v \in x.before PROVE date - wish[v].resolved >= x.terms.cooldown
  <2>1. PICK G : G = Granted(x.kid, x.key)
    OBVIOUS
  <2>2. v \in G /\ G \subseteq {u \in Wishes : wish[u].status = "approved"}
    BY <1>1, <1>5, <2>1 DEF WellAsked, Granted
  <2>3. PICK u : u = LastApproved(G) /\ u \in G /\ wish[v].resolved <= wish[u].resolved
    BY <2>2, LastIsLast
  <2>4. /\ wish[v].resolved \in Nat /\ wish[u].resolved \in Nat
        /\ wish[v].resolved <= date /\ wish[u].resolved <= date
    BY <2>2, <2>3, WishForms DEF PrizesInv, WishRows
  <2>5. x.terms.cooldown \in Nat
    BY DEF WishRows, TermRows
  <2>6. x.terms.cooldown # 0 => date - wish[u].resolved >= x.terms.cooldown
    BY <1>1, <2>1, <2>2, <2>3 DEF CheckCooldown
  <2>. QED  BY <1>2, <2>3, <2>4, <2>5, <2>6
<1>6. WellAsked(y)
  BY <1>1, <1>3, <1>5, <1>8 DEF WellAsked
<1>. QED  BY <1>1, <1>3, <1>4, <1>6, <1>8, OneWish

LEMMA TurnedKeeps ==
    ASSUME PrizesInv, NEW w \in Wishes, TurnDown(w) \/ \E ok \in BOOLEAN : ResolveRedemption(w, ok), wish'[w] = Moot
    PROVE  PrizesInv'
<1>1. wish[w].status # "approved" /\ wish' = [wish EXCEPT ![w] = Moot] /\ UNCHANGED <<shelf, date>>
  BY DEF TurnDown, ResolveRedemption, Settles, PrizesInv
<1>2. Moot \notin WishRows
  BY WishForms
<1>. QED  BY <1>1, <1>2, OneWish

LEMMA SettlesKeeps ==
    ASSUME PrizesInv, NEW w \in Wishes, wish[w].status \in {"rested", "pending"},
           NEW s \in {"pending", "approved"}, Settles(w, s)
    PROVE  PrizesInv'
<1>1. PICK x \in WishRows : x = wish[w] /\ WellAsked(x) /\ x.status \in {"rested", "pending"}
  BY RowOf DEF PrizesInv
<1>2. date \in Nat
  BY DEF PrizesInv
<1>3. PICK y : y = [x EXCEPT !.status = s, !.resolved = date]
  OBVIOUS
<1>8. /\ y \in WishRows /\ y.status = s /\ y.day = x.day /\ y.resolved = date
       /\ y.kid = x.kid /\ y.key = x.key /\ y.terms = x.terms /\ y.before = x.before
  <2>1. PICK z : z = [x EXCEPT !.status = s]
    OBVIOUS
  <2>2. /\ z \in WishRows /\ z.status = s /\ z.day = x.day /\ z.resolved = x.resolved
        /\ z.kid = x.kid /\ z.key = x.key /\ z.terms = x.terms /\ z.before = x.before
    BY <2>1 DEF WishRows
  <2>3. y = [z EXCEPT !.resolved = date]
    BY <1>3, <2>1
  <2>. QED  BY <1>2, <2>2, <2>3 DEF WishRows
<1>4. wish' = [wish EXCEPT ![w] = y] /\ UNCHANGED <<shelf, date>>
  BY <1>1, <1>3 DEF Settles, PrizesInv
<1>5. WellAsked(y) /\ y.resolved <= date
  BY <1>1, <1>2, <1>8 DEF WellAsked
<1>. QED  BY <1>1, <1>3, <1>4, <1>5, <1>8, OneWish

\* A reward goes, and all its redemptions with it.
LEMMA DropKeeps == ASSUME PrizesInv, NEW k \in Offered, DropReward(k) PROVE PrizesInv'
<1>1. shelf' \in [Offered -> RewardRows \cup {NoReward}] /\ date' = date /\ date \in Nat
  BY DEF DropReward, PrizesInv
<1>2. \A w \in Wishes : wish'[w] = Moot \/ (wish'[w] = wish[w] /\ (wish[w] \in WishRows => wish[w].key # k))
  BY WishForms DEF DropReward
<1>3. wish' \in [Wishes -> WishRows \cup {NoWish, Moot}]
  BY WishForms DEF DropReward, PrizesInv
<1>4. ASSUME NEW w \in Wishes, wish[w] \in WishRows, wish[w].key # k PROVE wish'[w] = wish[w]
  BY <1>4 DEF DropReward
<1>5. ASSUME NEW kid, NEW key, key # k PROVE Granted(kid, key) \subseteq Granted(kid, key)'
  BY <1>4, <1>5, WishForms DEF Granted, PrizesInv
<1>6. ASSUME NEW x \in WishRows, x.key # k, WellAsked(x) PROVE WellAsked(x)'
  <2>1. x.before \subseteq Granted(x.kid, x.key)'
    BY <1>5, <1>6 DEF WellAsked
  <2>2. \A v \in x.before : wish'[v] = wish[v]
    BY <1>4, <1>6, WishForms DEF WellAsked, Granted, PrizesInv
  <2>. QED  BY <1>6, <2>1, <2>2 DEF WellAsked
<1>7. ASSUME NEW w \in Wishes, NEW x, x = wish'[w], x \in WishRows PROVE WellAsked(x)' /\ x.resolved <= date'
  BY <1>1, <1>2, <1>6, <1>7, WishForms DEF PrizesInv
<1>8. \A w \in Wishes : wish'[w] \in WishRows => WellAsked(wish[w])' /\ wish'[w].resolved <= date'
  BY <1>7 DEF WellAsked
<1>. QED  BY <1>1, <1>3, <1>8 DEF PrizesInv

\* Nothing happens to the redemptions, but days may pass.
LEMMA WishesStay ==
    ASSUME PrizesInv, UNCHANGED wish, shelf' \in [Offered -> RewardRows \cup {NoReward}],
           date' \in Nat, date' >= date
    PROVE  PrizesInv'
<1>1. ASSUME NEW x, WellAsked(x) PROVE WellAsked(x)'
  BY <1>1 DEF WellAsked, Granted
<1>2. \A w \in Wishes : wish[w] \in WishRows => WellAsked(wish[w])'
  <2>1. ASSUME NEW w \in Wishes, NEW x, x = wish[w], x \in WishRows PROVE WellAsked(x)'
    BY <1>1, <2>1 DEF PrizesInv
  <2>. QED  BY <2>1 DEF WellAsked
<1>3. \A w \in Wishes : wish'[w] \in WishRows => WellAsked(wish[w])' /\ wish'[w].resolved <= date'
  BY <1>2 DEF PrizesInv, WishRows
<1>. QED  BY <1>3 DEF PrizesInv

LEMMA ShelfKeeps ==
    ASSUME PrizesInv,
           SeedRewards \/ \E k \in Offered : FlipReward(k) \/ \E t \in NewTerms : ChangeTerms(k, t)
    PROVE  PrizesInv'
<1>1. CASE SeedRewards
  <2>1. \A k \in Offered : StarterOr(k) \in RewardRows
    BY CatalogTerms, PrizesAssumption DEF StarterOr, PrizesInv, RewardRows
  <2>. QED  BY <1>1, <2>1, WishesStay DEF SeedRewards, PrizesInv
<1>2. ASSUME NEW k \in Offered, FlipReward(k) \/ \E t \in NewTerms : ChangeTerms(k, t) PROVE PrizesInv'
  <2>1. PICK x \in RewardRows : x = shelf[k]
    BY <1>2 DEF FlipReward, ChangeTerms, PrizesInv
  <2>2. PICK y \in RewardRows : shelf' = [shelf EXCEPT ![k] = y]
    <3>1. ASSUME NEW s \in {"on", "off"}, NEW y, y = [x EXCEPT !.status = s] PROVE y \in RewardRows
      BY <3>1 DEF RewardRows
    <3>2. ASSUME NEW t \in TermRows, NEW y, y = [x EXCEPT !.terms = t] PROVE y \in RewardRows
      BY <3>2 DEF RewardRows
    <3>3. CASE FlipReward(k)
      BY <2>1, <3>1, <3>3 DEF FlipReward, PrizesInv
    <3>4. CASE \E t \in NewTerms : ChangeTerms(k, t)
      BY <2>1, <3>2, <3>4, PrizesAssumption DEF ChangeTerms, PrizesInv
    <3>. QED  BY <1>2, <3>3, <3>4
  <2>3. UNCHANGED <<wish, date>>
    BY <1>2 DEF FlipReward, ChangeTerms
  <2>. QED  BY <2>2, <2>3, WishesStay DEF PrizesInv
<1>. QED  BY <1>1, <1>2

LEMMA PrizesStepKeeps == ASSUME PrizesInv, NEW S, [PrizesNext(S)]_prizes PROVE PrizesInv'
<1>1. ASSUME NEW n \in Spans, DaysPass(n) PROVE PrizesInv'
  BY <1>1, WishesStay, PrizesAssumption DEF DaysPass, PrizesInv
<1>2. ASSUME NEW w \in Wishes, NEW ok \in BOOLEAN, CreateRedemption(w, ok) \/ ResolveRedemption(w, ok)
      PROVE  PrizesInv'
  <2>1. CASE \E s \in {"pending", "approved"} : Settles(w, s)
    BY <1>2, <2>1, SettlesKeeps DEF CreateRedemption, ResolveRedemption
  <2>2. CASE wish' = [wish EXCEPT ![w] = Moot] /\ ResolveRedemption(w, ok)
    BY <2>2, TurnedKeeps DEF PrizesInv
  <2>. QED  BY <1>2, <2>1, <2>2 DEF CreateRedemption, ResolveRedemption
<1>3. ASSUME NEW w \in Wishes, TurnDown(w) PROVE PrizesInv'
  BY <1>3, TurnedKeeps DEF TurnDown, PrizesInv
<1>4. CASE UNCHANGED prizes
  BY <1>4, WishesStay DEF prizes, PrizesInv
<1>. QED  BY <1>1, <1>2, <1>3, <1>4, AskKeeps, CountsKeeps, CooldownKeeps, DropKeeps, ShelfKeeps DEF PrizesNext

LEMMA PrizesBegin == PrizesInit => PrizesInv
<1>1. SUFFICES ASSUME PrizesInit PROVE PrizesInv
  OBVIOUS
<1>2. \A k \in Offered : shelf[k] \in RewardRows
  BY <1>1, CatalogTerms, PrizesAssumption DEF PrizesInit, RewardRows
<1>3. \A w \in Wishes : wish[w] = NoWish
  BY <1>1 DEF PrizesInit
<1>. QED  BY <1>1, <1>2, <1>3, WishForms DEF PrizesInit, PrizesInv

LEMMA PrizesHold == PrizesInv => TermsKept
<1>1. SUFFICES ASSUME PrizesInv, NEW w \in Wishes, wish[w].status \in {"pending", "approved"}
               PROVE  /\ wish[w].terms.limit # 0 => Cardinality(wish[w].before) < wish[w].terms.limit
                      /\ \A v \in wish[w].before : wish[w].day - wish[v].resolved >= wish[w].terms.cooldown
  BY DEF TermsKept
<1>. QED  BY <1>1, RowOf DEF WellAsked

LEMMA PrizesKept == ServerSpec => []PrizesInv
<1>1. ServerInit => PrizesInv
  BY PrizesBegin DEF ServerInit
<1>2. PrizesInv /\ [ServerNext]_<<vars, parts>> => PrizesInv'
  BY PartsMove, PrizesStepKeeps
<1>. QED  BY <1>1, <1>2, PTL DEF ServerSpec

\* None was granted before it was itself asked for.
BeforeInv == date <= LastDate /\ \A w \in Wishes : wish[w] \in WishRows => w \notin wish[w].before

\* Only who asks looks at what was granted.
LEMMA BeforeStays ==
    ASSUME PrizesInv, BeforeInv, date' <= LastDate,
           \A w \in Wishes : wish'[w] \in WishRows => wish[w] \in WishRows /\ wish'[w].before = wish[w].before
    PROVE  BeforeInv'
BY DEF BeforeInv
LEMMA OneOn ==
    ASSUME PrizesInv, BeforeInv, NEW w \in Wishes, NEW y, wish' = [wish EXCEPT ![w] = y], date' = date,
           y = Moot \/ (wish[w] \in WishRows /\ y.before = wish[w].before)
    PROVE  BeforeInv'
<1>1. wish'[w] = y /\ \A v \in Wishes \ {w} : wish'[v] = wish[v]
  BY DEF PrizesInv
<1>2. \A v \in Wishes : wish'[v] \in WishRows => wish[v] \in WishRows /\ wish'[v].before = wish[v].before
  BY <1>1, WishForms
<1>3. date' <= LastDate
  BY DEF BeforeInv
<1>. QED  BY <1>2, <1>3, BeforeStays

LEMMA BeforeAsk ==
    ASSUME PrizesInv, BeforeInv, NEW w \in Wishes, NEW kid \in Kids, NEW k \in Offered, AskFor(w, kid, k)
    PROVE  BeforeInv'
<1>1. w \notin Granted(kid, k)
  BY WishForms DEF AskFor, Granted
<1>2. wish'[w].before = Granted(kid, k) /\ \A v \in Wishes \ {w} : wish'[v] = wish[v]
  BY DEF AskFor, PrizesInv
<1>. QED  BY <1>1, <1>2 DEF BeforeInv, AskFor

LEMMA BeforeStep == ASSUME PrizesInv, BeforeInv, NEW S, [PrizesNext(S)]_prizes PROVE BeforeInv'
<1>1. CASE UNCHANGED <<wish, date>>
  BY <1>1 DEF BeforeInv
<1>2. ASSUME NEW n \in Spans, DaysPass(n) PROVE BeforeInv'
  BY <1>2 DEF DaysPass, BeforeInv
<1>3. ASSUME NEW k \in Offered, DropReward(k) PROVE BeforeInv'
  <2>1. \A w \in Wishes : wish'[w] = Moot \/ wish'[w] = wish[w]
    BY <1>3 DEF DropReward
  <2>2. date' <= LastDate
    BY <1>3 DEF DropReward, BeforeInv
  <2>. QED  BY <2>1, <2>2, BeforeStays, WishForms
<1>4. ASSUME NEW w \in Wishes, NEW s, NEW n, AsksOn(w, s, n), wish[w].status \notin {"none", "over"} PROVE BeforeInv'
  <2>1. PICK x \in WishRows : x = wish[w]
    BY <1>4, RowOf
  <2>2. PICK y : y = [x EXCEPT !.status = s, !.day = n]
    OBVIOUS
  <2>3. y.before = x.before
    BY <2>2 DEF WishRows
  <2>4. wish' = [wish EXCEPT ![w] = y] /\ date' = date
    BY <1>4, <2>1, <2>2 DEF AsksOn, PrizesInv
  <2>. QED  BY <2>1, <2>3, <2>4, OneOn
<1>5. ASSUME NEW w \in Wishes, NEW s, Settles(w, s), wish[w].status \notin {"none", "over"} PROVE BeforeInv'
  <2>1. PICK x \in WishRows : x = wish[w]
    BY <1>5, RowOf
  <2>2. PICK y : y = [x EXCEPT !.status = s, !.resolved = date]
    OBVIOUS
  <2>3. y.before = x.before
    BY <2>2 DEF WishRows
  <2>4. wish' = [wish EXCEPT ![w] = y] /\ date' = date
    BY <1>5, <2>1, <2>2 DEF Settles, PrizesInv
  <2>. QED  BY <2>1, <2>3, <2>4, OneOn
<1>6. ASSUME NEW w \in Wishes, wish' = [wish EXCEPT ![w] = Moot], date' = date PROVE BeforeInv'
  BY <1>6, OneOn
<1>7. ASSUME NEW w \in Wishes,
             \/ CountGranted(w) \/ CheckCooldown(w) \/ TurnDown(w)
             \/ \E ok \in BOOLEAN : CreateRedemption(w, ok) \/ ResolveRedemption(w, ok)
      PROVE  BeforeInv'
  <2>1. CASE CountGranted(w)
    BY <1>4, <2>1 DEF CountGranted
  <2>2. CASE CheckCooldown(w)
    BY <1>4, <2>2 DEF CheckCooldown
  <2>3. CASE TurnDown(w)
    BY <1>6, <2>3 DEF TurnDown
  <2>4. ASSUME NEW ok \in BOOLEAN, CreateRedemption(w, ok) PROVE BeforeInv'
    BY <1>5, <2>4 DEF CreateRedemption
  <2>5. ASSUME NEW ok \in BOOLEAN, ResolveRedemption(w, ok) PROVE BeforeInv'
    BY <1>5, <1>6, <2>5 DEF ResolveRedemption
  <2>. QED  BY <1>7, <2>1, <2>2, <2>3, <2>4, <2>5
<1>8. CASE SeedRewards \/ \E k \in Offered : FlipReward(k) \/ \E t \in NewTerms : ChangeTerms(k, t)
  BY <1>1, <1>8 DEF SeedRewards, FlipReward, ChangeTerms
<1>9. CASE UNCHANGED prizes
  BY <1>1, <1>9 DEF prizes
<1>. QED  BY <1>2, <1>3, <1>7, <1>8, <1>9, BeforeAsk DEF PrizesNext

LEMMA PrizesTyped == ServerSpec => []PrizesTypeOK
<1>1. ServerInit => BeforeInv
  <2>1. PrizesInit => BeforeInv
    BY WishForms, PrizesAssumption DEF PrizesInit, BeforeInv
  <2>. QED  BY <2>1 DEF ServerInit
<1>2. PrizesInv /\ BeforeInv /\ [ServerNext]_<<vars, parts>> => BeforeInv'
  BY PartsMove, BeforeStep
<1>3. PrizesInv /\ BeforeInv => PrizesTypeOK
  <2>1. SUFFICES ASSUME PrizesInv, BeforeInv PROVE PrizesTypeOK
    OBVIOUS
  <2>2. \A k \in Offered : shelf[k] # NoReward => shelf[k].status \in {"on", "off"}
    BY <2>1 DEF PrizesInv, RewardRows
  <2>3. \A w \in Wishes : wish[w] \in {NoWish, Moot} \/ (wish[w] \in WishRows /\ w \notin wish[w].before)
    BY <2>1 DEF PrizesInv, BeforeInv
  <2>4. \A x \in WishRows : /\ x.status \in {"asked", "counted", "rested", "pending", "approved"}
                            /\ x.kid \in Kids /\ x.before \subseteq Wishes
    BY DEF WishRows
  <2>5. date \in 0..LastDate
    BY <2>1, PrizesAssumption DEF PrizesInv, BeforeInv
  <2>. QED  BY <2>2, <2>3, <2>4, <2>5 DEF PrizesTypeOK
<1>. QED  BY <1>1, <1>2, <1>3, PrizesKept, PTL DEF ServerSpec

\* However the statements of requests, decisions, changes of the terms, deletions and days
\* mix: a redemption that was created keeps to the limit and the cooldown of the reward
\* as it was read, counted from what was granted before the child asked.
THEOREM PrizesKeepTerms == ServerSpec => []TermsKept
BY PrizesKept, PrizesHold, PTL

-----------------------------------------------------------------------------
\* The board of a client.
ViewRows ==
    [of : Family, chore : Nat, who : Family \cup {Nobody}, files : BOOLEAN, rest : Nat, office : Nat,
     full : BOOLEAN]
Payloads == ViewRows \cup {Blank}
FetchRows == [at : {"asked", "read"}, of : Family, pure : BOOLEAN, got : Payloads]
OwnRows ==
    [at : {"sent", "written", "answered"}, kind : DOMAIN Handlers, of : Family, got : Payloads,
     late : BOOLEAN]
BoardTypes ==
    /\ client \in {"web", "admin", "phone"} /\ house \in HouseRows /\ user \in Family \cup {Nobody}
    /\ stream \in {"closed", "asking", "open"} /\ news \in Nat
    /\ unsent \in BOOLEAN /\ queued \in BOOLEAN /\ strayed \in BOOLEAN
    /\ fetches \in [Slots -> FetchRows \cup {NoFetch}]
    /\ shown \in Payloads /\ own \in OwnRows \cup {NoCall}

\* Whoever is logged in listens, if the client does at all.
StreamInv ==
    /\ stream = "closed" <=> user = Nobody \/ ~Listens
    /\ news > 0 => stream = "open"

\* An undisturbed refresh is the only one; two at a time have strayed.
FetchInv ==
    /\ \A i, j \in UnderWay : fetches[i].pure \/ Phone \/ ~strayed => i = j
    /\ queued => Phone

\* What the user's own call has written stands, unless that call is late.
Done == own # NoCall /\ own.at \in {"written", "answered"}
OwnInv ==
    /\ own # NoCall /\ ~own.late => own.of = user
    /\ Done => own.got \in ViewRows /\ (own.late \/ own.got = View(house, user))
    /\ own.at = "written" => own.kind \in Publishes

\* The board with the answer of the own call put in its place.
InPlace ==
    IF shown = Blank THEN Blank
    ELSE IF own.kind = "edit"
    THEN [shown EXCEPT !.chore = own.got.chore, !.who = own.got.who, !.files = own.got.files]
    ELSE [shown EXCEPT !.office = own.got.office, !.full = own.got.full]

\* Something is on its way that begins a refresh, or leaves a note for one.
Awaited ==
    \/ Phone /\ stream = "asking"
    \/ news > 0
    \/ Listens /\ unsent
    \/ Listens /\ own.at = "written"
    \/ Phone /\ queued /\ UnderWay # {}
    \/ Done /\ own.kind \notin PutInPlace /\ (own.kind = "order" \/ ~Listens)

\* What refreshes have read is what the server stores; without one, the board shows
\* it, or will when the answer is in its place.
InStep ==
    /\ \A i \in UnderWay : fetches[i].of = user /\ fetches[i].at = "read" =>
           fetches[i].got = View(house, user)
    /\ UnderWay = {} =>
           \/ shown = View(house, user)
           \/ Done /\ Unseen /\ (own.late \/ InPlace = View(house, user))

Unstrayed == ~strayed \/ \E i \in UnderWay : fetches[i].pure
SyncInv == Unstrayed /\ user # Nobody => Awaited \/ InStep
SessionInv == BoardTypes /\ StreamInv /\ FetchInv /\ OwnInv /\ SyncInv

LEMMA BoardMoves ==
    ASSUME [ServerNext]_<<vars, parts>> PROVE [\E S : DashboardNext(S)]_dashboard
BY DEF ServerNext, vars, parts, AccountsStep, TemplatesStep, BonusesStep, DashboardStep, TurnsStep,
      CalendarStep, StartersStep, PrizesStep

LEMMA ViewIs ==
    /\ \A h \in HouseRows, u \in Family : View(h, u) \in ViewRows
    /\ Blank \notin ViewRows
<1>1. ASSUME NEW h \in HouseRows, NEW u \in Family PROVE View(h, u) \in ViewRows
  <2>1. Hidden(h, u) \in BOOLEAN
    BY DEF Hidden
  <2>. QED  BY <2>1 DEF View, ViewRows, HouseRows
<1>2. \A x \in ViewRows : x.of # Blank.of
  BY DashboardAssumption DEF ViewRows, Blank
<1>. QED  BY <1>1, <1>2

LEMMA BoardForms ==
    /\ NoFetch.at = "none" /\ NoCall.at = "free" /\ ~NoFetch.pure
    /\ \A x \in FetchRows : x # NoFetch
    /\ \A x \in OwnRows : x # NoCall /\ x.at # "free"
    /\ \A u \in Family, p \in BOOLEAN : Asked(u, p) \in FetchRows
<1>1. NoFetch.at = "none" /\ NoCall.at = "free" /\ ~NoFetch.pure
  BY DEF NoFetch, NoCall
<1>2. \A x \in FetchRows : x.at # "none"
  BY DEF FetchRows
<1>3. \A x \in OwnRows : x.at # "free"
  BY DEF OwnRows
<1>4. \A u \in Family, p \in BOOLEAN : Asked(u, p) \in FetchRows
  BY DEF Asked, FetchRows, Payloads
<1>. QED  BY <1>1, <1>2, <1>3, <1>4

LEMMA FetchIs ==
    ASSUME BoardTypes, NEW i \in Slots
    PROVE  /\ i \in UnderWay <=> fetches[i] \in FetchRows
           /\ i \in UnderWay <=> fetches[i].at \in {"asked", "read"}
           /\ fetches[i].pure => i \in UnderWay
BY BoardForms DEF BoardTypes, UnderWay, FetchRows

LEMMA ImpureIs ==
    ASSUME BoardTypes
    PROVE  /\ Impure \in [Slots -> FetchRows \cup {NoFetch}]
           /\ \A i \in Slots : /\ i \in UnderWay <=> Impure[i] # NoFetch
                               /\ Impure[i].at = fetches[i].at /\ Impure[i].of = fetches[i].of
                               /\ Impure[i].got = fetches[i].got /\ ~Impure[i].pure
<1>1. ASSUME NEW x \in FetchRows \cup {NoFetch}, NEW y, y = [x EXCEPT !.pure = FALSE]
      PROVE  /\ y \in FetchRows \cup {NoFetch} /\ (x \in FetchRows <=> y \in FetchRows)
             /\ (x = NoFetch <=> y = NoFetch)
             /\ y.at = x.at /\ y.of = x.of /\ y.got = x.got /\ ~y.pure
  <2>1. CASE x \in FetchRows
    <3>1. y \in FetchRows /\ y.at = x.at /\ y.of = x.of /\ y.got = x.got /\ ~y.pure
      BY <1>1, <2>1 DEF FetchRows
    <3>. QED  BY <2>1, <3>1, BoardForms
  <2>2. CASE x = NoFetch
    <3>1. y = NoFetch
      BY <1>1, <2>2 DEF NoFetch
    <3>. QED  BY <2>2, <3>1, BoardForms
  <2>. QED  BY <1>1, <2>1, <2>2
<1>2. \A i \in Slots : fetches[i] \in FetchRows \cup {NoFetch} /\ Impure[i] = [fetches[i] EXCEPT !.pure = FALSE]
  BY DEF Impure, BoardTypes
<1>3. ASSUME NEW i \in Slots
      PROVE  /\ Impure[i] \in FetchRows \cup {NoFetch}
             /\ i \in UnderWay <=> Impure[i] # NoFetch
             /\ Impure[i].at = fetches[i].at /\ Impure[i].of = fetches[i].of
             /\ Impure[i].got = fetches[i].got /\ ~Impure[i].pure
  <2>1. PICK x, y : x = fetches[i] /\ y = Impure[i]
    OBVIOUS
  <2>. QED  BY <1>1, <1>2, <2>1 DEF UnderWay
<1>4. Impure = [i \in Slots |-> Impure[i]]
  BY DEF Impure
<1>. QED  BY <1>3, <1>4

\* What strays, if anything does: the refreshes stay under way.
LEMMA StraysOn ==
    ASSUME BoardTypes, FetchInv, NEW why, Strays(why), UNCHANGED <<client, queued>>
    PROVE  /\ fetches' \in [Slots -> FetchRows \cup {NoFetch}] /\ strayed' \in BOOLEAN /\ FetchInv'
           /\ UnderWay' = UnderWay
           /\ \A i \in Slots : /\ fetches'[i].of = fetches[i].of /\ fetches'[i].at = fetches[i].at
                               /\ fetches'[i].got = fetches[i].got
           /\ Unstrayed' => ~why /\ UNCHANGED <<fetches, strayed>> /\ Unstrayed
<1>1. CASE why
  <2>1. fetches' = Impure /\ strayed' = TRUE
    BY <1>1 DEF Strays
  <2>2. UnderWay' = UnderWay
    BY <2>1, ImpureIs DEF UnderWay
  <2>3. \A i \in Slots : ~fetches'[i].pure
    BY <2>1, ImpureIs
  <2>4. ~Unstrayed'
    BY <2>1, <2>3 DEF Unstrayed, UnderWay
  <2>5. FetchInv'
    BY <2>1, <2>2, <2>3 DEF FetchInv, Phone, UnderWay
  <2>. QED  BY <2>1, <2>2, <2>4, <2>5, ImpureIs
<1>2. CASE ~why
  <2>1. UNCHANGED <<fetches, strayed>>
    BY <1>2 DEF Strays, BoardTypes
  <2>. QED  BY <1>2, <2>1 DEF BoardTypes, FetchInv, UnderWay, Unstrayed, Phone
<1>. QED  BY <1>1, <1>2

\* A refresh that is asked for puts the board right, or strays.
LEMMA RefreshOn ==
    ASSUME BoardTypes, FetchInv, NEW u \in Family, RequestRefresh(u), UNCHANGED client
    PROVE  /\ fetches' \in [Slots -> FetchRows \cup {NoFetch}]
           /\ strayed' \in BOOLEAN /\ queued' \in BOOLEAN
           /\ FetchInv' /\ SyncInv'
<1>1. CASE Phone /\ UnderWay # {}
  <2>1. queued' = TRUE /\ UNCHANGED <<fetches, strayed>>
    BY <1>1 DEF RequestRefresh
  <2>2. Awaited'
    BY <1>1, <2>1 DEF Awaited, Phone, UnderWay
  <2>. QED  BY <1>1, <2>1, <2>2 DEF BoardTypes, FetchInv, UnderWay, Phone, SyncInv
<1>2. CASE ~(Phone /\ UnderWay # {})
  <2>1. PICK i \in Slots \ UnderWay : fetches' = [Impure EXCEPT ![i] = Asked(u, UnderWay = {})]
    BY <1>2 DEF RequestRefresh, BeginsRefresh
  <2>2. queued' = FALSE /\ strayed' \in BOOLEAN /\ (strayed \/ UnderWay # {} => strayed')
    BY <1>2 DEF RequestRefresh, BeginsRefresh, BoardTypes
  <2>3. PICK a \in FetchRows : a = Asked(u, UnderWay = {}) /\ a.at = "asked" /\ (a.pure <=> UnderWay = {})
    BY BoardForms DEF Asked
  <2>4. /\ fetches' \in [Slots -> FetchRows \cup {NoFetch}]
        /\ fetches'[i] = a /\ \A j \in Slots \ {i} : fetches'[j] = Impure[j]
    BY <2>1, <2>3, ImpureIs
  <2>5. UnderWay' = UnderWay \cup {i}
    BY <2>3, <2>4, ImpureIs, BoardForms DEF UnderWay
  <2>6. CASE UnderWay = {}
    <3>1. \A j \in UnderWay' : fetches'[j].at = "asked"
      BY <2>3, <2>4, <2>5, <2>6
    <3>2. InStep'
      BY <2>5, <3>1 DEF InStep
    <3>. QED  BY <2>2, <2>4, <2>5, <2>6, <3>2 DEF FetchInv, SyncInv
  <2>7. CASE UnderWay # {}
    <3>1. strayed' /\ ~Phone' /\ \A j \in Slots : ~fetches'[j].pure
      BY <1>2, <2>2, <2>3, <2>4, <2>7, ImpureIs DEF Phone
    <3>2. ~Unstrayed'
      BY <3>1 DEF Unstrayed, UnderWay
    <3>. QED  BY <2>2, <2>4, <3>1, <3>2 DEF FetchInv, SyncInv, UnderWay
  <2>. QED  BY <2>6, <2>7
<1>. QED  BY <1>1, <1>2

LEMMA ReadsKeeps == ASSUME SessionInv, NEW i \in Slots, FetchReads(i) PROVE SessionInv'
<1>1. PICK x \in FetchRows : x = fetches[i] /\ x.at = "asked" /\ i \in UnderWay
  BY FetchIs DEF FetchReads, SessionInv
<1>2. PICK v \in Payloads : v = View(house, x.of)
  BY ViewIs DEF SessionInv, BoardTypes, FetchRows, Payloads
<1>3. PICK z : z = [x EXCEPT !.at = "read"]
  OBVIOUS
<1>4. z \in FetchRows /\ z.at = "read" /\ z.of = x.of /\ z.pure = x.pure
  BY <1>3 DEF FetchRows
<1>5. PICK y : y = [z EXCEPT !.got = v]
  OBVIOUS
<1>6. y \in FetchRows /\ y.at = "read" /\ y.of = x.of /\ y.pure = x.pure /\ y.got = v
  BY <1>4, <1>5 DEF FetchRows
<1>7. fetches' = [fetches EXCEPT ![i] = y]
  BY <1>1, <1>2, <1>3, <1>5 DEF FetchReads, SessionInv, BoardTypes
<1>8. /\ UNCHANGED <<client, house, unsent, user, stream, news, queued, shown, own, strayed>>
      /\ fetches' \in [Slots -> FetchRows \cup {NoFetch}]
      /\ fetches'[i] = y /\ \A j \in Slots \ {i} : fetches'[j] = fetches[j]
  BY <1>6, <1>7 DEF FetchReads, SessionInv, BoardTypes
<1>9. UnderWay' = UnderWay
  BY <1>1, <1>6, <1>8, BoardForms DEF UnderWay
<1>10. \A j \in Slots : fetches'[j].pure = fetches[j].pure
  BY <1>1, <1>6, <1>8
<1>11. FetchInv' /\ (Unstrayed' => Unstrayed)
  BY <1>8, <1>9, <1>10 DEF SessionInv, FetchInv, Unstrayed, Phone, UnderWay
<1>12. Awaited => Awaited'
  BY <1>8, <1>9 DEF Awaited, Phone, Listens, Done
<1>13. InStep => InStep'
  <2>1. SUFFICES ASSUME InStep PROVE InStep'
    OBVIOUS
  <2>2. ASSUME NEW j \in UnderWay', fetches'[j].of = user', fetches'[j].at = "read"
        PROVE  fetches'[j].got = View(house', user')
    BY <1>1, <1>2, <1>6, <1>8, <1>9, <2>1, <2>2 DEF InStep, UnderWay
  <2>3. UnderWay' # {}
    BY <1>1, <1>9
  <2>. QED  BY <2>2, <2>3 DEF InStep
<1>. QED  BY <1>8, <1>11, <1>12, <1>13 DEF SessionInv, BoardTypes, StreamInv, OwnInv, SyncInv, Listens, Done

LEMMA ArrivesKeeps == ASSUME SessionInv, NEW i \in Slots, FetchArrives(i) PROVE SessionInv'
<1>1. PICK x \in FetchRows : x = fetches[i] /\ x.at = "read" /\ i \in UnderWay
  BY FetchIs DEF FetchArrives, SessionInv
<1>2. /\ UNCHANGED <<client, house, unsent, user, stream, news, own>>
      /\ shown' = x.got /\ queued' = FALSE
      /\ strayed' = IF x.of # user THEN TRUE ELSE strayed /\ ~x.pure
      /\ fetches' = [fetches EXCEPT ![i] = IF queued THEN Asked(x.of, TRUE) ELSE NoFetch]
  BY <1>1 DEF FetchArrives
<1>3. PICK y \in FetchRows \cup {NoFetch} : y = IF queued THEN Asked(x.of, TRUE) ELSE NoFetch
  BY BoardForms DEF FetchRows
<1>4. /\ queued => y \in FetchRows /\ y.at = "asked" /\ y.pure
      /\ ~queued => y = NoFetch
  BY <1>3, BoardForms DEF Asked, FetchRows
<1>5. /\ fetches' \in [Slots -> FetchRows \cup {NoFetch}]
      /\ fetches'[i] = y /\ \A j \in Slots \ {i} : fetches'[j] = fetches[j]
  BY <1>2, <1>3 DEF SessionInv, BoardTypes
<1>6. UnderWay' = IF queued THEN UnderWay ELSE UnderWay \ {i}
  BY <1>1, <1>4, <1>5, BoardForms DEF UnderWay
<1>7. BoardTypes'
  BY <1>2, <1>5 DEF SessionInv, BoardTypes, FetchRows
<1>8. CASE queued
  <2>1. Phone /\ UnderWay = {i}
    BY <1>1, <1>8 DEF SessionInv, FetchInv
  <2>2. UnderWay' = {i} /\ fetches'[i].at = "asked"
    BY <1>4, <1>5, <1>6, <1>8, <2>1
  <2>3. InStep'
    BY <2>2 DEF InStep
  <2>4. FetchInv'
    BY <1>2, <2>2 DEF FetchInv
  <2>. QED  BY <1>2, <1>7, <2>3, <2>4 DEF SessionInv, StreamInv, OwnInv, SyncInv, Listens, Done
<1>9. CASE ~queued
  <2>1. UnderWay' = UnderWay \ {i} /\ \A j \in UnderWay' : fetches'[j] = fetches[j]
    BY <1>5, <1>6, <1>9 DEF UnderWay
  <2>2. strayed' \in BOOLEAN /\ (~strayed' => x.of = user /\ (~strayed \/ x.pure))
    BY <1>2 DEF SessionInv, BoardTypes
  <2>3. ASSUME Unstrayed' PROVE x.of = user /\ Unstrayed /\ UnderWay' = {}
    <3>1. CASE ~strayed'
      BY <1>1, <2>1, <2>2, <3>1 DEF Unstrayed, SessionInv, FetchInv
    <3>2. CASE \E j \in UnderWay' : fetches'[j].pure
      BY <1>1, <2>1, <3>2 DEF SessionInv, FetchInv
    <3>. QED  BY <2>3, <3>1, <3>2 DEF Unstrayed
  <2>4. FetchInv'
    <3>1. ASSUME NEW j \in UnderWay', NEW k \in UnderWay', fetches'[j].pure \/ Phone' \/ ~strayed' PROVE j = k
      <4>1. j \in UnderWay /\ k \in UnderWay
        BY <2>1
      <4>2. fetches[j].pure \/ Phone \/ UnderWay' = {}
        BY <1>2, <2>1, <2>3, <3>1 DEF Phone, Unstrayed
      <4>. QED  BY <3>1, <4>1, <4>2 DEF SessionInv, FetchInv
    <3>. QED  BY <1>2, <3>1 DEF FetchInv
  <2>5. ASSUME Unstrayed', user' # Nobody PROVE Awaited' \/ InStep'
    <3>1. Awaited \/ InStep
      BY <1>2, <2>3, <2>5 DEF SessionInv, SyncInv
    <3>2. CASE Awaited
      BY <1>2, <1>9, <3>2 DEF Awaited, Phone, Listens, Done
    <3>3. CASE InStep
      BY <1>1, <1>2, <2>3, <2>5, <3>3 DEF InStep
    <3>. QED  BY <3>1, <3>2, <3>3
  <2>. QED  BY <1>2, <1>7, <2>4, <2>5 DEF SessionInv, StreamInv, OwnInv, SyncInv, Listens, Done
<1>. QED  BY <1>8, <1>9 DEF SessionInv, BoardTypes

LEMMA FailsKeeps == ASSUME SessionInv, NEW i \in Slots, FetchFails(i) PROVE SessionInv'
<1>1. /\ i \in UnderWay /\ fetches' = [fetches EXCEPT ![i] = NoFetch] /\ strayed' = TRUE
      /\ UNCHANGED <<client, house, unsent, user, stream, news, queued, shown, own>>
  BY DEF FetchFails
<1>2. /\ fetches' \in [Slots -> FetchRows \cup {NoFetch}]
      /\ fetches'[i] = NoFetch /\ \A j \in Slots \ {i} : fetches'[j] = fetches[j]
  BY <1>1 DEF SessionInv, BoardTypes, UnderWay
<1>3. UnderWay' = UnderWay \ {i}
  BY <1>2 DEF UnderWay
<1>4. FetchInv' /\ ~Unstrayed'
  <2>1. \A j \in UnderWay' : fetches'[j] = fetches[j]
    BY <1>2, <1>3 DEF UnderWay
  <2>2. \A j \in UnderWay' : ~fetches'[j].pure
    BY <1>1, <1>3, <2>1 DEF SessionInv, FetchInv
  <2>. QED  BY <1>1, <1>3, <2>2 DEF SessionInv, FetchInv, Unstrayed, Phone
<1>. QED  BY <1>1, <1>2, <1>4 DEF SessionInv, BoardTypes, StreamInv, OwnInv, SyncInv, Listens, Done

\* A client asks for a refresh.
LEMMA AsksKeeps ==
    ASSUME SessionInv, NEW u \in Family, RequestRefresh(u), UNCHANGED <<client, house, unsent>>,
           user' \in Family \cup {Nobody}, stream' \in {"closed", "asking", "open"}, news' \in Nat,
           shown' \in Payloads, own' \in OwnRows \cup {NoCall}, StreamInv', OwnInv'
    PROVE  SessionInv'
BY RefreshOn DEF SessionInv, BoardTypes

LEMMA HearKeeps == ASSUME SessionInv, Hear PROVE SessionInv'
<1>1. /\ news \in Nat /\ news' = news - 1 /\ news > 0 /\ RequestRefresh(user)
      /\ UNCHANGED <<client, house, unsent, stream, shown, own, user>>
  BY DEF Hear, SessionInv, BoardTypes
<1>2. user \in Family /\ news' \in Nat
  BY <1>1 DEF SessionInv, BoardTypes, StreamInv
<1>3. StreamInv' /\ OwnInv'
  BY <1>1 DEF SessionInv, BoardTypes, StreamInv, OwnInv, Listens, Done
<1>. QED  BY <1>1, <1>2, <1>3, AsksKeeps DEF SessionInv, BoardTypes

LEMMA NudgeKeeps == ASSUME SessionInv, Nudge PROVE SessionInv'
<1>1. /\ RequestRefresh(user) /\ user \in Family
      /\ UNCHANGED <<client, house, unsent, stream, shown, own, user, news>>
  BY DEF Nudge, SessionInv, BoardTypes
<1>3. StreamInv' /\ OwnInv'
  BY <1>1 DEF SessionInv, BoardTypes, StreamInv, OwnInv, Listens, Done
<1>. QED  BY <1>1, <1>3, AsksKeeps DEF SessionInv, BoardTypes

LEMMA LogInKeeps == ASSUME SessionInv, NEW u \in Family, LogIn(u) PROVE SessionInv'
<1>1. /\ user = Nobody /\ user' = u /\ stream' = (IF Listens THEN "asking" ELSE "closed")
      /\ RequestRefresh(u) /\ UNCHANGED <<client, house, unsent, news, shown, own>>
  BY DEF LogIn
<1>2. u # Nobody
  BY DashboardAssumption
<1>3. StreamInv'
  BY <1>1, <1>2 DEF SessionInv, BoardTypes, StreamInv, Listens
<1>4. OwnInv'
  <2>1. own # NoCall => own.late
    BY <1>1, DashboardAssumption DEF SessionInv, BoardTypes, OwnInv, OwnRows
  <2>. QED  BY <1>1, <2>1 DEF SessionInv, OwnInv, Done
<1>. QED  BY <1>1, <1>3, <1>4, AsksKeeps DEF SessionInv, BoardTypes

LEMMA ChoresChange ==
    ASSUME BoardTypes, ChangeChores
    PROVE  house' \in HouseRows /\ house'.office = house.office /\ house'.full = house.full
<1>1. PICK w \in Family, more \in {house.rest, house.chore + 1} :
        house' = [house EXCEPT !.chore = @ + 1, !.who = w, !.rest = more]
  BY DEF ChangeChores
<1>2. house \in HouseRows
  BY DEF BoardTypes
<1>3. more \in Nat /\ house.chore + 1 \in Nat
  BY <1>2 DEF HouseRows
<1>4. PICK y : y = [house EXCEPT !.chore = house.chore + 1]
  OBVIOUS
<1>5. y \in HouseRows /\ y.office = house.office /\ y.full = house.full
  BY <1>2, <1>3, <1>4 DEF HouseRows
<1>6. PICK z : z = [y EXCEPT !.who = w]
  OBVIOUS
<1>7. z \in HouseRows /\ z.office = house.office /\ z.full = house.full
  BY <1>5, <1>6 DEF HouseRows
<1>8. house' = [z EXCEPT !.rest = more]
  BY <1>1, <1>2, <1>4, <1>6 DEF HouseRows
<1>. QED  BY <1>3, <1>7, <1>8 DEF HouseRows

LEMMA OfficeChanges ==
    ASSUME BoardTypes, NEW u, ChangeOffice(u)
    PROVE  /\ house' \in HouseRows /\ house'.chore = house.chore /\ house'.who = house.who
           /\ u \in Young => house'.full = house.full
<1>1. PICK free \in BOOLEAN, more \in {house.rest, MaxRev + house.office + 1} :
        /\ house' = [house EXCEPT !.office = @ + 1, !.full = free, !.rest = more]
        /\ u \in Young => free = house.full
  BY DEF ChangeOffice, BoardTypes, HouseRows
<1>2. house \in HouseRows
  BY DEF BoardTypes
<1>3. more \in Nat /\ house.office + 1 \in Nat
  BY <1>2, DashboardAssumption DEF HouseRows
<1>4. PICK y : y = [house EXCEPT !.office = house.office + 1]
  OBVIOUS
<1>5. y \in HouseRows /\ y.chore = house.chore /\ y.who = house.who
  BY <1>2, <1>3, <1>4 DEF HouseRows
<1>6. PICK z : z = [y EXCEPT !.full = free]
  OBVIOUS
<1>7. z \in HouseRows /\ z.chore = house.chore /\ z.who = house.who /\ z.full = free
  BY <1>5, <1>6 DEF HouseRows
<1>8. house' = [z EXCEPT !.rest = more]
  BY <1>1, <1>2, <1>4, <1>6 DEF HouseRows
<1>. QED  BY <1>1, <1>3, <1>7, <1>8 DEF HouseRows

LEMMA LateIs ==
    ASSUME NEW x \in OwnRows, NEW y, y = [x EXCEPT !.late = TRUE]
    PROVE  /\ y \in OwnRows /\ y.late /\ y.at = x.at /\ y.kind = x.kind /\ y.of = x.of /\ y.got = x.got
BY DEF OwnRows

\* Somebody else changes the household: the own call is late, and stays the same else.
LEMMA OwnLateOn ==
    ASSUME BoardTypes, OwnInv, OwnIsLate, UNCHANGED <<client, user>>
    PROVE  /\ own' \in OwnRows \cup {NoCall} /\ OwnInv'
           /\ own'.at = own.at /\ (own # NoCall <=> own' # NoCall) /\ (Done <=> Done')
           /\ Done => own'.kind = own.kind /\ own'.late
<1>1. CASE own \in OwnRows /\ own.at \in {"written", "answered"}
  <2>1. PICK x \in OwnRows : x = own
    BY <1>1
  <2>2. PICK y : y = own'
    OBVIOUS
  <2>3. y = [x EXCEPT !.late = TRUE]
    BY <1>1, <2>1, <2>2 DEF OwnIsLate, Late
  <2>4. y \in OwnRows /\ y.late /\ y.at = x.at /\ y.kind = x.kind /\ y.got = x.got
    BY <2>3, LateIs
  <2>. QED  BY <1>1, <2>1, <2>2, <2>4, BoardForms DEF OwnInv, Done
<1>2. CASE own = NoCall \/ own.at \notin {"written", "answered"}
  <2>1. own' = own
    BY <1>2, BoardForms DEF OwnIsLate
  <2>2. ~Done /\ ~Done'
    BY <1>2, <2>1 DEF Done
  <2>. QED  BY <2>1, <2>2 DEF BoardTypes, OwnInv
<1>. QED  BY <1>1, <1>2 DEF BoardTypes

LEMMA OthersWriteKeeps == ASSUME SessionInv, OthersWrite PROVE SessionInv'
<1>1. /\ unsent' = TRUE /\ OwnIsLate /\ Strays(~Listens)
      /\ UNCHANGED <<client, user, stream, news, queued, shown>>
  BY DEF OthersWrite
<1>2. house' \in HouseRows
  BY ChoresChange DEF OthersWrite, SessionInv
<1>3. own' \in OwnRows \cup {NoCall} /\ OwnInv'
  BY <1>1, OwnLateOn DEF SessionInv
<1>4. /\ fetches' \in [Slots -> FetchRows \cup {NoFetch}] /\ strayed' \in BOOLEAN /\ FetchInv'
      /\ Unstrayed' => Listens
  BY <1>1, StraysOn DEF SessionInv
<1>5. Unstrayed' => Awaited'
  BY <1>1, <1>4 DEF Awaited, Listens
<1>. QED  BY <1>1, <1>2, <1>3, <1>4, <1>5 DEF SessionInv, BoardTypes, StreamInv, SyncInv, Listens

LEMMA OthersPublishKeeps == ASSUME SessionInv, OthersPublish PROVE SessionInv'
<1>1. /\ unsent' = FALSE /\ news' = (IF stream = "open" THEN news + 1 ELSE news)
      /\ Strays(client = "web" /\ stream # "open")
      /\ UNCHANGED <<client, house, user, stream, queued, shown, own>>
  BY DEF OthersPublish, PublishSyncEvent
<1>2. /\ fetches' \in [Slots -> FetchRows \cup {NoFetch}] /\ strayed' \in BOOLEAN /\ FetchInv'
      /\ Unstrayed' => ~(client = "web" /\ stream # "open") /\ UNCHANGED <<fetches, strayed>> /\ Unstrayed
  BY <1>1, StraysOn DEF SessionInv
<1>3. news' \in Nat /\ StreamInv'
  BY <1>1 DEF SessionInv, BoardTypes, StreamInv, Listens
<1>4. ASSUME Unstrayed', user' # Nobody PROVE Awaited' \/ InStep'
  <2>1. UnderWay' = UnderWay /\ UNCHANGED <<fetches, strayed>>
    BY <1>2, <1>4 DEF UnderWay
  <2>2. CASE InStep
    BY <1>1, <2>1, <2>2 DEF InStep, Done, Unseen, InPlace, Listens
  <2>3. CASE Listens
    <3>1. stream = "open" \/ (stream = "asking" /\ Phone)
      BY <1>1, <1>2, <1>4, <2>3 DEF SessionInv, BoardTypes, StreamInv, Listens, Phone
    <3>2. CASE stream = "open"
      BY <1>1, <3>2 DEF Awaited, SessionInv, BoardTypes
    <3>3. CASE stream = "asking" /\ Phone
      BY <1>1, <3>3 DEF Awaited, Phone
    <3>. QED  BY <3>1, <3>2, <3>3
  <2>4. CASE ~Listens /\ Awaited
    BY <1>1, <2>1, <2>4 DEF Awaited, Done, Phone, Listens, SessionInv, BoardTypes
  <2>. QED  BY <1>1, <1>2, <1>4, <2>2, <2>3, <2>4 DEF SessionInv, SyncInv
<1>. QED  BY <1>1, <1>2, <1>3, <1>4 DEF SessionInv, BoardTypes, SyncInv, OwnInv, Done

LEMMA OthersSetKeeps == ASSUME SessionInv, OthersSet PROVE SessionInv'
<1>1. OwnIsLate /\ Strays(TRUE) /\ UNCHANGED <<client, unsent, user, stream, news, queued, shown>>
  BY DEF OthersSet
<1>2. house' \in HouseRows
  BY OfficeChanges DEF OthersSet, SessionInv
<1>3. own' \in OwnRows \cup {NoCall} /\ OwnInv'
  BY <1>1, OwnLateOn DEF SessionInv
<1>4. /\ fetches' \in [Slots -> FetchRows \cup {NoFetch}] /\ strayed' \in BOOLEAN /\ FetchInv'
      /\ ~Unstrayed'
  BY <1>1, StraysOn DEF SessionInv
<1>. QED  BY <1>1, <1>2, <1>3, <1>4 DEF SessionInv, BoardTypes, StreamInv, SyncInv, Listens

LEMMA RestartKeeps == ASSUME SessionInv, ServerRestarts PROVE SessionInv'
<1>1. /\ unsent' = FALSE /\ news' = 0
      /\ stream' = (IF stream = "open" THEN "asking" ELSE stream)
      /\ own' = (IF own.at \in {"sent", "written"} THEN NoCall ELSE own)
      /\ strayed' = (strayed \/ (~Phone /\ (Unserved \/ own.at = "written"))
                             \/ (client = "web" /\ (unsent \/ news > 0)))
      /\ fetches' = [i \in Slots |-> IF fetches[i].at = "read" THEN Impure[i] ELSE NoFetch]
      /\ UNCHANGED <<client, house, user, queued, shown>>
  BY DEF ServerRestarts
<1>2. /\ fetches' \in [Slots -> FetchRows \cup {NoFetch}]
      /\ \A i \in Slots : IF fetches[i].at = "read" THEN fetches'[i] = Impure[i] ELSE fetches'[i] = NoFetch
  BY <1>1, ImpureIs DEF SessionInv
<1>3. \A i \in Slots : ~fetches'[i].pure
  BY <1>2, ImpureIs, BoardForms DEF SessionInv
<1>4. UnderWay' = {i \in UnderWay : fetches[i].at = "read"}
  BY <1>2, ImpureIs, BoardForms DEF UnderWay, SessionInv
<1>5. strayed' \in BOOLEAN /\ (strayed => strayed')
  BY <1>1 DEF SessionInv, BoardTypes
<1>6. FetchInv'
  <2>1. ASSUME NEW i \in UnderWay', NEW j \in UnderWay', fetches'[i].pure \/ Phone' \/ ~strayed' PROVE i = j
    <3>1. i \in UnderWay /\ j \in UnderWay /\ ~fetches'[i].pure
      BY <1>3, <1>4 DEF UnderWay
    <3>2. Phone \/ ~strayed
      BY <1>1, <1>5, <2>1, <3>1 DEF Phone
    <3>. QED  BY <3>1, <3>2 DEF SessionInv, FetchInv
  <2>2. queued' => Phone'
    BY <1>1 DEF SessionInv, FetchInv, Phone
  <2>. QED  BY <2>1, <2>2 DEF FetchInv
<1>7. StreamInv'
  BY <1>1 DEF SessionInv, BoardTypes, StreamInv, Listens
<1>8. own' \in OwnRows \cup {NoCall} /\ OwnInv'
  <2>1. CASE own' = NoCall
    BY <2>1, BoardForms DEF OwnInv, Done
  <2>2. CASE own' = own
    BY <1>1, <2>2 DEF SessionInv, BoardTypes, OwnInv, Done
  <2>. QED  BY <1>1, <2>1, <2>2
<1>9. ASSUME Unstrayed', user' # Nobody PROVE Awaited' \/ InStep'
  <2>1. ~strayed' /\ ~strayed /\ Unstrayed
    BY <1>3, <1>5, <1>9 DEF Unstrayed, UnderWay
  <2>2. CASE Phone
    <3>1. stream' = "asking"
      BY <1>1, <1>9, <2>2 DEF SessionInv, BoardTypes, StreamInv, Listens, Phone
    <3>. QED  BY <1>1, <2>2, <3>1 DEF Awaited, Phone
  <2>3. CASE ~Phone
    <3>1. /\ ~Unserved /\ own.at # "written"
          /\ client = "web" => ~unsent /\ ~(news > 0)
      BY <1>1, <2>1, <2>3
    <3>2. client = "web" \/ ~Listens
      BY <2>3 DEF SessionInv, BoardTypes, Listens, Phone
    <3>3. UnderWay' = UnderWay /\ \A i \in UnderWay :
              fetches'[i].at = fetches[i].at /\ fetches'[i].of = fetches[i].of /\ fetches'[i].got = fetches[i].got
      <4>1. \A i \in UnderWay : fetches[i].at = "read"
        BY <3>1, FetchIs DEF Unserved, SessionInv, UnderWay
      <4>2. UnderWay' = UnderWay
        BY <1>4, <4>1
      <4>. QED  BY <1>2, <4>1, <4>2, ImpureIs DEF SessionInv, UnderWay
    <3>4. own.at = "answered" => own' = own
      BY <1>1
    <3>5. Done => Done' /\ own' = own
      BY <3>1, <3>4 DEF Done
    <3>6. news = 0 \/ client = "web"
      BY <3>2 DEF SessionInv, BoardTypes, StreamInv
    <3>7. CASE Awaited
      BY <1>1, <2>3, <3>1, <3>2, <3>5, <3>6, <3>7 DEF Awaited, Listens
    <3>8. CASE InStep
      BY <1>1, <3>3, <3>5, <3>8 DEF InStep, Unseen, InPlace, Listens
    <3>. QED  BY <1>1, <1>9, <2>1, <3>7, <3>8 DEF SessionInv, SyncInv
  <2>. QED  BY <2>2, <2>3
<1>. QED  BY <1>1, <1>2, <1>5, <1>6, <1>7, <1>8, <1>9 DEF SessionInv, BoardTypes, SyncInv

LEMMA OpensKeeps == ASSUME SessionInv, StreamOpens PROVE SessionInv'
<1>1. /\ stream = "asking" /\ stream' = "open" /\ news' = (IF Phone THEN news + 1 ELSE news)
      /\ UNCHANGED <<client, house, unsent, user, fetches, queued, shown, own, strayed>>
  BY DEF StreamOpens
<1>2. news' \in Nat /\ StreamInv'
  BY <1>1 DEF SessionInv, BoardTypes, StreamInv, Listens
<1>3. UnderWay' = UnderWay /\ (Unstrayed' <=> Unstrayed)
  BY <1>1 DEF UnderWay, Unstrayed
<1>4. CASE Phone
  <2>1. Awaited'
    BY <1>1, <1>4 DEF Awaited, SessionInv, BoardTypes
  <2>. QED  BY <1>1, <1>2, <1>3, <2>1 DEF SessionInv, BoardTypes, FetchInv, Phone, OwnInv, Done, SyncInv
<1>5. CASE ~Phone
  <2>1. Awaited => Awaited'
    BY <1>1, <1>3, <1>5 DEF Awaited, Phone, Listens, Done
  <2>2. InStep => InStep'
    BY <1>1, <1>3 DEF InStep, Done, Unseen, InPlace, Listens
  <2>. QED  BY <1>1, <1>2, <1>3, <2>1, <2>2 DEF SessionInv, BoardTypes, FetchInv, Phone, OwnInv, Done, SyncInv
<1>. QED  BY <1>4, <1>5

LEMMA DropsKeeps == ASSUME SessionInv, StreamDrops PROVE SessionInv'
<1>1. /\ stream = "open" /\ stream' = "asking" /\ news' = 0 /\ Strays(client = "web" /\ news > 0)
      /\ UNCHANGED <<client, house, unsent, user, queued, shown, own>>
  BY DEF StreamDrops
<1>2. /\ fetches' \in [Slots -> FetchRows \cup {NoFetch}] /\ strayed' \in BOOLEAN /\ FetchInv'
      /\ Unstrayed' => ~(client = "web" /\ news > 0) /\ UNCHANGED <<fetches, strayed>> /\ Unstrayed
  BY <1>1, StraysOn DEF SessionInv
<1>3. StreamInv'
  BY <1>1 DEF SessionInv, BoardTypes, StreamInv, Listens
<1>4. ASSUME Unstrayed', user' # Nobody PROVE Awaited' \/ InStep'
  <2>1. UnderWay' = UnderWay /\ UNCHANGED <<fetches, strayed>>
    BY <1>2, <1>4 DEF UnderWay
  <2>2. CASE Phone
    BY <1>1, <2>2 DEF Awaited, Phone
  <2>3. CASE ~Phone
    <3>1. ~(news > 0)
      BY <1>1, <1>2, <1>4, <2>3 DEF SessionInv, BoardTypes, StreamInv, Phone, Listens
    <3>2. Awaited => Awaited'
      BY <1>1, <2>1, <2>3, <3>1 DEF Awaited, Phone, Listens, Done
    <3>3. InStep => InStep'
      BY <1>1, <2>1 DEF InStep, Done, Unseen, InPlace, Listens
    <3>. QED  BY <1>1, <1>2, <1>4, <3>2, <3>3 DEF SessionInv, SyncInv
  <2>. QED  BY <2>2, <2>3
<1>. QED  BY <1>1, <1>2, <1>3, <1>4 DEF SessionInv, BoardTypes, SyncInv, OwnInv, Done

LEMMA CallKeeps == ASSUME SessionInv, NEW k \in Kinds, OwnCall(k) PROVE SessionInv'
<1>1. /\ own = NoCall /\ user # Nobody
      /\ own' = [at |-> "sent", kind |-> k, of |-> user, got |-> Blank, late |-> FALSE]
      /\ UNCHANGED <<client, house, unsent, user, stream, news, fetches, queued, shown, strayed>>
  BY DEF OwnCall
<1>2. own' \in OwnRows /\ own'.at = "sent" /\ own'.of = user
  BY <1>1 DEF SessionInv, BoardTypes, OwnRows, Kinds, Payloads
<1>3. ~Done /\ ~Done' /\ OwnInv'
  BY <1>1, <1>2, BoardForms DEF Done, OwnInv
<1>4. UnderWay' = UnderWay /\ (Unstrayed' <=> Unstrayed)
  BY <1>1 DEF UnderWay, Unstrayed
<1>5. Awaited => Awaited'
  BY <1>1, <1>3, <1>4, BoardForms DEF Awaited, Listens, Phone
<1>6. InStep => InStep'
  BY <1>1, <1>3, <1>4 DEF InStep
<1>. QED  BY <1>1, <1>2, <1>3, <1>4, <1>5, <1>6
          DEF SessionInv, BoardTypes, StreamInv, FetchInv, SyncInv, Listens, Phone

LEMMA RefusedKeeps == ASSUME SessionInv, OwnRefused PROVE SessionInv'
<1>1. /\ own.at = "sent" /\ own' = NoCall
      /\ UNCHANGED <<client, house, unsent, user, stream, news, fetches, queued, shown, strayed>>
  BY DEF OwnRefused
<1>2. ~Done /\ ~Done' /\ OwnInv'
  BY <1>1, BoardForms DEF Done, OwnInv
<1>3. UnderWay' = UnderWay /\ (Unstrayed' <=> Unstrayed)
  BY <1>1 DEF UnderWay, Unstrayed
<1>4. Awaited => Awaited'
  BY <1>1, <1>2, <1>3, BoardForms DEF Awaited, Listens, Phone
<1>5. InStep => InStep'
  BY <1>1, <1>2, <1>3 DEF InStep
<1>. QED  BY <1>1, <1>2, <1>3, <1>4, <1>5
          DEF SessionInv, BoardTypes, StreamInv, FetchInv, SyncInv, Listens, Phone


LEMMA SameView ==
    ASSUME NEW x \in ViewRows, NEW y \in ViewRows,
           x.of = y.of, x.chore = y.chore, x.who = y.who, x.files = y.files, x.rest = y.rest,
           x.office = y.office, x.full = y.full
    PROVE  x = y
BY DEF ViewRows

LEMMA ChoreInPlace ==
    ASSUME NEW p \in ViewRows, NEW v \in ViewRows
    PROVE  LET q == [p EXCEPT !.chore = v.chore, !.who = v.who, !.files = v.files]
           IN  /\ q \in ViewRows
               /\ p.of = v.of /\ p.rest = v.rest /\ p.office = v.office /\ p.full = v.full => q = v
<1>1. PICK x : x = [p EXCEPT !.chore = v.chore]
  OBVIOUS
<1>2. /\ x \in ViewRows /\ x.of = p.of /\ x.rest = p.rest /\ x.office = p.office /\ x.full = p.full
      /\ x.chore = v.chore
  BY <1>1 DEF ViewRows
<1>3. PICK y : y = [x EXCEPT !.who = v.who]
  OBVIOUS
<1>4. /\ y \in ViewRows /\ y.of = p.of /\ y.rest = p.rest /\ y.office = p.office /\ y.full = p.full
      /\ y.chore = v.chore /\ y.who = v.who
  BY <1>2, <1>3 DEF ViewRows
<1>5. PICK z : z = [y EXCEPT !.files = v.files]
  OBVIOUS
<1>6. /\ z \in ViewRows /\ z.of = p.of /\ z.rest = p.rest /\ z.office = p.office /\ z.full = p.full
      /\ z.chore = v.chore /\ z.who = v.who /\ z.files = v.files
  BY <1>4, <1>5 DEF ViewRows
<1>7. z = [p EXCEPT !.chore = v.chore, !.who = v.who, !.files = v.files]
  BY <1>1, <1>3, <1>5
<1>. QED  BY <1>6, <1>7, SameView

LEMMA OfficeInPlace ==
    ASSUME NEW p \in ViewRows, NEW v \in ViewRows
    PROVE  LET q == [p EXCEPT !.office = v.office, !.full = v.full]
           IN  /\ q \in ViewRows
               /\ /\ p.of = v.of /\ p.rest = v.rest /\ p.chore = v.chore /\ p.who = v.who
                  /\ p.files = v.files
                  => q = v
<1>1. PICK x : x = [p EXCEPT !.office = v.office]
  OBVIOUS
<1>2. /\ x \in ViewRows /\ x.of = p.of /\ x.rest = p.rest /\ x.chore = p.chore /\ x.who = p.who
      /\ x.files = p.files /\ x.office = v.office
  BY <1>1 DEF ViewRows
<1>3. PICK z : z = [x EXCEPT !.full = v.full]
  OBVIOUS
<1>4. /\ z \in ViewRows /\ z.of = p.of /\ z.rest = p.rest /\ z.chore = p.chore /\ z.who = p.who
      /\ z.files = p.files /\ z.office = v.office /\ z.full = v.full
  BY <1>2, <1>3 DEF ViewRows
<1>5. z = [p EXCEPT !.office = v.office, !.full = v.full]
  BY <1>1, <1>3
<1>. QED  BY <1>4, <1>5, SameView

\* What one member sees of two states of the household.
LEMMA SeesAlike ==
    ASSUME NEW g \in HouseRows, NEW h \in HouseRows, NEW u \in Family, NEW p, p = View(g, u),
           NEW v, v = View(h, u)
    PROVE  /\ p.of = v.of /\ (g.rest = h.rest => p.rest = v.rest)
           /\ g.office = h.office /\ g.full = h.full => p.office = v.office /\ p.full = v.full
           /\ g.chore = h.chore /\ g.who = h.who /\ (u \in Young => g.full = h.full) =>
                p.chore = v.chore /\ p.who = v.who /\ p.files = v.files
<1>1. ASSUME g.chore = h.chore, g.who = h.who, u \in Young => g.full = h.full
      PROVE  p.chore = v.chore /\ p.who = v.who /\ p.files = v.files
  <2>1. Hidden(g, u) <=> Hidden(h, u)
    BY <1>1 DEF Hidden
  <2>. QED  BY <1>1, <2>1 DEF View
<1>. QED  BY <1>1 DEF View

LEMMA InPlaceTyped == ASSUME BoardTypes, Done, own.got \in ViewRows PROVE InPlace \in Payloads
<1>1. CASE shown = Blank
  BY <1>1 DEF InPlace, Payloads
<1>2. CASE shown \in ViewRows
  BY <1>2, ViewIs, ChoreInPlace, OfficeInPlace DEF InPlace, Payloads
<1>. QED  BY <1>1, <1>2 DEF BoardTypes, Payloads

LEMMA KindsAre == DOMAIN Handlers = {"act", "edit", "order", "set"}
BY DEF Handlers

LEMMA WritesKeeps == ASSUME SessionInv, OwnWrites PROVE SessionInv'
<1>1. PICK x \in OwnRows : x = own /\ x.at = "sent" /\ x.kind \in {"act", "edit", "order", "set"} /\ x.of \in Family
  BY BoardForms, KindsAre DEF OwnWrites, SessionInv, BoardTypes, OwnRows
<1>2. PICK a \in {"written", "answered"} : a = IF x.kind \in Publishes THEN "written" ELSE "answered"
  OBVIOUS
<1>3. PICK h \in HouseRows : /\ h = house'
                             /\ IF x.kind \in Publishes THEN h.office = house.office /\ h.full = house.full
                                ELSE /\ h.chore = house.chore /\ h.who = house.who
                                     /\ x.of \in Young => h.full = house.full
  <2>1. CASE x.kind \in Publishes
    BY <1>1, <2>1, ChoresChange DEF OwnWrites, SessionInv
  <2>2. CASE x.kind \notin Publishes
    BY <1>1, <2>2, OfficeChanges DEF OwnWrites, SessionInv
  <2>. QED  BY <2>1, <2>2
<1>4. PICK v \in ViewRows : v = View(h, x.of)
  BY <1>1, ViewIs
<1>5. PICK y \in OwnRows : /\ own' = y /\ y.at = a /\ y.got = v
                           /\ y.kind = x.kind /\ y.of = x.of /\ y.late = x.late
  <2>1. PICK z : z = [x EXCEPT !.at = a]
    OBVIOUS
  <2>2. z \in OwnRows /\ z.at = a /\ z.kind = x.kind /\ z.of = x.of /\ z.late = x.late
    BY <2>1 DEF OwnRows
  <2>3. PICK y : y = [z EXCEPT !.got = v]
    OBVIOUS
  <2>4. /\ y \in OwnRows /\ y.at = a /\ y.got = v
        /\ y.kind = x.kind /\ y.of = x.of /\ y.late = x.late
    BY <2>2, <2>3 DEF OwnRows, Payloads
  <2>5. own' = [x EXCEPT !.at = a, !.got = v]
    BY <1>1, <1>2, <1>3, <1>4 DEF OwnWrites
  <2>. QED  BY <2>1, <2>3, <2>4, <2>5
<1>6. Strays(Unseen /\ (UnderWay # {} \/ house'.rest # house.rest))
      /\ UNCHANGED <<client, unsent, user, stream, news, queued, shown>>
  BY DEF OwnWrites
<1>7. /\ fetches' \in [Slots -> FetchRows \cup {NoFetch}] /\ strayed' \in BOOLEAN /\ FetchInv'
      /\ Unstrayed' => /\ ~(Unseen /\ (UnderWay # {} \/ house'.rest # house.rest))
                       /\ UNCHANGED <<fetches, strayed>> /\ Unstrayed
  BY <1>6, StraysOn DEF SessionInv
<1>8. Done' /\ ~Done
  BY <1>1, <1>2, <1>5, BoardForms DEF Done
<1>9. OwnInv'
  <2>1. ~x.late => x.of = user
    BY <1>1, BoardForms DEF SessionInv, OwnInv
  <2>. QED  BY <1>2, <1>3, <1>4, <1>5, <1>6, <2>1 DEF OwnInv
<1>10. ASSUME Unstrayed', user' # Nobody PROVE Awaited' \/ InStep'
  <2>1. UnderWay' = UnderWay
    BY <1>7, <1>10 DEF UnderWay
  <2>2. CASE Awaited
    BY <1>1, <1>6, <1>8, <2>1, <2>2 DEF Awaited, Listens, Phone
  <2>3. CASE ~Unseen
    <3>1. x.kind \notin PutInPlace \/ (x.kind = "edit" /\ Listens)
      BY <1>1, <2>3 DEF Unseen, PutInPlace
    <3>2. CASE x.kind \in Publishes /\ Listens
      BY <1>2, <1>5, <1>6, <3>2 DEF Awaited, Listens
    <3>3. CASE x.kind \notin PutInPlace /\ (x.kind = "order" \/ ~Listens)
      BY <1>5, <1>6, <1>8, <3>3 DEF Awaited, Listens
    <3>. QED  BY <1>1, <3>1, <3>2, <3>3 DEF Publishes, PutInPlace
  <2>4. CASE Unseen /\ InStep
    <3>1. UnderWay = {} /\ h.rest = house.rest /\ shown = View(house, user)
      BY <1>3, <1>7, <1>8, <1>10, <2>4 DEF InStep
    <3>2. Unseen'
      BY <1>1, <1>5, <1>6, <2>4 DEF Unseen, Listens
    <3>3. CASE x.late
      BY <1>5, <1>8, <2>1, <3>1, <3>2, <3>3 DEF InStep
    <3>4. CASE ~x.late
      <4>1. x.of = user
        BY <1>1, <3>4, BoardForms DEF SessionInv, OwnInv
      <4>2. PICK p \in ViewRows : p = shown /\ p = View(house, user)
        BY <1>1, <3>1, <4>1, ViewIs DEF SessionInv, BoardTypes
      <4>3. shown' = p /\ p # Blank
        BY <1>6, <4>2, ViewIs
      <4>4. CASE x.kind = "edit"
        <5>1. [p EXCEPT !.chore = v.chore, !.who = v.who, !.files = v.files] = v
          <6>1. p.of = v.of /\ p.rest = v.rest /\ p.office = v.office /\ p.full = v.full
            BY <1>1, <1>3, <1>4, <3>1, <4>1, <4>2, <4>4, SeesAlike DEF Publishes, SessionInv, BoardTypes
          <6>. QED  BY <6>1, ChoreInPlace
        <5>2. InPlace' = v
          BY <1>5, <4>3, <4>4, <5>1 DEF InPlace
        <5>. QED  BY <1>3, <1>4, <1>6, <1>8, <2>1, <3>1, <3>2, <4>1, <5>2 DEF InStep
      <4>5. CASE x.kind = "set"
        <5>1. [p EXCEPT !.office = v.office, !.full = v.full] = v
          <6>1. p.of = v.of /\ p.rest = v.rest /\ p.chore = v.chore /\ p.who = v.who /\ p.files = v.files
            BY <1>1, <1>3, <1>4, <3>1, <4>1, <4>2, <4>5, SeesAlike DEF Publishes, SessionInv, BoardTypes
          <6>. QED  BY <6>1, OfficeInPlace
        <5>2. InPlace' = v
          BY <1>5, <4>3, <4>5, <5>1 DEF InPlace
        <5>. QED  BY <1>3, <1>4, <1>6, <1>8, <2>1, <3>1, <3>2, <4>1, <5>2 DEF InStep
      <4>. QED  BY <1>1, <2>4, <4>4, <4>5 DEF Unseen, PutInPlace
    <3>. QED  BY <3>3, <3>4
  <2>. QED  BY <1>6, <1>7, <1>10, <2>2, <2>3, <2>4 DEF SessionInv, SyncInv
<1>. QED  BY <1>3, <1>5, <1>6, <1>7, <1>9, <1>10 DEF SessionInv, BoardTypes, StreamInv, SyncInv, Listens

LEMMA PublishesKeeps == ASSUME SessionInv, OwnPublishes PROVE SessionInv'
<1>1. PICK x \in OwnRows : x = own /\ x.at = "written"
  BY BoardForms DEF OwnPublishes, SessionInv, BoardTypes
<1>2. PICK y : y = own' /\ y = [x EXCEPT !.at = "answered"]
  BY <1>1 DEF OwnPublishes
<1>3. /\ y \in OwnRows /\ y.at = "answered" /\ y.got = x.got
      /\ y.kind = x.kind /\ y.of = x.of /\ y.late = x.late
  BY <1>2 DEF OwnRows
<1>4. /\ news' = (IF stream = "open" THEN news + 1 ELSE news)
      /\ Strays(client = "web" /\ stream # "open")
      /\ UNCHANGED <<client, house, unsent, user, stream, queued, shown>>
  BY DEF OwnPublishes, PublishSyncEvent
<1>5. /\ fetches' \in [Slots -> FetchRows \cup {NoFetch}] /\ strayed' \in BOOLEAN /\ FetchInv'
      /\ Unstrayed' => ~(client = "web" /\ stream # "open") /\ UNCHANGED <<fetches, strayed>> /\ Unstrayed
  BY <1>4, StraysOn DEF SessionInv
<1>6. news' \in Nat /\ StreamInv'
  BY <1>4 DEF SessionInv, BoardTypes, StreamInv, Listens
<1>7. Done /\ Done' /\ OwnInv'
  BY <1>1, <1>2, <1>3, <1>4, BoardForms DEF Done, SessionInv, OwnInv
<1>8. ASSUME Unstrayed', user' # Nobody PROVE Awaited' \/ InStep'
  <2>1. UnderWay' = UnderWay /\ UNCHANGED <<fetches, strayed>>
    BY <1>5, <1>8 DEF UnderWay
  <2>2. CASE InStep
    <3>1. (Unseen <=> Unseen') /\ InPlace' = InPlace
      BY <1>1, <1>2, <1>3, <1>4 DEF Unseen, InPlace, Listens
    <3>. QED  BY <1>1, <1>2, <1>3, <1>4, <1>7, <2>1, <2>2, <3>1 DEF InStep
  <2>3. CASE Listens
    <3>1. stream = "open" \/ (stream = "asking" /\ Phone)
      BY <1>4, <1>5, <1>8, <2>3 DEF SessionInv, BoardTypes, StreamInv, Listens, Phone
    <3>2. CASE stream = "open"
      BY <1>4, <3>2 DEF Awaited, SessionInv, BoardTypes
    <3>3. CASE stream = "asking" /\ Phone
      BY <1>4, <3>3 DEF Awaited, Phone
    <3>. QED  BY <3>1, <3>2, <3>3
  <2>4. CASE ~Listens /\ Awaited
    <3>1. news = 0 /\ ~Phone
      BY <2>4 DEF SessionInv, BoardTypes, StreamInv, Listens, Phone
    <3>. QED  BY <1>1, <1>2, <1>3, <1>4, <1>7, <2>4, <3>1 DEF Awaited, Listens
  <2>. QED  BY <1>4, <1>5, <1>8, <2>2, <2>3, <2>4 DEF SessionInv, SyncInv
<1>. QED  BY <1>2, <1>3, <1>4, <1>5, <1>6, <1>7, <1>8 DEF SessionInv, BoardTypes, SyncInv

LEMMA AfreshKeeps ==
    ASSUME SessionInv, Done, ShownAfresh, own' = NoCall,
           UNCHANGED <<client, house, unsent, user, stream, news>>
    PROVE  SessionInv'
<1>1. own \in OwnRows /\ own.of \in Family /\ own.got \in ViewRows
  BY DEF Done, SessionInv, BoardTypes, OwnRows, OwnInv
<1>2. shown' \in Payloads
  <2>1. CASE shown' = shown
    BY <2>1 DEF SessionInv, BoardTypes
  <2>2. CASE shown # Blank /\ shown' = [shown EXCEPT !.chore = own.got.chore, !.who = own.got.who]
    <3>1. PICK p \in ViewRows, v \in ViewRows : p = shown /\ v = own.got
      BY <1>1, <2>2 DEF SessionInv, BoardTypes, Payloads
    <3>2. PICK q : q = [p EXCEPT !.chore = v.chore]
      OBVIOUS
    <3>3. q \in ViewRows
      BY <3>2 DEF ViewRows
    <3>4. shown' = [q EXCEPT !.who = v.who]
      BY <2>2, <3>1, <3>2
    <3>5. v.who \in Family \cup {Nobody}
      BY DEF ViewRows
    <3>6. shown' \in ViewRows
      BY <3>3, <3>4, <3>5 DEF ViewRows
    <3>. QED  BY <3>6 DEF Payloads
  <2>. QED  BY <2>1, <2>2 DEF ShownAfresh
<1>3. StreamInv' /\ OwnInv'
  BY BoardForms DEF SessionInv, StreamInv, OwnInv, Listens, Done
<1>. QED  BY <1>1, <1>2, <1>3, AsksKeeps DEF ShownAfresh, SessionInv, BoardTypes

LEMMA InPlaceKeeps ==
    ASSUME SessionInv, own.at = "answered", ShownInPlace, own' = NoCall,
           UNCHANGED <<client, house, unsent, user, stream, news>>
    PROVE  SessionInv'
<1>1. Done /\ own \in OwnRows /\ own.got \in ViewRows /\ own.kind \in PutInPlace
  BY BoardForms DEF Done, SessionInv, BoardTypes, OwnRows, OwnInv, ShownInPlace
<1>2. shown' = InPlace /\ Strays(own.late) /\ queued' = queued
  BY DEF ShownInPlace, InPlace
<1>3. shown' \in Payloads
  BY <1>1, <1>2, InPlaceTyped DEF SessionInv
<1>4. /\ fetches' \in [Slots -> FetchRows \cup {NoFetch}] /\ strayed' \in BOOLEAN /\ FetchInv'
      /\ Unstrayed' => ~own.late /\ UNCHANGED <<fetches, strayed>> /\ Unstrayed
  BY <1>2, StraysOn DEF SessionInv
<1>5. ~Done' /\ StreamInv' /\ OwnInv'
  BY BoardForms DEF SessionInv, StreamInv, OwnInv, Listens, Done
<1>6. ASSUME Unstrayed', user' # Nobody PROVE Awaited' \/ InStep'
  <2>1. UnderWay' = UnderWay /\ UNCHANGED <<fetches, strayed>>
    BY <1>4, <1>6 DEF UnderWay
  <2>2. CASE Awaited
    BY <1>1, <1>2, <2>1, <2>2 DEF Awaited, Phone, Listens
  <2>3. CASE InStep
    <3>1. own.got = View(house, user) /\ user \in Family
      BY <1>1, <1>4, <1>6 DEF SessionInv, BoardTypes, OwnInv
    <3>2. shown = View(house, user) => InPlace = View(house, user)
      <4>1. SUFFICES ASSUME shown = View(house, user) PROVE InPlace = View(house, user)
        OBVIOUS
      <4>2. PICK p \in ViewRows : p = shown /\ p = own.got
        BY <1>1, <3>1, <4>1
      <4>. QED  BY <3>1, <4>2, ChoreInPlace, OfficeInPlace, ViewIs DEF InPlace
    <3>3. UnderWay = {} => InPlace = View(house, user)
      BY <1>4, <1>6, <2>3, <3>2 DEF InStep
    <3>. QED  BY <1>2, <2>1, <2>3, <3>3 DEF InStep
  <2>. QED  BY <1>4, <1>6, <2>2, <2>3 DEF SessionInv, SyncInv
<1>. QED  BY <1>2, <1>3, <1>4, <1>5, <1>6 DEF SessionInv, BoardTypes, SyncInv

LEMMA AnsweredKeeps == ASSUME SessionInv, OwnAnswered PROVE SessionInv'
<1>1. Done
  BY BoardForms DEF OwnAnswered, Done
<1>. QED  BY <1>1, AfreshKeeps, InPlaceKeeps DEF OwnAnswered

LEMMA LostKeeps == ASSUME SessionInv, OwnLost PROVE SessionInv'
<1>1. PICK x \in OwnRows : x = own /\ x.at = "answered" /\ x.kind \in {"act", "edit", "order", "set"}
  BY BoardForms, KindsAre DEF OwnLost, SessionInv, BoardTypes, OwnRows
<1>2. /\ Strays(own.kind \notin Publishes \/ ~Listens)
      /\ UNCHANGED <<client, house, unsent, user, stream, news, queued, shown>>
  BY DEF OwnLost
<1>3. /\ fetches' \in [Slots -> FetchRows \cup {NoFetch}] /\ strayed' \in BOOLEAN /\ FetchInv'
      /\ Unstrayed' => own.kind \in Publishes /\ Listens /\ UNCHANGED <<fetches, strayed>> /\ Unstrayed
  BY <1>2, StraysOn DEF SessionInv
<1>4. /\ own' \in OwnRows \cup {NoCall} /\ own'.at \in {"free", "sent"}
      /\ own' # NoCall => own'.of = x.of /\ own'.late = x.late
  <2>1. CASE own' = NoCall
    BY <2>1, BoardForms
  <2>2. CASE own' = [x EXCEPT !.at = "sent", !.got = Blank]
    <3>1. PICK z : z = [x EXCEPT !.at = "sent"]
      OBVIOUS
    <3>2. z \in OwnRows /\ z.at = "sent" /\ z.of = x.of /\ z.late = x.late
      BY <3>1 DEF OwnRows
    <3>3. own' = [z EXCEPT !.got = Blank]
      BY <2>2, <3>1
    <3>. QED  BY <3>2, <3>3 DEF OwnRows, Payloads
  <2>. QED  BY <1>1, <2>1, <2>2 DEF OwnLost
<1>5. ~Done' /\ OwnInv'
  BY <1>1, <1>2, <1>4, BoardForms DEF SessionInv, OwnInv, Done
<1>6. ASSUME Unstrayed', user' # Nobody PROVE Awaited' \/ InStep'
  <2>1. UnderWay' = UnderWay /\ UNCHANGED <<fetches, strayed>>
    BY <1>3, <1>6 DEF UnderWay
  <2>2. x.kind \in {"act", "edit"} /\ Listens
    BY <1>1, <1>3, <1>6 DEF Publishes
  <2>3. CASE Awaited
    BY <1>1, <1>2, <2>1, <2>2, <2>3 DEF Awaited, Phone, Listens
  <2>4. CASE InStep
    <3>1. ~Unseen
      BY <1>1, <2>2 DEF Unseen
    <3>. QED  BY <1>2, <2>1, <2>4, <3>1 DEF InStep
  <2>. QED  BY <1>2, <1>3, <1>6, <2>3, <2>4 DEF SessionInv, SyncInv
<1>. QED  BY <1>2, <1>3, <1>4, <1>5, <1>6 DEF SessionInv, BoardTypes, StreamInv, SyncInv, Listens

LEMMA LogOutKeeps == ASSUME SessionInv, LogOut PROVE SessionInv'
<1>1. /\ user' = Nobody /\ stream' = "closed" /\ news' = 0
      /\ shown' = (IF Phone THEN shown ELSE Blank)
      /\ own' = (IF own = NoCall THEN NoCall ELSE Late)
      /\ Strays(UnderWay # {} \/ own # NoCall)
      /\ UNCHANGED <<client, house, unsent, queued>>
  BY DEF LogOut
<1>2. fetches' \in [Slots -> FetchRows \cup {NoFetch}] /\ strayed' \in BOOLEAN /\ FetchInv'
  BY <1>1, StraysOn DEF SessionInv
<1>3. own' \in OwnRows \cup {NoCall} /\ OwnInv'
  <2>1. CASE own = NoCall
    BY <1>1, <2>1, BoardForms DEF OwnInv, Done
  <2>2. CASE own \in OwnRows
    <3>1. PICK x, y : x = own /\ x \in OwnRows /\ y = own' /\ y = [x EXCEPT !.late = TRUE]
      BY <1>1, <2>2, BoardForms DEF Late
    <3>2. /\ y \in OwnRows /\ y.late /\ y.at = x.at /\ y.kind = x.kind /\ y.got = x.got
      BY <3>1, LateIs
    <3>. QED  BY <3>1, <3>2, BoardForms DEF SessionInv, OwnInv, Done
  <2>. QED  BY <2>1, <2>2 DEF SessionInv, BoardTypes
<1>4. shown' \in Payloads
  BY <1>1 DEF SessionInv, BoardTypes, Payloads
<1>. QED  BY <1>1, <1>2, <1>3, <1>4 DEF SessionInv, BoardTypes, StreamInv, SyncInv

LEMMA BoardBegins == ServerInit => SessionInv
<1>1. SUFFICES ASSUME ServerInit PROVE SessionInv
  OBVIOUS
<1>2. client \in {"web", "admin", "phone"} /\ house \in HouseRows
  BY <1>1, ServerAssumption DEF ServerInit, Init, Orderly
<1>3. \A i \in Slots : fetches[i] = NoFetch
  BY <1>1 DEF ServerInit, DashboardInit
<1>4. /\ unsent = FALSE /\ user = Nobody /\ stream = "closed" /\ news = 0 /\ queued = FALSE
      /\ shown = Blank /\ own = NoCall /\ strayed = FALSE /\ fetches = [i \in Slots |-> NoFetch]
  BY <1>1 DEF ServerInit, DashboardInit
<1>5. UnderWay = {}
  BY <1>3 DEF UnderWay
<1>6. BoardTypes
  BY <1>2, <1>4 DEF BoardTypes, Payloads
<1>7. StreamInv /\ FetchInv
  BY <1>4, <1>5 DEF StreamInv, FetchInv
<1>8. OwnInv
  BY <1>4, BoardForms DEF OwnInv, Done
<1>. QED  BY <1>4, <1>6, <1>7, <1>8 DEF SessionInv, SyncInv

LEMMA BoardStays == ASSUME SessionInv, UNCHANGED dashboard PROVE SessionInv'
<1>1. /\ UnderWay' = UnderWay /\ (Done' <=> Done) /\ (Unseen' <=> Unseen) /\ InPlace' = InPlace
      /\ (Unstrayed' <=> Unstrayed)
  BY DEF dashboard, UnderWay, Done, Unseen, InPlace, Unstrayed, Listens
<1>. QED  BY <1>1 DEF dashboard, SessionInv, BoardTypes, StreamInv, FetchInv, OwnInv, SyncInv, Awaited, InStep,
                      Phone, Listens

LEMMA BoardStepKeeps == ASSUME SessionInv, NEW S, [DashboardNext(S)]_dashboard PROVE SessionInv'
BY ReadsKeeps, ArrivesKeeps, FailsKeeps, OthersWriteKeeps, OthersPublishKeeps, OthersSetKeeps, RestartKeeps,
   OpensKeeps, DropsKeeps, HearKeeps, NudgeKeeps, CallKeeps, WritesKeeps, PublishesKeeps, AnsweredKeeps,
   RefusedKeeps, LostKeeps, LogInKeeps, LogOutKeeps, BoardStays DEF DashboardNext

LEMMA BoardKept == ServerSpec => []SessionInv
<1>1. SessionInv /\ [ServerNext]_<<vars, parts>> => SessionInv'
  BY BoardMoves, BoardStepKeeps
<1>. QED  BY <1>1, BoardBegins, PTL DEF ServerSpec

LEMMA BoardHolds == SessionInv => BoardFollows
<1>1. SUFFICES ASSUME SessionInv, Settled, ~strayed PROVE shown = View(house, user)
  BY DEF BoardFollows
<1>2. Listens \/ ~Phone
  BY DEF Listens, Phone
<1>3. ~Awaited /\ ~Done
  BY <1>1, <1>2, BoardForms DEF Awaited, Done, Settled
<1>. QED  BY <1>1, <1>3 DEF SessionInv, SyncInv, Unstrayed, InStep, Settled

\* A session at rest that nothing has strayed shows what the server stores, as its user
\* may see it: whatever the order of events, refreshes, answers, restarts and log-outs.
THEOREM BoardKeepsUp == ServerSpec => []BoardFollows
BY BoardKept, BoardHolds, PTL

\* Such a board offers no file that its user would be refused.
THEOREM ShownFilesServed == ServerSpec => []ShownFilesOpen
<1>1. SessionInv => ShownFilesOpen
  <2>1. SUFFICES ASSUME SessionInv, Settled, ~strayed, shown.files PROVE MayOpen(user)
    BY DEF ShownFilesOpen
  <2>2. shown = View(house, user)
    BY <2>1, BoardHolds DEF BoardFollows
  <2>3. ~Hidden(house, user)
    BY <2>1, <2>2 DEF View
  <2>. QED  BY <2>3 DEF Hidden, MayOpen
<1>. QED  BY <1>1, BoardKept, PTL

\* Changes end at their bounds.
WithinBounds == house.chore <= MaxRev /\ house.office <= MaxOffice

LEMMA ChangesBounded ==
    ASSUME house \in HouseRows, WithinBounds, ChangeChores \/ \E by : ChangeOffice(by)
    PROVE  WithinBounds'
<1>1. PICK h \in HouseRows : h = house
  OBVIOUS
<1>2. h.chore \in Nat /\ h.office \in Nat /\ h.chore <= MaxRev /\ h.office <= MaxOffice
  BY <1>1 DEF HouseRows, WithinBounds
<1>3. ASSUME ChangeChores PROVE WithinBounds'
  <2>1. PICK w \in Family, more \in {house.rest, house.chore + 1} :
            house' = [h EXCEPT !.chore = h.chore + 1, !.who = w, !.rest = more]
    BY <1>1, <1>3 DEF ChangeChores
  <2>2. house'.chore = h.chore + 1 /\ house'.office = h.office
    BY <2>1 DEF HouseRows
  <2>3. h.chore < MaxRev
    BY <1>1, <1>3 DEF ChangeChores
  <2>. QED  BY <1>2, <2>2, <2>3, DashboardAssumption DEF WithinBounds
<1>4. ASSUME NEW by, ChangeOffice(by) PROVE WithinBounds'
  <2>1. PICK full, more : house' = [h EXCEPT !.office = h.office + 1, !.full = full, !.rest = more]
    BY <1>1, <1>4 DEF ChangeOffice
  <2>2. house'.office = h.office + 1 /\ house'.chore = h.chore
    BY <2>1 DEF HouseRows
  <2>3. h.office < MaxOffice
    BY <1>1, <1>4 DEF ChangeOffice
  <2>. QED  BY <1>2, <2>2, <2>3, DashboardAssumption DEF WithinBounds
<1>. QED  BY <1>3, <1>4

LEMMA BoundsStep == ASSUME SessionInv, WithinBounds, NEW S, [DashboardNext(S)]_dashboard PROVE WithinBounds'
<1>1. CASE UNCHANGED house
  BY <1>1 DEF WithinBounds
<1>2. CASE OthersWrite \/ OthersSet \/ OwnWrites
  BY <1>2, ChangesBounded DEF OthersWrite, OthersSet, OwnWrites, SessionInv, BoardTypes
<1>3. CASE \E i \in Slots : FetchReads(i) \/ FetchArrives(i) \/ FetchFails(i)
  BY <1>1, <1>3 DEF FetchReads, FetchArrives, FetchFails
<1>4. CASE OthersPublish \/ ServerRestarts \/ StreamOpens \/ StreamDrops \/ Hear \/ Nudge
  BY <1>1, <1>4 DEF OthersPublish, ServerRestarts, StreamOpens, StreamDrops, Hear, Nudge
<1>5. CASE (\E k \in Kinds : OwnCall(k)) \/ OwnPublishes \/ OwnAnswered \/ OwnRefused \/ OwnLost
  BY <1>1, <1>5 DEF OwnCall, OwnPublishes, OwnAnswered, OwnRefused, OwnLost
<1>6. CASE (\E u \in Family : LogIn(u)) \/ LogOut
  BY <1>1, <1>6 DEF LogIn, LogOut
<1>7. CASE UNCHANGED dashboard
  BY <1>1, <1>7 DEF dashboard
<1>. QED  BY <1>2, <1>3, <1>4, <1>5, <1>6, <1>7 DEF DashboardNext

LEMMA DashboardTyped == ServerSpec => []DashboardTypeOK
<1>1. ServerInit => WithinBounds
  <2>1. SUFFICES ASSUME ServerInit PROVE WithinBounds
    OBVIOUS
  <2>2. Orderly(scene) /\ house = scene.house
    BY <2>1, ServerAssumption DEF ServerInit, Init
  <2>. QED  BY <2>2 DEF Orderly, WithinBounds
<1>2. SessionInv /\ WithinBounds /\ [ServerNext]_<<vars, parts>> => WithinBounds'
  BY BoardMoves, BoundsStep
<1>3. SessionInv /\ WithinBounds => DashboardTypeOK
  <2>1. SUFFICES ASSUME SessionInv, WithinBounds PROVE DashboardTypeOK
    OBVIOUS
  <2>2. house.chore \in Nat /\ house.office \in Nat
    BY <2>1 DEF SessionInv, BoardTypes, HouseRows
  <2>3. house.chore \in 0..MaxRev /\ house.office \in 0..MaxOffice
    BY <2>1, <2>2, DashboardAssumption DEF WithinBounds
  <2>4. /\ client \in {"web", "admin", "phone"} /\ user \in Family \cup {Nobody}
        /\ stream \in {"closed", "asking", "open"} /\ news \in Nat
        /\ {unsent, queued, strayed} \subseteq BOOLEAN
    BY <2>1 DEF SessionInv, BoardTypes
  <2>5. (\A i, j \in UnderWay : Phone => i = j) /\ (Phone \/ ~queued)
    BY <2>1 DEF SessionInv, FetchInv
  <2>. QED  BY <2>3, <2>4, <2>5 DEF DashboardTypeOK
<1>. QED  BY <1>1, <1>2, <1>3, BoardKept, PTL DEF ServerSpec

-----------------------------------------------------------------------------
\* The calendar of a series.

\* A loop that only goes up comes to an end.
LEMMA LoopEnds ==
    ASSUME NEW F \in [Nat -> Nat], \A u \in Nat : F[u] > u, NEW least \in Nat
    PROVE  \E g : g = [u \in Nat |-> IF u >= least THEN u ELSE g[F[u]]]
<1>. DEFINE Good(n, g) == \A u \in Nat : u + n >= least => g[u] = IF u >= least THEN u ELSE g[F[u]]
            S == {n \in Nat : \E g \in [Nat -> Nat] : Good(n, g)}
<1>1. 0 \in S
  <2>1. Good(0, [u \in Nat |-> u])
    OBVIOUS
  <2>2. [u \in Nat |-> u] \in [Nat -> Nat]
    OBVIOUS
  <2>. QED  BY <2>1, <2>2
<1>2. ASSUME NEW n \in S PROVE n + 1 \in S
  <2>1. PICK g \in [Nat -> Nat] : Good(n, g)
    OBVIOUS
  <2>. DEFINE h == [u \in Nat |-> IF u >= least THEN u ELSE g[F[u]]]
  <2>2. h \in [Nat -> Nat]
    OBVIOUS
  <2>3. ASSUME NEW u \in Nat, u + n >= least PROVE h[u] = g[u]
    BY <2>1, <2>3
  <2>4. ASSUME NEW u \in Nat, u + (n + 1) >= least PROVE h[u] = IF u >= least THEN u ELSE h[F[u]]
    <3>1. F[u] \in Nat /\ F[u] + n >= least
      BY <2>4
    <3>2. h[F[u]] = g[F[u]]
      BY <3>1, <2>3
    <3>. QED  BY <3>2
  <2>5. Good(n + 1, h)
    BY <2>4
  <2>. HIDE DEF Good, h
  <2>. QED  BY <2>2, <2>5
<1>3. least \in S
  <2>1. S = Nat
    <3>. HIDE DEF S
    <3>1. S \in SUBSET Nat
      BY DEF S
    <3>. QED  BY <3>1, <1>1, <1>2, Climb
  <2>. QED  BY <2>1
<1>4. PICK g \in [Nat -> Nat] : Good(least, g)
  BY <1>3
<1>5. g = [u \in Nat |-> IF u >= least THEN u ELSE g[F[u]]]
  BY <1>4
<1>. QED  BY <1>5

\* Where it ends: at the first time that is late enough, in every set that it stays in.
LEMMA Arrives ==
    ASSUME \A u \in Nat : Following(u) \in Nat /\ Following(u) > u, NEW least \in Nat,
           NEW S \in SUBSET Nat, \A u \in S : u < least => Following(u) \in S, NEW t \in S
    PROVE  /\ AtLeast(t, least) \in S /\ AtLeast(t, least) >= least
           /\ t >= least => AtLeast(t, least) = t
           /\ t < least => \E u \in S : u < least /\ AtLeast(t, least) = Following(u)
<1>. DEFINE from == CHOOSE g : g = [u \in Nat |-> IF u >= least THEN u ELSE g[Following(u)]]
            F == [u \in Nat |-> Following(u)]
<1>1. \E g : g = [u \in Nat |-> IF u >= least THEN u ELSE g[F[u]]]
  <2>1. F \in [Nat -> Nat] /\ \A u \in Nat : F[u] > u
    OBVIOUS
  <2>. HIDE DEF F
  <2>. QED  BY <2>1, LoopEnds
<1>2. \E g : g = [u \in Nat |-> IF u >= least THEN u ELSE g[Following(u)]]
  BY <1>1
<1>3. from = [u \in Nat |-> IF u >= least THEN u ELSE from[Following(u)]]
  BY <1>2
<1>4. AtLeast(t, least) = from[t]
  BY DEF AtLeast
<1>. HIDE DEF from
<1>. DEFINE Fine(u) == /\ from[u] \in S /\ from[u] >= least
                       /\ u >= least => from[u] = u
                       /\ u < least => \E v \in S : v < least /\ from[u] = Following(v)
            N == {n \in Nat : \A u \in S : u + n >= least => Fine(u)}
<1>5. 0 \in N
  BY <1>3
<1>6. ASSUME NEW n \in N PROVE n + 1 \in N
  <2>1. ASSUME NEW u \in S, u + (n + 1) >= least, u < least PROVE Fine(u)
    <3>1. Following(u) \in S /\ Following(u) + n >= least
      BY <2>1
    <3>2. from[u] = from[Following(u)]
      BY <1>3, <2>1
    <3>3. Fine(Following(u))
      BY <3>1
    <3>4. CASE Following(u) >= least
      BY <3>2, <3>3, <3>4, <2>1
    <3>5. CASE Following(u) < least
      BY <3>2, <3>3, <3>5, <2>1
    <3>. QED  BY <3>1, <3>4, <3>5
  <2>2. ASSUME NEW u \in S, u >= least PROVE Fine(u)
    BY <1>3, <2>2
  <2>. QED  BY <2>1, <2>2
<1>7. N = Nat
  <2>1. N \in SUBSET Nat
    OBVIOUS
  <2>. HIDE DEF N
  <2>. QED  BY <2>1, <1>5, <1>6, Climb
<1>8. Fine(t)
  <2>1. least \in N
    BY <1>7
  <2>. QED  BY <2>1
<1>. QED  BY <1>4, <1>8
-----------------------------------------------------------------------------
\* The months.
LEMMA YearExists ==
    \E f : f = [m \in 0..Len(Months) |-> IF m = 0 THEN 0 ELSE f[m - 1] + Months[m]] /\ f \in [0..Len(Months) -> Nat]
<1>1. Len(Months) \in Nat /\ \A m \in 1..Len(Months) : Months[m] \in Nat
  BY CalendarAssumption
<1>. DEFINE Good(n, f) == \A m \in 0..Len(Months) : m <= n => f[m] = IF m = 0 THEN 0 ELSE f[m - 1] + Months[m]
            S == {n \in Nat : \E f \in [0..Len(Months) -> Nat] : Good(n, f)}
<1>2. 0 \in S
  <2>1. Good(0, [m \in 0..Len(Months) |-> 0])
    BY <1>1
  <2>2. [m \in 0..Len(Months) |-> 0] \in [0..Len(Months) -> Nat]
    OBVIOUS
  <2>. QED  BY <2>1, <2>2
<1>3. ASSUME NEW n \in S PROVE n + 1 \in S
  <2>1. PICK f \in [0..Len(Months) -> Nat] : Good(n, f)
    OBVIOUS
  <2>. DEFINE h == [m \in 0..Len(Months) |-> IF m = 0 THEN 0 ELSE f[m - 1] + Months[m]]
  <2>2. h \in [0..Len(Months) -> Nat]
    BY <1>1
  <2>3. ASSUME NEW m \in 0..Len(Months), m <= n PROVE h[m] = f[m]
    BY <2>1, <2>3
  <2>4. ASSUME NEW m \in 0..Len(Months), m <= n + 1 PROVE h[m] = IF m = 0 THEN 0 ELSE h[m - 1] + Months[m]
    <3>1. CASE m = 0
      BY <3>1
    <3>2. CASE m # 0
      <4>1. m - 1 \in 0..Len(Months) /\ m - 1 <= n
        BY <3>2, <2>4, <1>1
      <4>2. h[m - 1] = f[m - 1]
        BY <4>1, <2>3
      <4>. QED  BY <3>2, <4>2
    <3>. QED  BY <3>1, <3>2
  <2>5. Good(n + 1, h)
    BY <2>4
  <2>. HIDE DEF Good, h
  <2>. QED  BY <2>2, <2>5
<1>4. S = Nat
  <2>1. S \in SUBSET Nat
    OBVIOUS
  <2>. HIDE DEF S
  <2>. QED  BY <2>1, <1>2, <1>3, Climb
<1>5. PICK f \in [0..Len(Months) -> Nat] : Good(Len(Months), f)
  BY <1>1, <1>4
<1>6. f = [m \in 0..Len(Months) |-> IF m = 0 THEN 0 ELSE f[m - 1] + Months[m]]
  BY <1>1, <1>5
<1>. QED  BY <1>6

LEMMA Year ==
    /\ Len(Months) \in Nat \ {0} /\ \A m \in 1..Len(Months) : Months[m] \in 28..31
    /\ FirstOf[0] = 0 /\ \A m \in 0..Len(Months) : FirstOf[m] \in Nat
    /\ \A m \in 0..(Len(Months) - 1) : FirstOf[m + 1] = FirstOf[m] + Months[m + 1]
<1>. DEFINE Is(f) == f = [m \in 0..Len(Months) |-> IF m = 0 THEN 0 ELSE f[m - 1] + Months[m]]
<1>1. Len(Months) \in Nat /\ \A m \in 1..Len(Months) : Months[m] \in 28..31
  BY CalendarAssumption
<1>2. FirstOf = CHOOSE f : Is(f)
  BY DEF FirstOf
<1>3. Is(FirstOf)
  BY YearExists, <1>2
<1>4. FirstOf[0] = 0 /\ \A m \in 1..Len(Months) : FirstOf[m] = FirstOf[m - 1] + Months[m]
  BY <1>1, <1>3
<1>. HIDE DEF Is
<1>5. \A m \in 0..(Len(Months) - 1) : FirstOf[m + 1] = FirstOf[m] + Months[m + 1]
  <2>1. ASSUME NEW m \in 0..(Len(Months) - 1) PROVE m + 1 \in 1..Len(Months) /\ (m + 1) - 1 = m
    BY <1>1
  <2>. QED  BY <1>4, <2>1
<1>. DEFINE S == {n \in Nat : n <= Len(Months) => FirstOf[n] \in Nat}
<1>6. 0 \in S
  BY <1>4
<1>7. ASSUME NEW n \in S PROVE n + 1 \in S
  BY <1>1, <1>5
<1>8. S = Nat
  <2>1. S \in SUBSET Nat
    OBVIOUS
  <2>. HIDE DEF S
  <2>. QED  BY <2>1, <1>6, <1>7, Climb
<1>9. \A m \in 0..Len(Months) : FirstOf[m] \in Nat
  BY <1>1, <1>8
<1>10. Len(Months) # 0
  BY <1>4, MonthsAssumption, CalendarAssumption DEF StartOf
<1>. QED  BY <1>1, <1>4, <1>5, <1>9, <1>10

\* The months come one after the other.
LEMMA Later == ASSUME NEW m \in 0..Len(Months), NEW n \in 0..Len(Months), m < n PROVE FirstOf[m] + 28 <= FirstOf[n]
<1>. DEFINE S == {k \in Nat : m + 1 + k <= Len(Months) => FirstOf[m] + 28 <= FirstOf[m + 1 + k]}
<1>1. 0 \in S
  <2>1. m + 1 <= Len(Months) => FirstOf[m + 1] = FirstOf[m] + Months[m + 1] /\ Months[m + 1] \in 28..31
    BY Year
  <2>2. FirstOf[m] \in Nat
    BY Year
  <2>. QED  BY <2>1, <2>2
<1>2. ASSUME NEW k \in S, m + 1 + (k + 1) <= Len(Months) PROVE FirstOf[m] + 28 <= FirstOf[m + 1 + (k + 1)]
  <2>1. m + 1 + k \in 0..(Len(Months) - 1) /\ (m + 1 + k) + 1 = m + 1 + (k + 1) /\ (m + 1 + k) + 1 \in 1..Len(Months)
    BY <1>2, Year
  <2>2. FirstOf[(m + 1 + k) + 1] = FirstOf[m + 1 + k] + Months[(m + 1 + k) + 1]
    BY <2>1, Year
  <2>3. FirstOf[m] \in Nat /\ FirstOf[m + 1 + k] \in Nat /\ Months[(m + 1 + k) + 1] \in 28..31
    BY <2>1, Year
  <2>. QED  BY <1>2, <2>1, <2>2, <2>3
<1>3. S = Nat
  <2>1. S \in SUBSET Nat
    OBVIOUS
  <2>2. ASSUME NEW k \in S PROVE k + 1 \in S
    BY <1>2, <2>2
  <2>. HIDE DEF S
  <2>. QED  BY <2>1, <2>2, <1>1, Climb
<1>4. PICK k \in Nat : n = m + 1 + k
  <2>1. n - (m + 1) \in Nat /\ n = m + 1 + (n - (m + 1))
    BY Year
  <2>. QED  BY <2>1
<1>5. k \in S
  BY <1>3
<1>. QED  BY <1>4, <1>5, Year

\* A day is in the last month that has begun.
LEMMA InMonth ==
    ASSUME NEW t \in Nat
    PROVE  /\ MonthOf(t) \in 0..(Len(Months) - 1) /\ FirstOf[MonthOf(t)] <= Day(t)
           /\ \A m \in 0..(Len(Months) - 1) : FirstOf[m] <= Day(t) => m <= MonthOf(t)
<1>. DEFINE B == {m \in 0..(Len(Months) - 1) : FirstOf[m] <= Day(t)}
            R == {k \in Nat : k <= Len(Months) - 1 /\ FirstOf[Len(Months) - 1 - k] <= Day(t)}
<1>1. Day(t) \in Nat
  BY DEF Day
<1>2. Len(Months) - 1 \in R
  BY <1>1, Year
<1>3. PICK k \in R : \A j \in R : k <= j
  <2>1. R \in SUBSET Nat /\ R # {}
    BY <1>2
  <2>. HIDE DEF R
  <2>. QED  BY <2>1, Smallest
<1>4. ASSUME NEW m \in B PROVE m <= Len(Months) - 1 - k
  <2>1. Len(Months) - 1 - m \in R
    <3>1. Len(Months) - 1 - (Len(Months) - 1 - m) = m /\ Len(Months) - 1 - m \in Nat
      BY Year
    <3>. QED  BY <3>1, Year
  <2>2. k <= Len(Months) - 1 - m
    BY <1>3, <2>1
  <2>. QED  BY <2>2, Year
<1>5. Len(Months) - 1 - k \in B
  BY Year
<1>6. MonthOf(t) \in B /\ \A m \in B : m <= MonthOf(t)
  <2>1. MonthOf(t) = CHOOSE x \in B : \A y \in B : x >= y
    BY DEF MonthOf, Max
  <2>2. \E x \in B : \A y \in B : x >= y
    <3>1. \A y \in B : Len(Months) - 1 - k >= y
      BY <1>4, Year
    <3>. QED  BY <1>5, <3>1
  <2>3. MonthOf(t) \in B /\ \A y \in B : MonthOf(t) >= y
    <3>. HIDE DEF B
    <3>. QED  BY <2>1, <2>2
  <2>. QED  BY <2>3, Year
<1>. QED  BY <1>6

-----------------------------------------------------------------------------
\* The next occurrence.
Repeating == repeat \in Repeat /\ Recurs

LEMMA Recurrences == ASSUME Repeating
    PROVE /\ repeat.type \in {"daily", "weekly", "monthly", "every x days", "custom weekly"}
          /\ repeat.every \in Nat \ {0} /\ repeat.days \subseteq 0..6
          /\ repeat.type = "custom weekly" => repeat.days # {}
BY DEF Repeating, Recurs, Repeat, Types

LEMMA Earliest == ASSUME NEW S \in SUBSET Nat, S # {} PROVE Min(S) \in S /\ \A n \in S : Min(S) <= n
BY Smallest DEF Min

LEMMA DaysOn == ASSUME NEW t \in Nat, NEW k \in Nat PROVE Day(t + 2 * k) = Day(t) + k /\ Day(t) \in Nat
BY DEF Day

\* One of the next seven days is the weekday.
LEMMA WeekdayComes == ASSUME NEW n \in Nat, NEW d \in 0..6 PROVE \E k \in 1..7 : (n + k) % 7 = d
<1>1. PICK q \in Nat, r \in 0..6 : n = 7 * q + r
  <2>1. n = 7 * (n \div 7) + (n % 7) /\ n \div 7 \in Nat /\ n % 7 \in 0..6
    OBVIOUS
  <2>. QED  BY <2>1
<1>2. CASE d > r
  <2>1. n + (d - r) = 7 * q + d /\ d - r \in 1..7
    BY <1>1, <1>2
  <2>2. (7 * q + d) % 7 = d
    OBVIOUS
  <2>. QED  BY <2>1, <2>2
<1>3. CASE d <= r
  <2>1. n + (7 + d - r) = 7 * (q + 1) + d /\ 7 + d - r \in 1..7
    BY <1>1, <1>3
  <2>2. (7 * (q + 1) + d) % 7 = d
    OBVIOUS
  <2>. QED  BY <2>1, <2>2
<1>. QED  BY <1>1, <1>2, <1>3

LEMMA DaysLater == ASSUME NEW t \in Nat PROVE \A j \in 1..7 : t + 2 * j \in Nat /\ j \in Nat
OBVIOUS

LEMMA NextWeekday ==
    ASSUME Repeating, repeat.type = "custom weekly", NEW t \in Nat
    PROVE  \E k \in 1..7 : Following(t) = t + 2 * k /\ Weekday(Following(t)) \in repeat.days
<1>1. PICK d \in 0..6 : d \in repeat.days
  BY Recurrences
<1>2. PICK k \in 1..7 : (Day(t) + k) % 7 = d
  <2>1. PICK n \in Nat : n = Day(t)
    BY DaysOn
  <2>2. PICK k \in 1..7 : (n + k) % 7 = d
    BY WeekdayComes
  <2>. QED  BY <2>1, <2>2
<1>3. Weekday(t + 2 * k) = d
  <2>1. k \in Nat
    BY <1>2, DaysLater
  <2>2. Day(t + 2 * k) = Day(t) + k
    BY <2>1, DaysOn
  <2>. QED  BY <1>2, <2>2, Zenon DEF Weekday
<1>. DEFINE C == {t + 2 * j : j \in 1..7}
            S == {u \in C : Weekday(u) \in repeat.days}
<1>4. t + 2 * k \in S
  BY <1>1, <1>3
<1>5. C \in SUBSET Nat
  BY DaysLater, Zenon
<1>6. Min(S) \in S
  <2>1. S \in SUBSET Nat /\ S # {}
    BY <1>4, <1>5
  <2>. HIDE DEF S
  <2>. QED  BY <2>1, Earliest
<1>7. Following(t) = Min(S)
  BY DEF Following
<1>8. Following(t) \in S
  BY <1>6, <1>7
<1>. QED  BY <1>8

LEMMA NextMonth ==
    ASSUME repeat.type = "monthly", NEW t \in Nat
    PROVE  \E n \in 28..31 : Following(t) = t + 2 * n /\ n = Months[MonthOf(t) + 1]
<1>1. PICK m \in 0..(Len(Months) - 1) : m = MonthOf(t)
  BY InMonth
<1>2. PICK n \in 28..31 : n = Months[m + 1]
  <2>1. m + 1 \in 1..Len(Months)
    BY Year
  <2>. QED  BY <2>1, Year
<1>3. Following(t) = t + 2 * Months[MonthOf(t) + 1]
  BY Zenon DEF Following
<1>. QED  BY <1>1, <1>2, <1>3

\* What the kinds come to.
LEMMA Intervals ==
    ASSUME NEW t
    PROVE  /\ repeat.type = "daily" =>
                Following(t) = t + 2 /\ HalfInterval = 1 /\ Longest = 2 /\ Period = 2
           /\ repeat.type = "weekly" =>
                Following(t) = t + 14 /\ HalfInterval = 7 /\ Longest = 14 /\ Period = 14
           /\ repeat.type = "every x days" =>
                /\ Following(t) = t + 2 * repeat.every /\ HalfInterval = repeat.every
                /\ Longest = 2 * repeat.every /\ Period = 2 * repeat.every
           /\ repeat.type = "monthly" => HalfInterval = 30 /\ Longest = 62
           /\ repeat.type = "custom weekly" => HalfInterval = 1 /\ Longest = 14
<1>1. /\ repeat.type = "daily" => Following(t) = t + 2
      /\ repeat.type = "weekly" => Following(t) = t + 14
      /\ repeat.type = "every x days" => Following(t) = t + 2 * repeat.every
  BY Zenon DEF Following
<1>2. /\ repeat.type = "weekly" => HalfInterval = 7
      /\ repeat.type = "monthly" => HalfInterval = 30
      /\ repeat.type = "every x days" => HalfInterval = repeat.every
      /\ repeat.type \in {"daily", "custom weekly"} => HalfInterval = 1
  BY Zenon DEF HalfInterval
<1>3. /\ repeat.type = "daily" => Period = 2
      /\ repeat.type = "weekly" => Period = 14
      /\ repeat.type = "every x days" => Period = 2 * repeat.every
  BY Zenon DEF Period
<1>4. /\ repeat.type = "monthly" => Longest = 62
      /\ repeat.type = "custom weekly" => Longest = 14
      /\ repeat.type \notin {"monthly", "custom weekly"} => Longest = Period
  BY Zenon DEF Longest
<1>5. /\ repeat.type = "daily" => Longest = 2
      /\ repeat.type = "weekly" => Longest = 14
      /\ repeat.type = "every x days" => Longest = 2 * repeat.every
  BY <1>3, <1>4
<1>. QED  BY <1>1, <1>2, <1>3, <1>4, <1>5

\* It is later, by half an interval at the least, and not by more than the longest.
LEMMA FollowsOn ==
    ASSUME Repeating, NEW t \in Nat
    PROVE  /\ HalfInterval \in Nat \ {0} /\ Longest \in Nat
           /\ Following(t) \in Nat /\ Following(t) > t
           /\ Following(t) >= t + HalfInterval /\ Following(t) <= t + Longest
<1>. DEFINE Fits(f, h, l) ==
        h \in Nat \ {0} /\ l \in Nat /\ f \in Nat /\ f > t /\ f >= t + h /\ f <= t + l
<1>1. SUFFICES Fits(Following(t), HalfInterval, Longest)
  OBVIOUS
<1>2. CASE repeat.type = "custom weekly"
  <2>1. PICK k \in 1..7 : Following(t) = t + 2 * k
    BY <1>2, NextWeekday
  <2>2. Fits(t + 2 * k, 1, 14)
    OBVIOUS
  <2>. QED  BY <1>2, <2>1, <2>2, Intervals, Zenon
<1>3. CASE repeat.type = "monthly"
  <2>1. PICK n \in 28..31 : Following(t) = t + 2 * n
    BY <1>3, NextMonth
  <2>2. Fits(t + 2 * n, 30, 62)
    OBVIOUS
  <2>. QED  BY <1>3, <2>1, <2>2, Intervals, Zenon
<1>4. CASE repeat.type = "daily"
  <2>1. Fits(t + 2, 1, 2)
    OBVIOUS
  <2>. QED  BY <1>4, <2>1, Intervals, Zenon
<1>5. CASE repeat.type = "weekly"
  <2>1. Fits(t + 14, 7, 14)
    OBVIOUS
  <2>. HIDE DEF Fits
  <2>. QED  BY <1>5, <2>1, Intervals, Zenon
<1>6. CASE repeat.type = "every x days"
  <2>1. \A e \in Nat \ {0} : Fits(t + 2 * e, e, 2 * e)
    OBVIOUS
  <2>. HIDE DEF Fits
  <2>. QED  BY <1>6, <2>1, Intervals, Recurrences, Zenon
<1>. QED  BY <1>2, <1>3, <1>4, <1>5, <1>6, Recurrences, Zenon

-----------------------------------------------------------------------------
\* The rhythm of a series that counts from its due times.
Rhythmic(u) ==
    /\ repeat.type \in {"daily", "weekly", "every x days"} => (u - origin) % Period = 0
    /\ repeat.type = "custom weekly" =>
           (u - origin) % 2 = 0 /\ (u # origin => Weekday(u) \in repeat.days)
    /\ repeat.type = "monthly" =>
           (DayOfMonth(origin) < 28 => DayOfMonth(u) = DayOfMonth(origin))

LEMMA Multiple ==
    ASSUME NEW d \in Int, NEW p \in Nat \ {0}, d % p = 0 PROVE (d + p) % p = 0
<1>1. PICK q \in Int : d = p * q
  <2>1. d = p * (d \div p) + (d % p) /\ d \div p \in Int
    OBVIOUS
  <2>. QED  BY <2>1
<1>2. PICK x \in Int, r \in 0..(p - 1) : d + p = p * x + r /\ r = (d + p) % p
  <2>1. d + p \in Int
    OBVIOUS
  <2>2. \A n \in Int : n = p * (n \div p) + (n % p) /\ n \div p \in Int /\ n % p \in 0..(p - 1)
    OBVIOUS
  <2>. QED  BY <2>1, <2>2
<1>3. PICK j \in Int : j = q + 1 - x
  OBVIOUS
<1>4. p * j = r
  BY <1>1, <1>2, <1>3
<1>5. j > 0 => p * j >= p
  OBVIOUS
<1>6. j < 0 => p * j < 0
  OBVIOUS
<1>7. j = 0 => p * j = 0
  OBVIOUS
<1>. QED  BY <1>2, <1>4, <1>5, <1>6, <1>7

LEMMA MonthKept ==
    ASSUME repeat.type = "monthly", NEW t \in Nat, DayOfMonth(t) < 28, Following(t) <= Horizon
    PROVE  DayOfMonth(Following(t)) = DayOfMonth(t)
<1>1. PICK m \in 0..(Len(Months) - 1) : m = MonthOf(t) /\ FirstOf[m] <= Day(t)
  BY InMonth
<1>2. PICK n \in 28..31 : n = Months[m + 1] /\ Following(t) = t + 2 * n
  BY NextMonth, <1>1
<1>3. PICK f \in Nat : f = FirstOf[m]
  BY Year
<1>4. PICK d \in Nat : d = Day(t) /\ Day(t + 2 * n) = d + n
  <2>1. PICK d \in Nat : d = Day(t)
    BY DaysOn
  <2>2. n \in Nat
    BY <1>2
  <2>3. Day(t + 2 * n) = d + n
    BY <2>1, <2>2, DaysOn
  <2>. QED  BY <2>1, <2>3
<1>5. f <= d /\ d < f + 28
  BY <1>1, <1>3, <1>4 DEF DayOfMonth
<1>6. FirstOf[m + 1] = f + n /\ m + 1 \in 0..Len(Months)
  BY <1>2, <1>3, Year
<1>7. m + 1 # Len(Months)
  <2>1. SUFFICES ASSUME m + 1 = Len(Months) PROVE FALSE
    OBVIOUS
  <2>2. Horizon < 2 * (f + n)
    BY <2>1, <1>6, MonthsAssumption DEF StartOf
  <2>3. t >= 2 * d
    BY <1>4 DEF Day
  <2>. QED  BY <1>2, <1>5, <2>2, <2>3, CalendarAssumption
<1>8. MonthOf(t + 2 * n) = m + 1
  <2>1. PICK k \in 0..(Len(Months) - 1) :
            /\ k = MonthOf(t + 2 * n) /\ FirstOf[k] <= Day(t + 2 * n)
            /\ \A j \in 0..(Len(Months) - 1) : FirstOf[j] <= Day(t + 2 * n) => j <= k
    <3>1. t + 2 * n \in Nat
      OBVIOUS
    <3>. QED  BY <3>1, InMonth
  <2>2. m + 1 \in 0..(Len(Months) - 1)
    BY <1>6, <1>7, Year
  <2>3. m + 1 <= k
    BY <2>1, <2>2, <1>4, <1>5, <1>6
  <2>4. ~(m + 1 < k)
    <3>1. SUFFICES ASSUME m + 1 < k PROVE FALSE
      OBVIOUS
    <3>2. FirstOf[m + 1] + 28 <= FirstOf[k]
      BY <3>1, <1>6, Year, Later
    <3>3. PICK g \in Nat : g = FirstOf[k]
      BY Year
    <3>4. FirstOf[k] <= d + n
      BY <2>1, <1>4
    <3>. QED  BY <3>2, <3>3, <3>4, <1>5, <1>6
  <2>. QED  BY <2>1, <2>2, <2>3, <2>4
<1>9. DayOfMonth(t) = d - f
  BY <1>1, <1>3, <1>4 DEF DayOfMonth
<1>10. DayOfMonth(t + 2 * n) = (d + n) - (f + n)
  BY <1>4, <1>6, <1>8 DEF DayOfMonth
<1>. QED  BY <1>2, <1>9, <1>10

LEMMA RhythmKept ==
    ASSUME Repeating, origin \in Nat, NEW u \in Nat, Rhythmic(u), Following(u) <= Horizon
    PROVE  Rhythmic(Following(u))
<1>1. CASE repeat.type \in {"daily", "weekly", "every x days"}
  <2>1. PICK p \in Nat \ {0} : p = Period /\ Following(u) = u + p
    <3>1. CASE repeat.type = "every x days"
      <4>1. PICK e \in Nat \ {0} : e = repeat.every
        BY Recurrences
      <4>2. 2 * e \in Nat \ {0}
        OBVIOUS
      <4>. QED  BY <3>1, <4>1, <4>2, Intervals, Zenon
    <3>2. 2 \in Nat \ {0} /\ 14 \in Nat \ {0}
      OBVIOUS
    <3>. QED  BY <1>1, <3>1, <3>2, Intervals, Zenon
  <2>2. PICK d \in Int : d = u - origin
    OBVIOUS
  <2>3. (d + p) % p = 0
    BY <1>1, <2>1, <2>2, Multiple DEF Rhythmic
  <2>4. (u + p) - origin = d + p
    BY <2>2
  <2>. QED  BY <1>1, <2>1, <2>3, <2>4 DEF Rhythmic
<1>2. CASE repeat.type = "custom weekly"
  <2>1. PICK k \in 1..7 : Following(u) = u + 2 * k /\ Weekday(Following(u)) \in repeat.days
    BY <1>2, NextWeekday
  <2>2. PICK d \in Int : d = u - origin
    OBVIOUS
  <2>5. d % 2 = 0
    BY <1>2, <2>2 DEF Rhythmic
  <2>3. (d + 2 * k) % 2 = 0
    BY <2>1, <2>5
  <2>4. (u + 2 * k) - origin = d + 2 * k
    BY <2>1, <2>2
  <2>. QED  BY <1>2, <2>1, <2>3, <2>4 DEF Rhythmic
<1>3. CASE repeat.type = "monthly"
  BY <1>3, MonthKept DEF Rhythmic
<1>. QED  BY <1>1, <1>2, <1>3, Recurrences

\* The next occurrence is reached from the base, one interval at a time.
LEMMA Reached ==
    ASSUME Repeating, due \in Nat, clock \in Nat, NEW how,
           NEW S \in SUBSET Nat, \A u \in S : Following(u) \in S, Base(how) \in S
    PROVE  Spaced(how) \in S
<1>1. clock + 1 \in Nat /\ clock + HalfInterval \in Nat
  BY FollowsOn
<1>2. \A u \in Nat : Following(u) \in Nat /\ Following(u) > u
  BY FollowsOn
<1>3. CaughtUp(how) \in S
  BY <1>1, <1>2, Arrives DEF CaughtUp
<1>. QED  BY <1>1, <1>2, <1>3, Arrives DEF Spaced

LEMMA Steadily ==
    ASSUME Repeating, {due, clock, origin} \subseteq Nat, NEW how,
           Rhythmic(due), Base(how) = due, Spaced(how) <= Horizon
    PROVE  Rhythmic(Spaced(how))
<1>. DEFINE S == {u \in Nat : u <= Horizon => Rhythmic(u)}
<1>1. ASSUME NEW u \in S PROVE Following(u) \in S
  <2>1. Following(u) \in Nat /\ Following(u) > u
    BY FollowsOn
  <2>2. Following(u) <= Horizon => u <= Horizon
    BY <2>1, CalendarAssumption
  <2>. QED  BY <2>1, <2>2, RhythmKept
<1>2. S \in SUBSET Nat /\ Base(how) \in S
  OBVIOUS
<1>3. Spaced(how) \in S
  <2>. HIDE DEF S
  <2>. QED  BY <1>1, <1>2, Reached
<1>. QED  BY <1>3

-----------------------------------------------------------------------------
\* A completion.
LEMMA Spaces ==
    ASSUME repeat \in Repeat, {due, clock} \subseteq Nat, holiday \in Nat \cup {-1} PROVE Spacing
<1>1. SUFFICES ASSUME due' # due, ~over', repeat.from = "due", Day(due') # holiday + 1, Close("completion")
               PROVE  /\ due' > clock /\ due' >= clock + HalfInterval
                      /\ due' <= due + Longest \/ due' < clock + HalfInterval + Longest
                      /\ repeat.ends = "on" /\ due' > repeat.until => clock > due
  BY Zenon DEF Spacing
<1>2. Repeating /\ ~RunsOut("completion") /\ due' = OffHoliday(Spaced("completion"))
  BY <1>1 DEF Close, NextDueAt, Repeating
<1>3. PICK h \in Nat \ {0}, l \in Nat : h = HalfInterval /\ l = Longest
  BY <1>2, FollowsOn
<1>4. PICK f \in Nat : f = Following(due) /\ f > due /\ f >= due + h /\ f <= due + l
  BY <1>2, <1>3, FollowsOn
<1>5. \A u \in Nat : Following(u) \in Nat /\ Following(u) > u /\ Following(u) <= u + l
  BY <1>2, <1>3, FollowsOn
<1>6. Base("completion") = due
  BY <1>1 DEF Base
<1>7. PICK c \in Nat : /\ c = CaughtUp("completion") /\ c >= clock + 1
                       /\ f >= clock + 1 => c = f
                       /\ f < clock + 1 => \E u \in Nat : u < clock + 1 /\ c = Following(u)
  <2>1. clock + 1 \in Nat
    OBVIOUS
  <2>2. CaughtUp("completion") = AtLeast(f, clock + 1)
    BY <1>4, <1>6 DEF CaughtUp
  <2>. QED  BY <1>5, <2>1, <2>2, Arrives
<1>8. f < clock + 1 => c < clock + 1 + l
  BY <1>5, <1>7
<1>9. PICK s \in Nat : /\ s = Spaced("completion") /\ s >= clock + h
                       /\ c >= clock + h => s = c
                       /\ c < clock + h => \E u \in Nat : u < clock + h /\ s = Following(u)
  <2>1. clock + h \in Nat
    OBVIOUS
  <2>2. Spaced("completion") = AtLeast(c, clock + h)
    BY <1>1, <1>3, <1>7 DEF Spaced
  <2>. QED  BY <1>5, <2>1, <2>2, Arrives
<1>10. c < clock + h => s < clock + h + l
  BY <1>5, <1>9
<1>11. due' = s
  <2>1. CASE Day(s) <= holiday
    <3>1. due' = StartOf(holiday + 1)
      BY <1>2, <1>9, <2>1 DEF OffHoliday
    <3>2. PICK d \in Nat : d = holiday + 1
      OBVIOUS
    <3>3. Day(StartOf(d)) = d
      BY DEF Day, StartOf
    <3>. QED  BY <1>1, <3>1, <3>2, <3>3
  <2>2. CASE ~(Day(s) <= holiday)
    BY <1>2, <1>9, <2>2 DEF OffHoliday
  <2>. QED  BY <2>1, <2>2
<1>12. s > clock /\ s >= clock + h /\ (s <= due + l \/ s < clock + h + l)
  BY <1>4, <1>7, <1>8, <1>9, <1>10
<1>13. repeat.ends = "on" /\ s > repeat.until => clock > due
  <2>1. SUFFICES ASSUME repeat.ends = "on", s > repeat.until, clock <= due PROVE FALSE
    OBVIOUS
  <2>2. PICK n \in Nat : n = repeat.until
    BY DEF Repeat
  <2>3. f <= n
    BY <1>2, <1>4, <1>6, <2>1, <2>2 DEF RunsOut
  <2>4. c = f /\ c >= clock + h
    BY <1>4, <1>7, <2>1
  <2>. QED  BY <1>9, <2>1, <2>2, <2>3, <2>4
<1>. QED  BY <1>3, <1>11, <1>12, <1>13

-----------------------------------------------------------------------------
\* The calendar of a series: what is stored has its form, what is left of a count and
\* what was made come to what was asked for, and the due time is in rhythm.
InRhythm ==
    /\ repeat.from = "due" => Rhythmic(due)
    /\ repeat.type = "none" => due = origin
CourseInv == CalendarTypeOK /\ EndsAsTold /\ InRhythm

\* The recurrence is the same but for its end.
SameRhythm ==
    /\ repeat' \in Repeat /\ repeat'.type = repeat.type /\ repeat'.every = repeat.every
    /\ repeat'.days = repeat.days /\ repeat'.from = repeat.from

LEMMA StaysRhythmic ==
    ASSUME SameRhythm, UNCHANGED origin, NEW u, Rhythmic(u), due' = u PROVE Rhythmic(due)'
<1>1. Period' = Period
  BY Zenon DEF SameRhythm, Period
<1>. QED  BY <1>1, Zenon DEF SameRhythm, Rhythmic, Weekday, DayOfMonth, MonthOf, Day

LEMMA StartsRhythmic == repeat \in Repeat /\ due \in Nat /\ origin = due => InRhythm
<1>. SUFFICES ASSUME repeat \in Repeat, due \in Nat, origin = due PROVE InRhythm
  OBVIOUS
<1>1. PICK e \in Nat \ {0} : e = repeat.every
  BY DEF Repeat
<1>2. repeat.type \in {"daily", "weekly", "every x days"} => Period \in Nat \ {0}
  <2>1. 2 \in Nat \ {0} /\ 14 \in Nat \ {0} /\ 2 * e \in Nat \ {0}
    OBVIOUS
  <2>. QED  BY <1>1, <2>1, Intervals, Zenon
<1>3. due - origin = 0
  OBVIOUS
<1>4. 0 % 2 = 0 /\ \A p \in Nat \ {0} : 0 % p = 0
  OBVIOUS
<1>. QED  BY <1>2, <1>3, <1>4, Zenon DEF InRhythm, Rhythmic

LEMMA StartsRhythmicNext == (repeat \in Repeat /\ due \in Nat /\ origin = due)' => InRhythm'
BY StartsRhythmic, PTL

LEMMA RhythmSeen == CourseInv => OnTheGrid
<1>1. SUFFICES ASSUME CourseInv, repeat.from = "due", due # origin
               PROVE  /\ repeat.type \in {"daily", "weekly", "every x days"} => (due - origin) % Period = 0
                      /\ repeat.type = "custom weekly" => Weekday(due) \in repeat.days /\ (due - origin) % 2 = 0
                      /\ repeat.type = "monthly" =>
                           (DayOfMonth(origin) < 28 => DayOfMonth(due) = DayOfMonth(origin))
                      /\ repeat.type \in {"daily", "weekly", "every x days", "custom weekly", "monthly"}
  BY Zenon DEF OnTheGrid
<1>2. repeat.type \in Types /\ repeat.type # "none"
  BY <1>1 DEF CourseInv, CalendarTypeOK, Repeat, InRhythm
<1>. QED  BY <1>1, <1>2 DEF CourseInv, InRhythm, Rhythmic, Types

LEMMA LeftChanges ==
    ASSUME repeat \in Repeat, NEW n \in Nat, repeat' = [repeat EXCEPT !.left = n]
    PROVE  SameRhythm /\ repeat'.left = n /\ repeat'.ends = repeat.ends
BY DEF Repeat, SameRhythm

LEMMA CourseRests ==
    ASSUME CourseInv, UNCHANGED <<repeat, due, origin, made, quota>>, clock' \in Nat, over' \in BOOLEAN,
           holiday' \in Nat \cup {-1}
    PROVE  CourseInv'
<1>1. SameRhythm
  BY DEF CourseInv, CalendarTypeOK, SameRhythm
<1>2. repeat.from = "due" => Rhythmic(due)'
  BY <1>1, StaysRhythmic DEF CourseInv, InRhythm
<1>. QED  BY <1>2 DEF CourseInv, CalendarTypeOK, EndsAsTold, InRhythm

LEMMA CourseRestarts ==
    ASSUME CourseInv, due' \in Nat, origin' = due', UNCHANGED <<repeat, made, quota>>, clock' \in Nat,
           over' \in BOOLEAN, holiday' \in Nat \cup {-1}
    PROVE  CourseInv'
<1>1. InRhythm'
  <2>1. repeat' \in Repeat /\ due' \in Nat /\ origin' = due'
    BY DEF CourseInv, CalendarTypeOK
  <2>. QED  BY <2>1, StartsRhythmicNext
<1>. QED  BY <1>1 DEF CourseInv, CalendarTypeOK, EndsAsTold

LEMMA CloseKeeps == ASSUME CourseInv, NEW how, Close(how) PROVE CourseInv'
<1>. /\ repeat \in Repeat /\ {due, clock, origin} \subseteq Nat /\ holiday \in Nat \cup {-1}
     /\ {made, quota} \subseteq Nat
  BY DEF CourseInv, CalendarTypeOK
<1>1. CASE over' = TRUE /\ UNCHANGED <<due, made, repeat, origin>> /\ UNCHANGED <<clock, holiday, quota>>
  BY <1>1, CourseRests
<1>2. CASE /\ Recurs /\ ~RunsOut(how) /\ NextDueAt(how) <= Horizon
           /\ due' = NextDueAt(how)
           /\ made' = IF repeat.ends = "after" THEN made + 1 ELSE made
           /\ repeat' = [repeat EXCEPT !.left = Counted]
           /\ origin' = IF due' # Spaced(how) \/ Base(how) # due THEN due' ELSE origin
           /\ UNCHANGED over /\ UNCHANGED <<clock, holiday, quota>>
  <2>1. Repeating
    BY <1>2 DEF Repeating
  <2>2. PICK n \in Nat : n = Counted /\ n = IF repeat.ends = "after" THEN repeat.left - 1 ELSE repeat.left
    <3>1. PICK m \in Nat : m = repeat.left
      BY DEF Repeat
    <3>. QED  BY <1>2, <3>1 DEF RunsOut, Counted
  <2>3. SameRhythm /\ repeat'.left = n /\ repeat'.ends = repeat.ends
    BY <1>2, <2>2, LeftChanges
  <2>4. Base(how) \in Nat
    BY DEF Base
  <2>5. Spaced(how) \in Nat
    <3>1. \A u \in Nat : Following(u) \in Nat
      BY <2>1, FollowsOn
    <3>. QED  BY <2>1, <2>4, <3>1, Reached
  <2>6. due' \in Nat /\ origin' \in Nat
    <3>1. CASE due' = Spaced(how)
      BY <3>1, <1>2, <2>5
    <3>2. CASE due' = StartOf(holiday + 1)
      <4>1. due' \in Nat
        BY <3>2 DEF StartOf
      <4>. QED  BY <1>2, <4>1
    <3>. QED  BY <1>2, <3>1, <3>2 DEF NextDueAt, OffHoliday
  <2>7. CalendarTypeOK'
    BY <1>2, <2>3, <2>6 DEF CourseInv, CalendarTypeOK, SameRhythm
  <2>8. EndsAsTold'
    <3>1. PICK m \in Nat : m = repeat.left
      BY DEF Repeat
    <3>. QED  BY <1>2, <2>2, <2>3, <3>1 DEF CourseInv, EndsAsTold
  <2>9. InRhythm'
    <3>1. CASE origin' = due'
      <4>1. repeat' \in Repeat /\ due' \in Nat /\ origin' = due'
        BY <2>3, <2>6, <3>1 DEF SameRhythm
      <4>. QED  BY <4>1, StartsRhythmicNext
    <3>2. CASE due' = Spaced(how) /\ Base(how) = due /\ origin' = origin
      <4>1. repeat.from = "due" => Rhythmic(Spaced(how))
        BY <1>2, <2>1, <3>2, Steadily DEF CourseInv, InRhythm
      <4>2. repeat.from = "due" => Rhythmic(due)'
        BY <4>1, <2>3, <3>2, StaysRhythmic
      <4>. QED  BY <4>2, <1>2, <2>3 DEF InRhythm, SameRhythm, Recurs
    <3>. QED  BY <1>2, <3>1, <3>2
  <2>. QED  BY <2>7, <2>8, <2>9 DEF CourseInv
<1>. QED  BY <1>1, <1>2 DEF Close

LEMMA EndsKeep == ASSUME CourseInv, (\E n \in 1..3 : EndAfter(n)) \/ EndOn(due + 9) PROVE CourseInv'
<1>. /\ repeat \in Repeat /\ {due, clock, origin} \subseteq Nat /\ {made, quota} \subseteq Nat
  BY DEF CourseInv, CalendarTypeOK
<1>. DEFINE EndsWell == /\ SameRhythm /\ EndsAsTold' /\ {made', quota'} \subseteq Nat
                        /\ UNCHANGED <<due, clock, over, holiday, origin>>
<1>1. EndsWell
  <2>1. ASSUME NEW n \in 1..3, EndAfter(n) PROVE EndsWell
    <3>1. PICK k \in Nat : k = n - 1 /\ n = k + 1
      OBVIOUS
    <3>2. repeat' = [repeat EXCEPT !.ends = "after", !.left = k]
      BY <2>1, <3>1 DEF EndAfter
    <3>3. SameRhythm /\ repeat'.left = k
      BY <3>2 DEF Repeat, SameRhythm
    <3>. QED  BY <2>1, <3>1, <3>3 DEF EndAfter, EndsAsTold
  <2>2. ASSUME EndOn(due + 9) PROVE EndsWell
    <3>1. PICK t \in Nat : t = due + 9
      OBVIOUS
    <3>2. repeat' = [repeat EXCEPT !.ends = "on", !.until = t, !.left = 0]
      BY <2>2, <3>1 DEF EndOn
    <3>3. SameRhythm /\ repeat'.ends = "on"
      BY <3>2 DEF Repeat, SameRhythm
    <3>. QED  BY <2>2, <3>3 DEF EndOn, EndsAsTold
  <2>. QED  BY <2>1, <2>2
<1>2. repeat.from = "due" => Rhythmic(due)'
  BY <1>1, StaysRhythmic DEF CourseInv, InRhythm
<1>3. InRhythm'
  BY <1>1, <1>2 DEF CourseInv, InRhythm, SameRhythm
<1>. QED  BY <1>1, <1>3 DEF CourseInv, CalendarTypeOK, SameRhythm

LEMMA CalendarStepKeeps == ASSUME CourseInv, NEW S, [CalendarNext(S)]_calendar PROVE CourseInv'
<1>. /\ repeat \in Repeat /\ {due, clock, origin} \subseteq Nat /\ holiday \in Nat \cup {-1}
     /\ over \in BOOLEAN
  BY DEF CourseInv, CalendarTypeOK
<1>2. CASE \E how : Close(how)
  BY <1>2, CloseKeeps
<1>3. CASE (\E n \in 1..3 : EndAfter(n)) \/ EndOn(due + 9)
  BY <1>3, EndsKeep
<1>1. ASSUME NEW n \in Steps, Elapse(n) PROVE CourseInv'
  <2>1. clock + n \in Nat
    BY <1>1, CalendarAssumption
  <2>. QED  BY <1>1, <2>1, CourseRests DEF Elapse
<1>4. CASE CloseCycle \/ UNCHANGED calendar
  BY <1>4, CourseRests DEF CloseCycle, calendar
<1>5. ASSUME NEW n \in 1..3, Reschedule(clock + n) PROVE CourseInv'
  BY <1>5, CourseRestarts DEF Reschedule
<1>6. ASSUME NEW n \in 1..2, NEW defers \in BOOLEAN, BeginHoliday(Day(clock) + n, defers) PROVE CourseInv'
  <2>1. Day(clock) + n \in Nat /\ StartOf(Day(clock) + n + 1) \in Nat
    BY DEF Day, StartOf
  <2>. QED  BY <1>6, <2>1, CourseRests, CourseRestarts DEF BeginHoliday
<1>. QED  BY <1>1, <1>2, <1>3, <1>4, <1>5, <1>6 DEF CalendarNext

LEMMA CourseBegins == ServerInit => CourseInv
<1>1. SUFFICES ASSUME ServerInit PROVE CourseInv
  OBVIOUS
<1>2. /\ repeat \in Repeat /\ {clock, due} \subseteq Nat
      /\ made = 1 /\ quota = repeat.left + 1 /\ origin = due /\ over = FALSE /\ holiday = -1
  BY <1>1, ServerAssumption DEF ServerInit, Init, Orderly, CalendarInit
<1>3. PICK n \in Nat : n = repeat.left
  BY <1>2 DEF Repeat
<1>4. InRhythm
  BY <1>2, StartsRhythmic
<1>5. quota = n + 1 /\ EndsAsTold
  BY <1>2, <1>3 DEF EndsAsTold
<1>6. CalendarTypeOK
  <2>1. made \in Nat /\ quota \in Nat
    BY <1>2, <1>5
  <2>2. {due, clock, origin} \subseteq Nat /\ over \in BOOLEAN /\ holiday \in Nat \cup {-1}
    BY <1>2
  <2>. QED  BY <1>2, <2>1, <2>2 DEF CalendarTypeOK
<1>. QED  BY <1>4, <1>5, <1>6 DEF CourseInv

LEMMA CalendarMoves ==
    ASSUME [ServerNext]_<<vars, parts>> PROVE [\E S : CalendarNext(S)]_calendar
BY DEF ServerNext, vars, parts, AccountsStep, TemplatesStep, BonusesStep, DashboardStep, TurnsStep,
      CalendarStep, StartersStep, PrizesStep

LEMMA CourseKept == ServerSpec => []CourseInv
<1>1. CourseInv /\ [ServerNext]_<<vars, parts>> => CourseInv'
  BY CalendarMoves, CalendarStepKeeps
<1>. QED  BY <1>1, CourseBegins, PTL DEF ServerSpec

\* However occurrences are completed and cancelled, deferred and rescheduled, and the end is
\* set anew: a series with a count makes as many as were asked for, and no other.
THEOREM CountIsKept == ServerSpec => []EndsAsTold
BY CourseKept, PTL DEF CourseInv

\* However late or early an occurrence is completed, the catch-up leaves a series that counts
\* from its due times on its interval, its weekdays, or its day of the month.
THEOREM RhythmIsKept == ServerSpec => []OnTheGrid
BY CourseKept, RhythmSeen, PTL

\* After a completion the next occurrence is neither too soon nor later than it need be.
THEOREM SpacingIsKept == ServerSpec => Cadence
<1>1. CourseInv /\ [ServerNext]_<<vars, parts>> => [Spacing]_calendar
  BY Spaces DEF CourseInv, CalendarTypeOK
<1>. QED  BY <1>1, CourseKept, PTL DEF ServerSpec, Cadence

=================================================================================
