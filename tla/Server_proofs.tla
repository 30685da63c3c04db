----------------------------- MODULE Server_proofs -----------------------------
(***************************************************************************)
(* The parts beside the background work, in a behaviour of the server.     *)
(* Each is proved from an invariant of its own rows and of what its calls  *)
(* have read: the plan from the questions that are on their way to the     *)
(* control service, the accounts from the rows that calls will write, the  *)
(* bonuses from the completion or the day that backs each approval.        *)
(***************************************************************************)
EXTENDS Server, Background_proofs, Parts_proofs, Turns_proofs

\* A behaviour of the server is one of its background work; the other parts stand
\* still meanwhile.
THEOREM BackgroundRuns == ServerSpec => Spec
<1>1. ServerInit => Init
  BY DEF ServerInit
<1>2. [ServerNext]_<<vars, parts>> => [Next]_vars
  BY DEF ServerNext, vars
<1>. QED  BY <1>1, <1>2, PTL DEF ServerSpec, Spec

LEMMA SceneKept == ServerSpec => []FromScene
BY BackgroundRuns, SceneStays, PTL

LEMMA AccountsMove ==
    ASSUME [ServerNext]_<<vars, parts>>
    PROVE  [AccountsStep]_<<runtime, accounts>>
BY DEF ServerNext, vars, parts, TemplatesStep, BonusesStep, DashboardStep, TurnsStep, CalendarStep,
      StartersStep, PrizesStep

-----------------------------------------------------------------------------
\* What is in the cache was the plan when it was asked for, or later.
Genuine(entry) ==
    \/ entry = NoEntry
    \/ /\ entry.expires \in Nat /\ entry.value.asOf \in Nat
       /\ entry.expires <= entry.value.asOf + TTL

\* A question, its answer, and what a decision goes by.
Questioned(x, t) == x.started \in Nat /\ x.started <= t /\ Genuine(x.copy)
Recent(x) ==
    \/ x.value.asOf + TTL >= x.started
    \/ x.value.asOf + TTL + Window >= x.decided
Timely(x, t) ==
    /\ x.at = "asking" => Questioned(x, t)
    /\ x.at = "coming" => Questioned(x, t) /\ x.value.asOf \in Nat /\ x.value.asOf >= x.started
    /\ x.at = "has" => Recent(x)
PlanInv ==
    /\ now \in Nat /\ DOMAIN load = Clients
    /\ hosted => Genuine(cached) /\ \A c \in Clients : Timely(load[c], now)

LEMMA PlanInvInit == ServerInit => PlanInv
BY DEF ServerInit, RuntimeInit, PlanInv, Genuine, Timely, Unasked

\* Only these steps change what the accounts know of the plan.
LEMMA RuntimeMoves ==
    ASSUME AccountsStep
    PROVE  \/ UNCHANGED runtime
           \/ \E c \in Clients : Look(c) \/ Answer(c) \/ Store(c) \/ FallBack(c)
           \/ \E c \in Clients : Used(c) /\ UNCHANGED <<hosted, now, plan, cached>>
           \/ Tick \/ ChangePlan
           \/ load' = [c \in Clients |-> Unasked] /\ cached' = NoEntry /\ UNCHANGED <<hosted, now, plan>>
BY DEF AccountsStep, Consult, Decide, Login, MemberAllowed, MemberSeats, Restart

LEMMA TimelyOn ==
    ASSUME NEW x, NEW t \in Nat, NEW u \in Nat, t <= u, Timely(x, t)
    PROVE  Timely(x, u)
BY DEF Timely, Questioned

LEMMA OneQuestion ==
    ASSUME PlanInv, UNCHANGED <<hosted, now>>, NEW c \in Clients, NEW x, load' = [load EXCEPT ![c] = x],
           hosted => Timely(x, now) /\ Genuine(cached')
    PROVE  PlanInv'
BY DEF PlanInv

LEMMA PlanInvStep == PlanInv /\ [ServerNext]_<<vars, parts>> => PlanInv'
<1>. SUFFICES ASSUME PlanInv, [ServerNext]_<<vars, parts>> PROVE PlanInv'
  OBVIOUS
<1>1. CASE UNCHANGED runtime
  BY <1>1 DEF runtime, PlanInv
<1>2. ASSUME NEW c \in Clients, Look(c) PROVE PlanInv'
  <2>1. CASE ~hosted
    BY <2>1, <1>2, OneQuestion DEF Look, Has
  <2>2. CASE hosted /\ cached # NoEntry /\ cached.expires > now
    <3>1. Recent([at |-> "has", value |-> cached.value, started |-> now, decided |-> now])
      BY <2>2, RuntimeConfigAssumption DEF PlanInv, Genuine, Recent
    <3>. QED
      BY <3>1, <2>2, <1>2, OneQuestion DEF Look, Has, Timely, PlanInv
  <2>3. CASE hosted /\ ~(cached # NoEntry /\ cached.expires > now)
    BY <2>3, <1>2, OneQuestion DEF Look, Timely, Questioned, PlanInv
  <2>. QED  BY <2>1, <2>2, <2>3
<1>3. ASSUME NEW c \in Clients, Answer(c) PROVE PlanInv'
  <2>. DEFINE x == [at |-> "coming", started |-> load[c].started, copy |-> load[c].copy,
                    value |-> AsOf(plan, now)]
  <2>1. load' = [load EXCEPT ![c] = x] /\ UNCHANGED <<hosted, now, cached>> /\ load[c].at = "asking"
    BY <1>3 DEF Answer, PlanInv
  <2>2. hosted => Timely(x, now)
    BY <2>1 DEF PlanInv, Timely, Questioned, AsOf
  <2>. HIDE DEF x
  <2>. QED  BY <2>1, <2>2, OneQuestion DEF PlanInv
<1>4. ASSUME NEW c \in Clients, Store(c) PROVE PlanInv'
  <2>. DEFINE x == [at |-> "has", value |-> load[c].value, started |-> load[c].started, decided |-> now]
  <2>1. /\ load' = [load EXCEPT ![c] = x] /\ UNCHANGED <<hosted, now>> /\ load[c].at = "coming"
        /\ cached' = [value |-> load[c].value, expires |-> load[c].started + TTL]
    BY <1>4 DEF Store, Has
  <2>2. hosted => Timely(x, now) /\ Genuine(cached')
    BY <2>1, RuntimeConfigAssumption DEF PlanInv, Timely, Questioned, Recent, Genuine
  <2>. HIDE DEF x
  <2>. QED  BY <2>1, <2>2, OneQuestion
<1>5. ASSUME NEW c \in Clients, FallBack(c) PROVE PlanInv'
  <2>1. CASE load[c].copy # NoEntry /\ now >= load[c].copy.expires /\ now - load[c].copy.expires <= Window
    <3>. DEFINE x == [at |-> "has", value |-> load[c].copy.value, started |-> load[c].started, decided |-> now]
    <3>1. /\ load' = [load EXCEPT ![c] = x] /\ UNCHANGED <<hosted, now, cached>>
          /\ load[c].at \in {"asking", "coming"}
      BY <1>5, <2>1 DEF FallBack, Has
    <3>2. ASSUME hosted PROVE Timely(x, now)
      <4>1. Genuine(load[c].copy) /\ now \in Nat
        BY <3>1, <3>2 DEF PlanInv, Timely, Questioned
      <4>2. load[c].copy.value.asOf + TTL + Window >= now
        BY <4>1, <2>1, RuntimeConfigAssumption DEF Genuine
      <4>. QED  BY <4>2 DEF Timely, Recent
    <3>. HIDE DEF x
    <3>. QED  BY <3>1, <3>2, OneQuestion DEF PlanInv
  <2>2. CASE ~(load[c].copy # NoEntry /\ now >= load[c].copy.expires /\ now - load[c].copy.expires <= Window)
    BY <2>2, <1>5, OneQuestion DEF FallBack, Unavailable, Timely, PlanInv
  <2>. QED  BY <2>1, <2>2
<1>6. ASSUME NEW c \in Clients, Used(c), UNCHANGED <<hosted, now, cached>> PROVE PlanInv'
  BY <1>6, OneQuestion DEF Used, Timely, Unasked, PlanInv
<1>7. CASE Tick \/ ChangePlan
  BY <1>7, TimelyOn DEF Tick, ChangePlan, PlanInv
<1>8. CASE load' = [c \in Clients |-> Unasked] /\ cached' = NoEntry /\ UNCHANGED <<hosted, now>>
  BY <1>8 DEF PlanInv, Genuine, Timely, Unasked
<1>. QED  BY <1>1, <1>2, <1>3, <1>4, <1>5, <1>6, <1>7, <1>8, AccountsMove, RuntimeMoves DEF runtime

\* What a decision on the tenant goes by is no older than the time for which the plan
\* may be kept, and the window when the control plane fails (hosted-runtime-config).
THEOREM PlanStaysRecent == ServerSpec => []PlanRecent
<1>1. PlanInv => PlanRecent
  BY DEF PlanInv, PlanRecent, Timely, Recent, Found
<1>. QED  BY <1>1, PlanInvInit, PlanInvStep, PTL DEF ServerSpec

\* What is known of the plan is a plan that the control service had at some tick by now.
Attested(value, t) == value.plan \in Plans /\ value.asOf \in 0..t
Copy(e, t) == e = NoEntry \/ Attested(e.value, t)
Question(x, t) ==
    /\ x.at \in {"none", "asking", "coming", "has", "unavailable"}
    /\ x.at \in {"asking", "coming"} => Copy(x.copy, t)
    /\ x.at = "coming" => Attested(x.value, t)
ClockInv ==
    /\ now \in 0..LastTick /\ plan \in Plans /\ Copy(cached, now)
    /\ DOMAIN load = Clients /\ \A c \in Clients : Question(load[c], now)

LEMMA QuestionOne ==
    ASSUME ClockInv, UNCHANGED <<now, plan>>, NEW c \in Clients, NEW x, load' = [load EXCEPT ![c] = x],
           Question(x, now), Copy(cached', now)
    PROVE  ClockInv'
<1>1. DOMAIN load' = Clients /\ \A d \in Clients : load'[d] = IF d = c THEN x ELSE load[d]
  BY DEF ClockInv
<1>. QED  BY <1>1 DEF ClockInv, Question, Copy

LEMMA ClockStep == ASSUME ClockInv, [ServerNext]_<<vars, parts>> PROVE ClockInv'
<1>0. now \in Nat /\ now <= LastTick /\ Copy(cached, now) /\ DOMAIN load = Clients
  BY RuntimeConfigAssumption DEF ClockInv
<1>1. CASE UNCHANGED runtime
  BY <1>1 DEF runtime, ClockInv, Copy, Question, Attested
<1>2. ASSUME NEW c \in Clients, NEW value, NEW started, Has(c, value, started), UNCHANGED <<now, plan>>,
             Copy(cached', now)
      PROVE  ClockInv'
  <2>1. PICK x : x = [at |-> "has", value |-> value, started |-> started, decided |-> now]
    OBVIOUS
  <2>2. Question(x, now)
    BY <2>1 DEF Question
  <2>. QED  BY <1>2, <2>1, <2>2, QuestionOne DEF Has
<1>3. ASSUME NEW c \in Clients, Look(c) PROVE ClockInv'
  <2>1. Question([at |-> "asking", started |-> now, copy |-> cached], now)
    BY <1>0 DEF Question
  <2>2. CASE load' = [load EXCEPT ![c] = [at |-> "asking", started |-> now, copy |-> cached]]
    BY <1>0, <1>3, <2>1, <2>2, QuestionOne DEF Look
  <2>. QED  BY <1>0, <1>2, <1>3, <2>2 DEF Look
<1>4. ASSUME NEW c \in Clients, Answer(c) PROVE ClockInv'
  <2>1. PICK x : x = [at |-> "coming", started |-> load[c].started, copy |-> load[c].copy,
                      value |-> AsOf(plan, now)]
    OBVIOUS
  <2>2. load' = [load EXCEPT ![c] = x] /\ UNCHANGED <<now, plan, cached>> /\ load[c].at = "asking"
    BY <1>0, <1>4, <2>1 DEF Answer
  <2>3. Attested(AsOf(plan, now), now)
    BY <1>0 DEF ClockInv, Attested, AsOf
  <2>4. Question(x, now)
    BY <2>1, <2>2, <2>3 DEF ClockInv, Question
  <2>. QED  BY <1>0, <2>2, <2>4, QuestionOne
<1>5. ASSUME NEW c \in Clients, Store(c) PROVE ClockInv'
  <2>1. Attested(load[c].value, now)
    BY <1>5 DEF ClockInv, Question, Store
  <2>2. Copy([value |-> load[c].value, expires |-> load[c].started + TTL], now)
    BY <2>1 DEF Copy
  <2>. QED  BY <1>2, <1>5, <2>2 DEF Store
<1>6. ASSUME NEW c \in Clients, FallBack(c) PROVE ClockInv'
  <2>1. CASE Unavailable(c)
    BY <1>0, <1>6, <2>1, QuestionOne DEF FallBack, Unavailable, Question
  <2>. QED  BY <1>0, <1>2, <1>6, <2>1 DEF FallBack
<1>7. ASSUME NEW c \in Clients, Used(c), UNCHANGED <<now, plan, cached>> PROVE ClockInv'
  BY <1>0, <1>7, QuestionOne DEF Used, Unasked, Question
<1>8. CASE Tick
  <2>1. now' = now + 1 /\ now < LastTick /\ UNCHANGED <<plan, cached, load>>
    BY <1>8 DEF Tick
  <2>2. 0..now \subseteq 0..now' /\ now' \in 0..LastTick
    BY <1>0, <2>1, RuntimeConfigAssumption
  <2>3. \A e : Copy(e, now) => Copy(e, now')
    BY <2>2 DEF Copy, Attested
  <2>4. \A x : Question(x, now) => Question(x, now')
    BY <2>2, <2>3 DEF Question, Attested
  <2>. QED  BY <2>1, <2>2, <2>3, <2>4 DEF ClockInv
<1>9. CASE ChangePlan
  BY <1>9 DEF ChangePlan, ClockInv
<1>10. CASE load' = [c \in Clients |-> Unasked] /\ cached' = NoEntry /\ UNCHANGED <<now, plan>>
  BY <1>0, <1>10 DEF ClockInv, Copy, Question, Unasked
<1>11. UNCHANGED runtime \/ AccountsStep
  BY AccountsMove DEF runtime
<1>. QED  BY <1>1, <1>3, <1>4, <1>5, <1>6, <1>7, <1>8, <1>9, <1>10, <1>11, RuntimeMoves

LEMMA RuntimeTyped == ServerSpec => []RuntimeTypeOK
<1>1. ServerInit => ClockInv
  BY RuntimeConfigAssumption DEF ServerInit, RuntimeInit, ClockInv, Copy, Question, Unasked
<1>2. ClockInv /\ [ServerNext]_<<vars, parts>> => ClockInv'
  BY ClockStep
<1>3. ClockInv => RuntimeTypeOK
  BY DEF ClockInv, Copy, Attested, Question, RuntimeTypeOK
<1>. QED  BY <1>1, <1>2, <1>3, PTL DEF ServerSpec

-----------------------------------------------------------------------------
\* What is stored: e-mails and subjects are unique, everybody with an account has an
\* identity, a token that is good resets a password, and an outdated one is not good.
Unique == \A i \in Identities : Stored(i) => ~Clashes(identity[i], {i})
TokensInv ==
    /\ token \in [Tokens -> {NoToken} \cup TokenRows]
    /\ \A t \in Tokens : ~token[t].used => Local(token[t].of)
    /\ outdated \subseteq Tokens
    /\ \A t \in outdated : token[t] \in TokenRows /\ token[t].used
AccountRowsInv ==
    /\ members \subseteq People
    /\ identity \in [Identities -> {NoRow} \cup AccountRows]
    /\ Unique
    /\ \A i \in Identities : Stored(i) => identity[i].of \in members
    /\ \A u \in members : \E i \in Identities : Stored(i) /\ identity[i].of = u
    /\ TokensInv
    /\ tested \in Hosts \cup {Untested}

\* The forms that a call has.  One that changes the settings has made sure that what
\* it saw first, or both times, keeps a way to sign in.
Resetting(x) ==
    \/ x \in [at : {"token"}, id : Identities]
    \/ x \in [at : {"reset"}, token : Tokens, id : Identities, secret : Passwords]
Editing(x) == x \in [at : {"edit"}, id : Identities, row : AccountRows, secret : Passwords \cup {"same"}]
Inserting(x) == x \in [at : {"insert"}, row : AccountRows, fresh : BOOLEAN]
AddingMember(x) ==
    \E n : \E p \in {"allowed", "seats"} : \E row \in AccountRows : x = [at |-> p, count |-> n, row |-> row]
Setting(x) ==
    \/ \E p : \E s : x = [at |-> "patch", patch |-> p, seen |-> {s}] /\ KeepsOpen(Patched(p, s))
    \/ \E a : \E s : \E t : x = [at |-> "settings", all |-> a, seen |-> {s, t}] /\ (s = t => KeepsOpen(a))
Entered(x) == x \in [at : {"in"}, as : People, subject : Subjects]
Form(x) ==
    \/ x \in [at : {"idle", "over"}] \/ x \in [at : {"in"}, as : People]
    \/ x \in [at : {"login"}, as : People, secret : Passwords, given : Passwords]
    \/ Entered(x) \/ AddingMember(x) \/ Inserting(x) \/ Resetting(x) \/ Editing(x) \/ Setting(x)

\* What a call has read of an identity stays so.
Holds(x) ==
    /\ Entered(x) => \E i \in Identities : /\ Stored(i) /\ identity[i].kind = "oidc"
                                           /\ identity[i].secret = x.subject /\ identity[i].of = x.as
    /\ Resetting(x) => Local(x.id)
    /\ Editing(x) => /\ Stored(x.id) /\ identity[x.id].kind = x.row.kind /\ identity[x.id].of = x.row.of
                     /\ x.row.kind = "oidc" => identity[x.id].secret = x.row.secret
Calls == DOMAIN call = Clients /\ \A c \in Clients : Form(call[c]) /\ Holds(call[c])
AccountsInv == AccountRowsInv /\ Calls

LEMMA AccountsInvInit == ServerInit => AccountsInv
<1>. SUFFICES ASSUME ServerInit PROVE AccountsInv
  OBVIOUS
<1>1. Orderly(scene)
  BY ServerAssumption DEF ServerInit, Init
<1>2. /\ identity = scene.identity /\ token = scene.token /\ outdated = {} /\ tested = Untested
      /\ call = [c \in Clients |-> Idle]
      /\ members = {identity[i].of : i \in {x \in Identities : Stored(x)}}
  BY DEF ServerInit
<1>3. AccountRowsInv
  <2>1. members \subseteq People
    BY <1>1, <1>2 DEF Orderly, Stored, AccountRows
  <2>2. ASSUME NEW i \in Identities, Stored(i) PROVE identity[i].of \in members /\ ~Clashes(identity[i], {i})
    BY <1>1, <1>2, <2>2 DEF Orderly, Stored, Clashes
  <2>3. ASSUME NEW t \in Tokens, ~token[t].used PROVE Local(token[t].of)
    <3>1. token[t].of \in Identities
      BY <2>3, <1>1, <1>2 DEF Orderly, NoToken, TokenRows
    <3>. QED  BY <2>3, <3>1, <1>1, <1>2 DEF Orderly, Local, Stored, NoRow
  <2>. QED  BY <1>1, <1>2, <2>1, <2>2, <2>3 DEF Orderly, AccountRowsInv, TokensInv, Unique
<1>4. Calls
  BY <1>2 DEF Calls, Idle, Form, Holds, Entered, Resetting, Editing
<1>. QED  BY <1>3, <1>4 DEF AccountsInv

LEMMA FormOf ==
    ASSUME NEW x, Form(x)
    PROVE  /\ x.at = "insert" => Inserting(x)
           /\ x.at \in {"token", "reset"} => Resetting(x)
           /\ x.at = "edit" => Editing(x)
           /\ x.at \in {"allowed", "seats"} => AddingMember(x)
           /\ x.at \in {"patch", "settings"} => Setting(x)
           /\ x.at = "login" => x.as \in People
           /\ "subject" \in DOMAIN x => Entered(x)
BY DEF Form, Entered, AddingMember, Inserting, Resetting, Editing, Setting

\* A form that has read nothing of an identity.
Plain(x) == Form(x) /\ ~Entered(x) /\ ~Resetting(x) /\ ~Editing(x)

\* One call goes on, and what is stored of an identity stays true.
Keeps ==
    \A i \in Identities : Stored(i) =>
        /\ Stored(i)' /\ identity'[i].kind = identity[i].kind /\ identity'[i].of = identity[i].of
        /\ identity[i].kind = "oidc" => identity'[i].secret = identity[i].secret

LEMMA HoldsOn ==
    ASSUME NEW x, Holds(x), Keeps PROVE Holds(x)'
<1>1. Entered(x) => \E i \in Identities : /\ Stored(i)' /\ identity'[i].kind = "oidc"
                                          /\ identity'[i].secret = x.subject /\ identity'[i].of = x.as
  BY DEF Holds, Keeps
<1>2. Resetting(x) => Local(x.id)'
  <2>. SUFFICES ASSUME Resetting(x) PROVE Local(x.id)'
    OBVIOUS
  <2>1. x.id \in Identities
    BY DEF Resetting
  <2>. QED  BY <2>1 DEF Holds, Keeps, Local, Stored
<1>3. Editing(x) => /\ Stored(x.id)' /\ identity'[x.id].kind = x.row.kind /\ identity'[x.id].of = x.row.of
                    /\ x.row.kind = "oidc" => identity'[x.id].secret = x.row.secret
  <2>1. Editing(x) => x.id \in Identities
    BY DEF Editing
  <2>. QED  BY <2>1 DEF Holds, Keeps
<1>. QED  BY <1>1, <1>2, <1>3 DEF Holds, Entered, Resetting, Editing

LEMMA CallsOn ==
    ASSUME Calls, Keeps, NEW c \in Clients, NEW x, Does(c, x), Form(x), Holds(x)'
    PROVE  Calls'
<1>1. ASSUME NEW d \in Clients PROVE Form(call'[d]) /\ Holds(call[d])'
  <2>1. CASE d = c
    <3>1. call'[d] = x
      BY <2>1 DEF Does, Calls
    <3>. QED  BY <3>1 DEF Holds, Entered, Resetting, Editing
  <2>2. CASE d # c
    <3>1. PICK y : y = call[d]
      OBVIOUS
    <3>2. call'[d] = y
      BY <3>1, <2>2 DEF Does, Calls
    <3>3. Form(y) /\ Holds(y)
      BY <3>1 DEF Calls
    <3>4. Holds(y)'
      BY <3>3, HoldsOn
    <3>. QED  BY <3>2, <3>3, <3>4 DEF Holds, Entered, Resetting, Editing
  <2>. QED  BY <2>1, <2>2
<1>. QED  BY <1>1 DEF Calls, Does

\* A step of one call that stores nothing.
LEMMA OneCall ==
    ASSUME AccountsInv, UNCHANGED <<members, identity, token, outdated, tested>>,
           NEW c \in Clients, NEW x, Does(c, x), Form(x), Holds(x)
    PROVE  AccountsInv'
<1>1. Keeps
  BY DEF Keeps, Stored
<1>2. Holds(x)'
  BY <1>1, HoldsOn
<1>3. Calls'
  BY <1>1, <1>2, CallsOn DEF AccountsInv
<1>4. AccountRowsInv'
  BY DEF AccountsInv, AccountRowsInv, TokensInv, Unique, Stored, Clashes, Local
<1>. QED  BY <1>3, <1>4 DEF AccountsInv

LEMMA PlainHolds == ASSUME NEW x, Plain(x) PROVE Form(x) /\ Holds(x) /\ Holds(x)'
BY DEF Plain, Holds, Entered, Resetting, Editing

LEMMA PlainForms ==
    /\ Plain(Over) /\ Plain(Idle)
    /\ \A u \in People : Plain(SignedIn(u))
    /\ \A u \in People, p, q \in Passwords : Plain([at |-> "login", as |-> u, secret |-> p, given |-> q])
    /\ \A row \in AccountRows, fresh \in BOOLEAN : Plain(ToInsert(row, fresh))
    /\ \A n : \A p \in {"allowed", "seats"}, row \in AccountRows :
          Plain([at |-> p, count |-> n, row |-> row])
<1>1. Plain(Over) /\ Plain(Idle)
  BY DEF Plain, Form, Over, Idle, Entered, Resetting, Editing
<1>2. \A u \in People : Plain(SignedIn(u))
  BY DEF Plain, Form, SignedIn, Entered, Resetting, Editing
<1>3. \A u \in People, p, q \in Passwords : Plain([at |-> "login", as |-> u, secret |-> p, given |-> q])
  BY DEF Plain, Form, Entered, Resetting, Editing
<1>4. \A row \in AccountRows, fresh \in BOOLEAN : Plain(ToInsert(row, fresh))
  BY DEF Plain, Form, ToInsert, Entered, Resetting, Editing, Inserting
<1>5. ASSUME NEW n, NEW p \in {"allowed", "seats"}, NEW row \in AccountRows
      PROVE  Plain([at |-> p, count |-> n, row |-> row])
  BY DEF Plain, Form, Entered, Resetting, Editing, AddingMember
<1>. QED  BY <1>1, <1>2, <1>3, <1>4, <1>5

LEMMA RowForms ==
    ASSUME NEW u \in People, NEW e \in Emails
    PROVE  /\ \A p \in Passwords : Row("local", u, e, p) \in AccountRows
           /\ \A s \in Subjects : Row("oidc", u, e, s) \in AccountRows
BY DEF Row, AccountRows

LEMMA StoredForms ==
    ASSUME AccountRowsInv, NEW i \in Identities, Stored(i)
    PROVE  /\ identity[i] \in AccountRows /\ identity[i].of \in People
           /\ Local(i) => identity[i].secret \in Passwords
BY DEF AccountRowsInv, Stored, AccountRows, Local

LEMMA NewcomersExist == Newcomers \subseteq People
BY DEF Newcomers

LEMMA ReadStep ==
    ASSUME AccountsInv, NEW c \in Clients, NEW x, Reads(c, x), Form(x), Holds(x)
    PROVE  AccountsInv'
BY OneCall DEF Reads

LEMMA BeginStep ==
    ASSUME AccountsInv, NEW c \in Clients, NEW calls, Begin(c, calls)
    PROVE  AccountsInv'
<1>. USE DEF AccountsInv
<1>1. ASSUME NEW i \in Identities, NEW p \in Passwords, LoginRead(c, i, p) PROVE AccountsInv'
  <2>1. Plain([at |-> "login", as |-> identity[i].of, secret |-> identity[i].secret, given |-> p])
    BY <1>1, StoredForms, PlainForms DEF LoginRead, Local
  <2>. QED  BY <1>1, <2>1, PlainHolds, ReadStep DEF LoginRead
<1>2. ASSUME NEW u \in Newcomers, NEW e \in Emails, NEW p \in Passwords,
             SignupRead(c, u, e, p) \/ MemberRead(c, u, e, p)
      PROVE  AccountsInv'
  <2>1. Row("local", u, e, p) \in AccountRows
    BY NewcomersExist, RowForms
  <2>2. CASE SignupRead(c, u, e, p)
    BY <2>1, <2>2, PlainForms, PlainHolds, ReadStep DEF SignupRead
  <2>3. CASE MemberRead(c, u, e, p)
    BY <2>1, <2>3, PlainForms, PlainHolds, ReadStep DEF MemberRead
  <2>. QED  BY <1>2, <2>2, <2>3
<1>3. ASSUME NEW s \in Subjects, OidcKnown(c, s) PROVE AccountsInv'
  <2>1. PICK i \in Identities : /\ Stored(i) /\ identity[i].kind = "oidc" /\ identity[i].secret = s
                               /\ Reads(c, [at |-> "in", as |-> identity[i].of, subject |-> s])
    BY <1>3 DEF OidcKnown
  <2>. DEFINE x == [at |-> "in", as |-> identity[i].of, subject |-> s]
  <2>2. PICK y : y = x
    OBVIOUS
  <2>3. Entered(y) /\ y.subject = s /\ y.as = identity[i].of /\ y.at = "in"
    BY <2>1, <2>2, StoredForms DEF Entered
  <2>4. Form(y) /\ Holds(y)
    BY <2>1, <2>3 DEF Form, Holds, Resetting, Editing
  <2>. QED  BY <2>1, <2>2, <2>4, ReadStep
<1>4. ASSUME NEW s \in Subjects, NEW e \in Emails, OidcLink(c, s, e) PROVE AccountsInv'
  <2>1. PICK i \in Identities : /\ Stored(i)
                               /\ Reads(c, ToInsert(Row("oidc", identity[i].of, e, s), FALSE))
    BY <1>4 DEF OidcLink
  <2>2. Row("oidc", identity[i].of, e, s) \in AccountRows
    BY <2>1, StoredForms, RowForms
  <2>. QED  BY <2>1, <2>2, PlainForms, PlainHolds, ReadStep
<1>5. ASSUME NEW s \in Subjects, NEW e \in Emails, NEW u \in Newcomers, OidcNew(c, s, e, u) PROVE AccountsInv'
  <2>1. Row("oidc", u, e, s) \in AccountRows
    BY NewcomersExist, RowForms
  <2>. QED  BY <1>5, <2>1, PlainForms, PlainHolds, ReadStep DEF OidcNew
<1>6. ASSUME NEW i \in Identities, ResetRead(c, i) PROVE AccountsInv'
  <2>1. PICK y : y = [at |-> "token", id |-> i]
    OBVIOUS
  <2>2. Reads(c, y) /\ Local(i)
    BY <1>6, <2>1 DEF ResetRead
  <2>3. Form(y) /\ Holds(y)
    BY <2>1, <2>2 DEF Form, Holds, Resetting, Editing, Entered
  <2>. QED  BY <2>2, <2>3, ReadStep
<1>7. ASSUME NEW t \in Tokens, NEW p \in Passwords, CompleteRead(c, t, p) PROVE AccountsInv'
  <2>1. PICK y : y = [at |-> "reset", token |-> t, id |-> token[t].of, secret |-> p]
    OBVIOUS
  <2>2. Reads(c, y) /\ Local(y.id) /\ y.id \in Identities
    BY <1>7, <2>1 DEF CompleteRead, AccountRowsInv, TokensInv, TokenRows, NoToken
  <2>3. Form(y) /\ Holds(y)
    BY <2>1, <2>2 DEF Form, Holds, Resetting, Editing, Entered
  <2>. QED  BY <2>2, <2>3, ReadStep
<1>8. ASSUME NEW u \in members, NEW e \in Emails, EditRead(c, u, e) PROVE AccountsInv'
  <2>1. PICK i \in Identities, p \in Passwords \cup {"same"} :
            Stored(i) /\ Reads(c, [at |-> "edit", id |-> i, row |-> [identity[i] EXCEPT !.email = e], secret |-> p])
    BY <1>8 DEF EditRead, OwnedBy
  <2>2. PICK row : row = [identity[i] EXCEPT !.email = e]
    OBVIOUS
  <2>3. /\ row \in AccountRows /\ row.kind = identity[i].kind /\ row.of = identity[i].of
        /\ row.secret = identity[i].secret
    BY <2>1, <2>2, StoredForms DEF AccountRows
  <2>4. PICK y : y = [at |-> "edit", id |-> i, row |-> row, secret |-> p]
    OBVIOUS
  <2>5. Form(y) /\ Holds(y)
    BY <2>1, <2>3, <2>4 DEF Form, Holds, Resetting, Editing, Entered
  <2>. QED  BY <2>1, <2>2, <2>4, <2>5, ReadStep
<1>9. ASSUME NEW patch \in Patches, SettingsRead(c, patch) PROVE AccountsInv'
  <2>1. PICK s : s = settings
    OBVIOUS
  <2>2. PICK y : y = [at |-> "patch", patch |-> patch, seen |-> {s}]
    OBVIOUS
  <2>3. Reads(c, y) /\ KeepsOpen(Patched(patch, s))
    BY <1>9, <2>1, <2>2 DEF SettingsRead, ToWrite
  <2>4. Form(y) /\ Holds(y)
    BY <2>2, <2>3 DEF Form, Setting, Holds, Resetting, Editing, Entered
  <2>. QED  BY <2>3, <2>4, ReadStep
<1>. QED  BY <1>1, <1>2, <1>3, <1>4, <1>5, <1>6, <1>7, <1>8, <1>9 DEF Begin, OidcLogin

\* The pairs of rows that are written stay unique.
LEMMA ClashFree ==
    ASSUME AccountRowsInv, NEW i \in Identities, NEW row \in AccountRows, ~Clashes(row, {i}),
           identity' = [identity EXCEPT ![i] = row]
    PROVE  /\ Unique' /\ Stored(i)' /\ identity'[i] = row
           /\ \A j \in Identities \ {i} : identity'[j] = identity[j] /\ (Stored(j)' <=> Stored(j))
<1>1. /\ identity'[i] = row /\ row # NoRow
      /\ \A j \in Identities \ {i} : identity'[j] = identity[j]
  BY DEF AccountRowsInv, AccountRows, NoRow
<1>2. ASSUME NEW j \in Identities, NEW k \in Identities \ {j}, identity'[j] # NoRow, identity'[k] # NoRow
      PROVE  /\ identity'[k].email # identity'[j].email
             /\ ~(identity'[j].kind = "oidc" /\ identity'[k].kind = "oidc"
                  /\ identity'[k].secret = identity'[j].secret)
  <2>1. CASE j = i
    BY <2>1, <1>1, <1>2 DEF Clashes, Stored
  <2>2. CASE k = i
    BY <2>2, <1>1, <1>2 DEF Clashes, Stored
  <2>3. CASE j # i /\ k # i
    BY <2>3, <1>1, <1>2 DEF AccountRowsInv, Unique, Clashes, Stored
  <2>. QED  BY <2>1, <2>2, <2>3
<1>. QED  BY <1>1, <1>2 DEF Unique, Clashes, Stored

\* A row is written: a new one, or one of the same person and kind.
LEMMA RowWritten ==
    ASSUME AccountRowsInv, NEW i \in Identities, NEW row \in AccountRows, ~Clashes(row, {i}),
           identity' = [identity EXCEPT ![i] = row], members' = members \cup {row.of},
           Stored(i) => /\ row.of = identity[i].of /\ row.kind = identity[i].kind
                        /\ row.kind = "oidc" => row.secret = identity[i].secret,
           UNCHANGED tested
    PROVE  Keeps /\ (TokensInv' => AccountRowsInv')
<1>1. /\ Unique' /\ Stored(i)' /\ identity'[i] = row
      /\ \A j \in Identities \ {i} : identity'[j] = identity[j] /\ (Stored(j)' <=> Stored(j))
  BY ClashFree
<1>2. members' \subseteq People /\ identity' \in [Identities -> {NoRow} \cup AccountRows]
  BY DEF AccountRowsInv, AccountRows
<1>3. Keeps
  BY <1>1 DEF Keeps
<1>4. \A j \in Identities : Stored(j)' => identity'[j].of \in members'
  BY <1>1 DEF AccountRowsInv
<1>5. \A u \in members' : \E j \in Identities : Stored(j)' /\ identity'[j].of = u
  BY <1>1, <1>3 DEF AccountRowsInv, Keeps
<1>. QED  BY <1>1, <1>2, <1>3, <1>4, <1>5 DEF AccountRowsInv

LEMMA Points == ASSUME TokensInv, NEW t \in Tokens, ~token[t].used PROVE token[t].of \in Identities
BY DEF TokensInv, TokenRows, NoToken

LEMMA TokensOn ==
    ASSUME TokensInv, Keeps, UNCHANGED <<token, outdated>> PROVE TokensInv'
BY Points DEF TokensInv, Keeps, Local, Stored

\* The tokens of an identity are retired and outdated.
LEMMA TokensRetire ==
    ASSUME TokensInv, Keeps, NEW i \in Identities, NEW S \in SUBSET Tokens,
           \A t \in Tokens : token[t] # NoToken /\ token[t].of = i => t \in S,
           token' = [t \in Tokens |-> IF t \in S THEN [token[t] EXCEPT !.used = TRUE] ELSE token[t]],
           outdated' = outdated \cup {t \in Tokens : token[t] # NoToken /\ token[t].of = i}
    PROVE  TokensInv'
<1>1. ASSUME NEW t \in S
      PROVE  /\ token'[t].used /\ token'[t] \in {NoToken} \cup TokenRows
             /\ token[t] # NoToken => token'[t] \in TokenRows
  <2>1. CASE token[t] = NoToken
    <3>1. token'[t] = NoToken
      BY <1>1, <2>1 DEF NoToken
    <3>. QED  BY <2>1, <3>1 DEF NoToken
  <2>2. CASE token[t] \in TokenRows
    BY <1>1, <2>2 DEF TokenRows
  <2>. QED  BY <1>1, <2>1, <2>2 DEF TokensInv
<1>2. ASSUME NEW t \in Tokens, t \notin S PROVE token'[t] = token[t]
  BY <1>2
<1>3. ASSUME NEW t \in Tokens, ~token'[t].used PROVE Local(token[t].of)' /\ token'[t] = token[t]
  <2>1. token'[t] = token[t] /\ ~token[t].used
    BY <1>1, <1>2, <1>3
  <2>2. PICK k \in Identities : k = token[t].of
    BY <2>1, Points
  <2>3. Local(k)'
    BY <2>1, <2>2 DEF TokensInv, Keeps, Local
  <2>. QED  BY <2>1, <2>2, <2>3 DEF Local, Stored
<1>4. ASSUME NEW t \in outdated' PROVE token'[t] \in TokenRows /\ token'[t].used
  <2>1. CASE t \in outdated
    <3>1. token[t] # NoToken /\ token[t] \in TokenRows /\ token[t].used /\ t \in Tokens
      BY <2>1 DEF TokensInv, TokenRows, NoToken
    <3>. QED  BY <3>1, <1>1, <1>2
  <2>2. CASE t \in Tokens /\ token[t] # NoToken /\ token[t].of = i
    BY <2>2, <1>1
  <2>. QED  BY <1>4, <2>1, <2>2
<1>5. ASSUME NEW t \in Tokens PROVE token'[t] \in {NoToken} \cup TokenRows
  BY <1>1, <1>2, <1>5 DEF TokensInv
<1>. QED  BY <1>3, <1>4, <1>5 DEF TokensInv, Local, Stored

LEMMA CallGoes ==
    ASSUME AccountsInv, Keeps, AccountRowsInv', NEW c \in Clients, NEW x, Does(c, x), Plain(x)
    PROVE  AccountsInv'
BY PlainHolds, CallsOn DEF AccountsInv

LEMMA Unclashed ==
    ASSUME NEW row, NEW i \in Identities, ~Clashes(row, {}) PROVE ~Clashes(row, {i})
BY DEF Clashes

LEMMA InsertStep ==
    ASSUME AccountsInv, NEW c \in Clients, NEW i \in Identities, InsertRow(c, i)
    PROVE  AccountsInv'
<1>1. PICK row \in AccountRows : row = call[c].row
  BY FormOf DEF InsertRow, AccountsInv, Calls, Inserting
<1>2. CASE Clashes(row, {})
  BY <1>1, <1>2, OneCall, PlainForms, PlainHolds DEF InsertRow
<1>3. CASE ~Clashes(row, {})
  <2>1. /\ identity' = [identity EXCEPT ![i] = row] /\ members' = members \cup {row.of}
        /\ ~Stored(i) /\ UNCHANGED <<token, tested, outdated>>
        /\ Does(c, IF row.kind = "oidc" THEN [at |-> "in", as |-> row.of, subject |-> row.secret]
                   ELSE SignedIn(row.of))
    BY <1>1, <1>3 DEF InsertRow, Created
  <2>2. Keeps /\ (TokensInv' => AccountRowsInv') /\ AccountRowsInv
    BY <1>3, <2>1, RowWritten, Unclashed DEF AccountsInv
  <2>3. AccountRowsInv'
    BY <2>1, <2>2, TokensOn DEF AccountRowsInv
  <2>4. CASE row.kind # "oidc"
    <3>1. Plain(SignedIn(row.of))
      BY PlainForms DEF AccountRows
    <3>. QED  BY <2>1, <2>2, <2>3, <2>4, <3>1, CallGoes
  <2>5. CASE row.kind = "oidc"
    <3>1. PICK y : y = [at |-> "in", as |-> row.of, subject |-> row.secret]
      OBVIOUS
    <3>2. Entered(y) /\ y.subject = row.secret /\ y.as = row.of /\ y.at = "in"
      BY <2>5, <3>1 DEF Entered, AccountRows
    <3>3. identity'[i] = row /\ Stored(i)'
      BY <1>3, <2>1, <2>2, Unclashed, ClashFree
    <3>4. Form(y) /\ Holds(y)'
      BY <2>5, <3>2, <3>3 DEF Form, Holds, Resetting, Editing, Entered
    <3>5. Does(c, y) /\ Calls
      BY <2>1, <2>5, <3>1 DEF AccountsInv
    <3>6. Calls'
      BY <2>2, <3>4, <3>5, CallsOn
    <3>. QED  BY <2>3, <3>6 DEF AccountsInv
  <2>. QED  BY <2>4, <2>5
<1>. QED  BY <1>2, <1>3

LEMMA AddsStep ==
    ASSUME AccountsInv, NEW c \in Clients, NEW i \in Identities, EditAdds(c, i)
    PROVE  AccountsInv'
<1>1. Editing(call[c]) /\ Holds(call[c]) /\ call[c].row.kind = "oidc" /\ call[c].secret # "same"
  BY FormOf DEF EditAdds, AccountsInv, Calls
<1>2. PICK row : row = Row("local", call[c].row.of, call[c].row.email, call[c].secret)
  OBVIOUS
<1>3. row \in AccountRows /\ row.of = call[c].row.of
  BY <1>1, <1>2 DEF Editing, AccountRows, Row
<1>4. row.of \in members
  BY <1>1, <1>3 DEF Editing, Holds, AccountsInv, AccountRowsInv
<1>5. CASE Clashes(row, {})
  BY <1>2, <1>5, OneCall, PlainForms, PlainHolds DEF EditAdds
<1>6. CASE ~Clashes(row, {})
  <2>1. /\ identity' = [identity EXCEPT ![i] = row] /\ members' = members \cup {row.of}
        /\ ~Stored(i) /\ UNCHANGED <<token, tested, outdated>> /\ Does(c, Over)
    BY <1>2, <1>4, <1>6 DEF EditAdds
  <2>2. Keeps /\ (TokensInv' => AccountRowsInv')
    BY <1>3, <1>6, <2>1, RowWritten, Unclashed DEF AccountsInv
  <2>3. AccountRowsInv'
    BY <2>1, <2>2, TokensOn DEF AccountRowsInv, AccountsInv
  <2>. QED  BY <2>1, <2>2, <2>3, CallGoes, PlainForms
<1>. QED  BY <1>5, <1>6

LEMMA IssueStep ==
    ASSUME AccountsInv, NEW c \in Clients, NEW t \in Tokens, IssueToken(c, t)
    PROVE  AccountsInv'
<1>1. PICK i \in Identities : i = call[c].id /\ Local(i)
  BY FormOf DEF IssueToken, AccountsInv, Calls, Resetting, Holds
<1>2. /\ token[t] = NoToken /\ token' = [token EXCEPT ![t] = [of |-> i, used |-> FALSE]]
      /\ UNCHANGED <<members, identity, outdated, tested>> /\ Does(c, Over)
  BY <1>1 DEF IssueToken
<1>3. Keeps
  BY <1>2 DEF Keeps, Stored
<1>4. TokensInv
  BY DEF AccountsInv, AccountRowsInv
<1>5. t \notin outdated
  BY <1>2, <1>4 DEF TokensInv, TokenRows, NoToken
<1>6. TokensInv'
  <2>1. token'[t] = [of |-> i, used |-> FALSE] /\ \A u \in Tokens \ {t} : token'[u] = token[u]
    BY <1>2, <1>4 DEF TokensInv
  <2>2. [of |-> i, used |-> FALSE] \in TokenRows
    BY DEF TokenRows
  <2>3. \A j : Local(j)' <=> Local(j)
    BY <1>2 DEF Local, Stored
  <2>4. ASSUME NEW u \in Tokens, ~token'[u].used PROVE (Local(token[u].of)' /\ token'[u] = token[u]) \/ u = t
    BY <1>4, <2>1, <2>4, <1>2 DEF TokensInv, Local, Stored
  <2>. QED  BY <1>1, <1>2, <1>4, <1>5, <2>1, <2>2, <2>4 DEF TokensInv, Local, Stored
<1>7. AccountRowsInv'
  BY <1>2, <1>6 DEF AccountsInv, AccountRowsInv, Unique, Clashes, Stored
<1>. QED  BY <1>2, <1>3, <1>7, CallGoes, PlainForms

LEMMA CompleteStep ==
    ASSUME AccountsInv, NEW c \in Clients, Complete(c)
    PROVE  AccountsInv'
<1>1. Resetting(call[c]) /\ Local(call[c].id) /\ call[c].at = "reset"
  BY FormOf DEF Complete, AccountsInv, Calls, Holds
<1>2. PICK i \in Identities, p \in Passwords, t \in Tokens :
          i = call[c].id /\ p = call[c].secret /\ t = call[c].token
  BY <1>1 DEF Resetting
<1>3. /\ identity' = [identity EXCEPT ![i].secret = p] /\ Retire(i, t) /\ Outdate(i) /\ Does(c, Over)
      /\ UNCHANGED <<members, tested>> /\ Local(i)
  BY <1>1, <1>2 DEF Complete
<1>4. PICK row : row = [identity[i] EXCEPT !.secret = p]
  OBVIOUS
<1>5. /\ row \in AccountRows /\ row.kind = "local" /\ row.of = identity[i].of
      /\ row.email = identity[i].email /\ identity' = [identity EXCEPT ![i] = row]
  BY <1>3, <1>4, StoredForms DEF AccountsInv, AccountRowsInv, AccountRows, Local
<1>6. ~Clashes(row, {i})
  BY <1>3, <1>5 DEF AccountsInv, AccountRowsInv, Unique, Clashes, Local
<1>7. members' = members \cup {row.of}
  BY <1>3, <1>5 DEF AccountsInv, AccountRowsInv, Local
<1>8. Keeps /\ (TokensInv' => AccountRowsInv')
  BY <1>3, <1>5, <1>6, <1>7, RowWritten DEF AccountsInv, Local
<1>9. TokensInv'
  <2>. DEFINE S == {x \in Tokens : x = t \/ (token[x] # NoToken /\ token[x].of = i)}
  <2>1. token' = [x \in Tokens |-> IF x \in S THEN [token[x] EXCEPT !.used = TRUE] ELSE token[x]]
    BY <1>3 DEF Retire
  <2>2. S \subseteq Tokens /\ \A x \in Tokens : token[x] # NoToken /\ token[x].of = i => x \in S
    OBVIOUS
  <2>3. outdated' = outdated \cup {x \in Tokens : token[x] # NoToken /\ token[x].of = i}
    BY <1>3 DEF Outdate
  <2>. HIDE DEF S
  <2>. QED  BY <1>8, <2>1, <2>2, <2>3, TokensRetire DEF AccountsInv, AccountRowsInv
<1>. QED  BY <1>3, <1>8, <1>9, CallGoes, PlainForms

LEMMA EditStep ==
    ASSUME AccountsInv, NEW c \in Clients, Edit(c)
    PROVE  AccountsInv'
<1>1. Editing(call[c]) /\ Holds(call[c])
  BY FormOf DEF Edit, AccountsInv, Calls
<1>2. PICK i \in Identities, row \in AccountRows : i = call[c].id /\ row = Edited(c)
  <2>1. CASE call[c].secret = "same" \/ call[c].row.kind = "oidc"
    BY <1>1, <2>1 DEF Editing, Edited
  <2>2. CASE ~(call[c].secret = "same" \/ call[c].row.kind = "oidc")
    <3>1. call[c].row \in AccountRows /\ call[c].row.kind = "local" /\ call[c].secret \in Passwords
      BY <1>1, <2>2 DEF Editing, AccountRows
    <3>2. [call[c].row EXCEPT !.secret = call[c].secret] \in AccountRows
      BY <3>1 DEF AccountRows
    <3>. QED  BY <1>1, <2>2, <3>2 DEF Edited, Editing
  <2>. QED  BY <2>1, <2>2
<1>3. /\ Stored(i) /\ row.of = identity[i].of /\ row.kind = identity[i].kind
      /\ row.kind = "oidc" => row.secret = identity[i].secret
  <2>1. /\ row.of = call[c].row.of /\ row.kind = call[c].row.kind
        /\ row.kind = "oidc" => row.secret = call[c].row.secret
    BY <1>1, <1>2 DEF Edited, Editing, AccountRows
  <2>. QED  BY <1>1, <1>2, <2>1 DEF Holds
<1>4. CASE Clashes(row, {i})
  <2>1. UNCHANGED <<members, identity, token, outdated, tested>> /\ Does(c, Over)
    BY <1>2, <1>4 DEF Edit
  <2>. QED  BY <2>1, OneCall, PlainForms, PlainHolds
<1>5. CASE ~Clashes(row, {i})
  <2>1. /\ identity' = [identity EXCEPT ![i] = row] /\ UNCHANGED <<members, tested>> /\ Does(c, Over)
        /\ \/ UNCHANGED <<token, outdated>>
           \/ /\ token' = [t \in Tokens |-> IF token[t] # NoToken /\ token[t].of = i
                                           THEN [token[t] EXCEPT !.used = TRUE] ELSE token[t]]
              /\ Outdate(i)
    BY <1>2, <1>5 DEF Edit
  <2>2. members' = members \cup {row.of}
    BY <1>3, <2>1 DEF AccountsInv, AccountRowsInv
  <2>3. Keeps /\ (TokensInv' => AccountRowsInv')
    BY <1>3, <1>5, <2>1, <2>2, RowWritten DEF AccountsInv
  <2>4. CASE UNCHANGED <<token, outdated>>
    BY <2>1, <2>3, <2>4, TokensOn, CallGoes, PlainForms DEF AccountsInv, AccountRowsInv
  <2>5. CASE /\ token' = [t \in Tokens |-> IF token[t] # NoToken /\ token[t].of = i
                                          THEN [token[t] EXCEPT !.used = TRUE] ELSE token[t]]
             /\ Outdate(i)
    <3>. DEFINE S == {x \in Tokens : token[x] # NoToken /\ token[x].of = i}
    <3>1. token' = [x \in Tokens |-> IF x \in S THEN [token[x] EXCEPT !.used = TRUE] ELSE token[x]]
      BY <2>5
    <3>2. S \subseteq Tokens /\ \A x \in Tokens : token[x] # NoToken /\ token[x].of = i => x \in S
      OBVIOUS
    <3>3. outdated' = outdated \cup {x \in Tokens : token[x] # NoToken /\ token[x].of = i}
      BY <2>5 DEF Outdate
    <3>. HIDE DEF S
    <3>4. TokensInv'
      BY <2>3, <3>1, <3>2, <3>3, TokensRetire DEF AccountsInv, AccountRowsInv
    <3>. QED  BY <2>1, <2>3, <3>4, CallGoes, PlainForms
  <2>. QED  BY <2>1, <2>4, <2>5
<1>. QED  BY <1>4, <1>5

LEMMA SettingStep ==
    ASSUME AccountsInv, NEW c \in Clients, SettingsReread(c) \/ SettingsWrite(c)
    PROVE  AccountsInv'
<1>1. CASE SettingsReread(c)
  <2>1. PICK p, s : call[c] = [at |-> "patch", patch |-> p, seen |-> {s}] /\ KeepsOpen(Patched(p, s))
    BY <1>1, FormOf DEF SettingsReread, AccountsInv, Calls, Setting
  <2>2. PICK t : t = settings
    OBVIOUS
  <2>3. PICK y : y = [at |-> "settings", all |-> Patched(p, t), seen |-> {s, t}]
    OBVIOUS
  <2>4. call[c].patch = p /\ call[c].seen \cup {settings} = {s, t}
    BY <2>1, <2>2
  <2>5. Does(c, y) /\ UNCHANGED <<members, identity, token, outdated, tested>>
    BY <1>1, <2>2, <2>3, <2>4 DEF SettingsReread
  <2>6. s = t => KeepsOpen(Patched(p, t))
    BY <2>1
  <2>7. Setting(y) /\ y.at = "settings"
    BY <2>3, <2>6 DEF Setting
  <2>8. Form(y) /\ Holds(y)
    BY <2>7 DEF Form, Holds, Entered, Resetting, Editing
  <2>. QED  BY <2>5, <2>8, OneCall
<1>2. CASE SettingsWrite(c)
  BY <1>2, OneCall, PlainForms, PlainHolds DEF SettingsWrite
<1>. QED  BY <1>1, <1>2

LEMMA DecideStep ==
    ASSUME AccountsInv, NEW c \in Clients, Decide(c)
    PROVE  AccountsInv'
<1>1. UNCHANGED <<members, identity, token, outdated, tested>>
  BY DEF Decide
<1>2. CASE Login(c)
  <2>1. call[c].as \in People
    BY <1>2, FormOf DEF Login, AccountsInv, Calls
  <2>2. PICK x : Does(c, x) /\ (x = Over \/ x = SignedIn(call[c].as))
    BY <1>2 DEF Login
  <2>. QED  BY <1>1, <2>1, <2>2, OneCall, PlainForms, PlainHolds
<1>3. CASE MemberAllowed(c) \/ MemberSeats(c)
  <2>1. PICK n : \E p \in {"allowed", "seats"} : \E r \in AccountRows :
            call[c] = [at |-> p, count |-> n, row |-> r]
    BY <1>3, FormOf DEF MemberAllowed, MemberSeats, AccountsInv, Calls, AddingMember
  <2>2. PICK p \in {"allowed", "seats"}, row \in AccountRows : call[c] = [at |-> p, count |-> n, row |-> row]
    BY <2>1
  <2>3. /\ [call[c] EXCEPT !.at = "seats"] = [at |-> "seats", count |-> n, row |-> row]
        /\ call[c].row = row
    BY <2>2
  <2>4. PICK x : /\ Does(c, x)
                 /\ \/ x = Over \/ x = [at |-> "seats", count |-> n, row |-> row]
                    \/ x = ToInsert(row, TRUE)
    BY <1>3, <2>3 DEF MemberAllowed, MemberSeats
  <2>5. Plain(x)
    BY <2>4, PlainForms
  <2>. QED  BY <1>1, <2>4, <2>5, OneCall, PlainHolds
<1>. QED  BY <1>2, <1>3 DEF Decide

LEMMA AccountsInvStep == AccountsInv /\ FromScene /\ [ServerNext]_<<vars, parts>> => AccountsInv'
<1>. SUFFICES ASSUME AccountsInv, FromScene, [ServerNext]_<<vars, parts>> PROVE AccountsInv'
  OBVIOUS
<1>1. CASE UNCHANGED accounts
  <2>1. Keeps
    BY <1>1 DEF accounts, Keeps, Stored
  <2>2. ASSUME NEW c \in Clients PROVE Form(call'[c]) /\ Holds(call[c])'
    BY <1>1 DEF AccountsInv, Calls, accounts, Holds, Stored, Local
  <2>. QED  BY <1>1, <2>2 DEF AccountsInv, AccountRowsInv, TokensInv, Unique, Stored, Clashes, Local, Calls,
                              accounts
<1>2. ASSUME NEW c \in Clients, GoOn(c) PROVE AccountsInv'
  BY <1>2, InsertStep, AddsStep, IssueStep, CompleteStep, EditStep, SettingStep DEF GoOn
<1>3. ASSUME NEW h \in Hosts, TestSmtp(h) PROVE AccountsInv'
  <2>1. ASSUME NEW c \in Clients PROVE Form(call'[c]) /\ Holds(call[c])'
    BY <1>3 DEF AccountsInv, Calls, TestSmtp, Holds, Stored, Local
  <2>. QED  BY <1>3, <2>1 DEF TestSmtp, AccountsInv, AccountRowsInv, TokensInv, Unique, Stored, Clashes, Local,
                              Calls
<1>4. CASE Restart
  <2>1. ASSUME NEW c \in Clients PROVE Form(call'[c]) /\ Holds(call[c])'
    <3>1. PICK x : x = call'[c]
      OBVIOUS
    <3>2. x = Idle \/ x = Over
      BY <1>4, <3>1 DEF Restart
    <3>3. Form(x) /\ Holds(x)'
      BY <3>2, PlainForms, PlainHolds
    <3>. QED  BY <3>1, <3>3 DEF Holds, Entered, Resetting, Editing
  <2>2. Calls'
    BY <1>4, <2>1 DEF Restart, Calls
  <2>. QED  BY <1>4, <2>2 DEF Restart, AccountsInv, AccountRowsInv, TokensInv, Unique, Stored, Clashes, Local
<1>5. CASE ~UNCHANGED accounts
  <2>1. AccountsStep
    BY <1>5, AccountsMove DEF accounts
  <2>2. scene.callers \subseteq Clients
    BY <2>1, ServerAssumption DEF AccountsStep, FromScene, Orderly
  <2>. QED  BY <1>2, <1>3, <1>4, <1>5, <2>1, <2>2, BeginStep, DecideStep DEF AccountsStep, Consult
<1>. QED  BY <1>1, <1>5

LEMMA AccountsKept == ServerSpec => []AccountsInv
BY AccountsInvInit, AccountsInvStep, SceneKept, PTL DEF ServerSpec

\* The rows of accounts are of their types: e-mails and subjects are unique, everybody
\* with an account can sign in somehow, and a good token is of a stored identity
\* (auth_identity_email_unique; completePasswordReset, updateHouseholdMember).
THEOREM AccountsTyped == ServerSpec => []AccountsTypeOK
<1>1. AccountsInv => AccountsTypeOK
  <2>. SUFFICES ASSUME AccountsInv PROVE AccountsTypeOK
    OBVIOUS
  <2>1. ASSUME NEW i \in Identities, Stored(i)
        PROVE  /\ identity[i].of \in members /\ identity[i].email \in Emails
               /\ identity[i].secret \in IF Local(i) THEN Passwords ELSE Subjects
               /\ ~Clashes(identity[i], {i})
    BY <2>1 DEF AccountsInv, AccountRowsInv, Unique, Stored, Local, AccountRows
  <2>2. \A u \in members : OwnedBy(u) # {}
    BY DEF AccountsInv, AccountRowsInv, OwnedBy
  <2>3. ASSUME NEW t \in Tokens, ~token[t].used PROVE Stored(token[t].of)
    BY <2>3 DEF AccountsInv, AccountRowsInv, TokensInv, Local
  <2>. QED  BY <2>1, <2>2, <2>3 DEF AccountsTypeOK, AccountsInv, AccountRowsInv
<1>. QED  BY <1>1, AccountsKept, PTL

\* A token issued before a change of the password cannot change it again, whether a
\* reset or an administrator changed it (retireTokens, updateHouseholdMember).
THEOREM OutdatedTokensDie == ServerSpec => []OldTokensDie
<1>1. AccountsInv => OldTokensDie
  BY DEF AccountsInv, AccountRowsInv, TokensInv, OldTokensDie
<1>. QED  BY <1>1, AccountsKept, PTL

\* First sign-ins of one subject of the provider, side by side, end as one person
\* (completeOidcLogin with the unique pair of provider and subject).
THEOREM SubjectsArePeople == ServerSpec => []SameSubjectSamePerson
<1>1. ASSUME AccountsInv PROVE SameSubjectSamePerson
  <2>. SUFFICES ASSUME NEW c \in Clients, NEW d \in Clients, "subject" \in DOMAIN call[c],
                       "subject" \in DOMAIN call[d], call[c].subject = call[d].subject
                PROVE  call[c].as = call[d].as
    BY DEF SameSubjectSamePerson
  <2>1. PICK i \in Identities : /\ Stored(i) /\ identity[i].kind = "oidc"
                               /\ identity[i].secret = call[c].subject /\ identity[i].of = call[c].as
    BY <1>1, FormOf DEF AccountsInv, Calls, Holds
  <2>2. PICK j \in Identities : /\ Stored(j) /\ identity[j].kind = "oidc"
                               /\ identity[j].secret = call[d].subject /\ identity[j].of = call[d].as
    BY <1>1, FormOf DEF AccountsInv, Calls, Holds
  <2>3. i = j
    BY <1>1, <2>1, <2>2 DEF AccountsInv, AccountRowsInv, Unique, Clashes
  <2>. QED  BY <2>1, <2>2, <2>3
<1>. QED  BY <1>1, AccountsKept, PTL

\* A change of the settings closes the last way to sign in only where another change
\* came between its reading and its writing (updateSettings).
THEOREM AWayInIsKept == ServerSpec => KeepsAWayIn
<1>. DEFINE Safe == KeepsOpen(settings) =>
                      \/ KeepsOpen(settings')
                      \/ \E c \in Clients : call[c].at = "settings" /\ call[c].seen # {settings}
<1>1. AccountsInv /\ [ServerNext]_<<vars, parts>> => [Safe]_accounts
  <2>. SUFFICES ASSUME AccountsInv, [ServerNext]_<<vars, parts>>, ~UNCHANGED accounts PROVE Safe
    OBVIOUS
  <2>4. ASSUME NEW c, NEW calls, Begin(c, calls) PROVE UNCHANGED settings
    BY <2>4 DEF Begin, Reads, LoginRead, SignupRead, MemberRead, OidcLogin, OidcKnown, OidcLink, OidcNew,
      ResetRead, CompleteRead, EditRead, SettingsRead
  <2>1. UNCHANGED settings \/ \E c \in Clients : SettingsWrite(c)
    <3>1. ASSUME NEW c, GoOn(c) PROVE UNCHANGED settings \/ SettingsWrite(c)
      BY <3>1 DEF GoOn, InsertRow, EditAdds, IssueToken, Complete, Edit, SettingsReread
    <3>2. ASSUME NEW c, Consult(c) \/ Decide(c) PROVE UNCHANGED settings
      BY <3>2 DEF Consult, Decide, accounts
    <3>3. AccountsStep
      BY AccountsMove DEF accounts
    <3>. QED  BY <2>4, <3>1, <3>2, <3>3 DEF AccountsStep, accounts, TestSmtp, Restart
  <2>2. ASSUME NEW c \in Clients, SettingsWrite(c) PROVE Safe
    <3>5. Setting(call[c]) /\ call[c].at = "settings"
      BY <2>2, FormOf DEF SettingsWrite, AccountsInv, Calls
    <3>1. PICK a, s, t : /\ call[c] = [at |-> "settings", all |-> a, seen |-> {s, t}]
                         /\ s = t => KeepsOpen(a)
      <4>1. PICK x : x = call[c]
        OBVIOUS
      <4>2. ASSUME NEW p, NEW s, x = [at |-> "patch", patch |-> p, seen |-> {s}] PROVE FALSE
        BY <3>5, <4>1, <4>2
      <4>3. \E a : \E s : \E t : x = [at |-> "settings", all |-> a, seen |-> {s, t}] /\ (s = t => KeepsOpen(a))
        BY <3>5, <4>1, <4>2, Zenon DEF Setting
      <4>. QED  BY <4>1, <4>3, Zenon
    <3>2. settings' = a /\ call[c].at = "settings" /\ call[c].seen = {s, t}
      BY <2>2, <3>1 DEF SettingsWrite
    <3>3. CASE s = t
      BY <3>1, <3>2, <3>3
    <3>4. CASE s # t
      BY <3>2, <3>4
    <3>. QED  BY <3>3, <3>4
  <2>3. CASE UNCHANGED settings
    BY <2>3
  <2>. QED  BY <2>1, <2>2, <2>3
<1>. QED  BY <1>1, AccountsKept, PTL DEF ServerSpec, KeepsAWayIn

-----------------------------------------------------------------------------
LEMMA BonusesMove ==
    ASSUME [ServerNext]_<<vars, parts>>
    PROVE  [\E calls : BonusesNext(calls)]_bonuses
BY DEF ServerNext, vars, parts, AccountsStep, TemplatesStep, BonusesStep, DashboardStep, TurnsStep,
      CalendarStep, StartersStep, PrizesStep

\* The forms of a call that approves, by the places it passes.
EarnedRow == [progress : Nat, times : Nat]
Working ==
    [at : {"review", "clear", "day", "record", "progress"}, kind : {"approve", "submit"},
     task : Tasks, who : Doers]
Perfecting ==
    [at : {"progress"}, kind : {"approve", "submit"}, task : Tasks, who : Doers, perfect : {TRUE}]
Achieving ==
    [at : {"achieve"}, kind : {"approve", "submit"}, task : Tasks, who : Doers,
     read : [Achievements -> EarnedRow], todo : SUBSET Achievements]
Counting(x, p, r) ==
    \E k \in {"approve", "helpers"}, j \in Tasks, u \in Doers : \E T :
        x = [at |-> p, kind |-> k, task |-> j, who |-> u, read |-> r, todo |-> T]
Levels == [to : 1..2, of : Doers]
Levelling(x) == \E r \in Levels : Counting(x, "level", r)
Mastering(x) == \E r : Counting(x, "master", r)
Approves(x) ==
    \/ x \in [at : {"idle", "done"}] \/ (\E row : x = [at |-> "join", row |-> row])
    \/ x \in Working \cup Perfecting \cup Achieving \/ Mastering(x) \/ Levelling(x)

BonusTypes ==
    /\ task \in [Tasks -> TaskRows]
    /\ mastery \in [Doers -> [count : Nat, level : 0..2]]
    /\ earned \in [Doers -> [Achievements -> EarnedRow]]
    /\ perfectDays \in [Doers -> Nat]
    /\ completions \in [Doers -> Nat]
    /\ DOMAIN approval = Approvals /\ \A a \in Approvals : Approves(approval[a])

LEMMA ApprovalOf ==
    ASSUME NEW x, Approves(x)
    PROVE  /\ x.at \in {"review", "clear", "day", "record"} => x \in Working
           /\ x.at = "progress" => x \in Working \cup Perfecting
           /\ x.at = "achieve" => x \in Achieving
           /\ x.at = "master" => Mastering(x)
           /\ x.at = "level" => Levelling(x)
<1>1. ASSUME NEW p, NEW r, Counting(x, p, r) PROVE x.at = p
  BY <1>1 DEF Counting
<1>2. (Mastering(x) => x.at = "master") /\ (Levelling(x) => x.at = "level")
  BY <1>1 DEF Mastering, Levelling
<1>3. (\E row : x = [at |-> "join", row |-> row]) => x.at = "join"
  OBVIOUS
<1>. QED  BY <1>2, <1>3 DEF Approves, Working, Perfecting, Achieving

\* One approval goes on, from a form to a form.
Onward(a, next) == approval' = [approval EXCEPT ![a] = next] /\ Approves(next)
LEMMA OneOnward ==
    ASSUME BonusTypes, NEW a \in Approvals, NEW x, Onward(a, x)
    PROVE  /\ approval'[a] = x /\ \A b \in Approvals \ {a} : approval'[b] = approval[b]
           /\ DOMAIN approval' = Approvals /\ \A b \in Approvals : Approves(approval'[b])
<1>1. approval'[a] = x /\ \A b \in Approvals \ {a} : approval'[b] = approval[b]
  BY DEF Onward, BonusTypes
<1>. QED  BY <1>1 DEF Onward, BonusTypes

LEMMA WorkingOn ==
    ASSUME NEW x \in Working, NEW p \in {"review", "clear", "day", "record", "progress"}
    PROVE  /\ [x EXCEPT !.at = p] \in Working /\ [x EXCEPT !.at = p].at = p
           /\ [x EXCEPT !.at = p].who = x.who /\ [x EXCEPT !.at = p].task = x.task
BY DEF Working

\* What every step leaves true of the rows the calls rely on.
\* A count never falls, and a chore keeps its assignee.
Grows ==
    /\ \A j \in Tasks : task'[j].who = task[j].who
    /\ \A u \in Doers : /\ completions'[u] >= completions[u] /\ mastery'[u].count >= mastery[u].count
                        /\ perfectDays'[u] >= perfectDays[u]

LEMMA HandInStep ==
    ASSUME BonusTypes, NEW j \in Tasks, HandIn(j)
    PROVE  BonusTypes' /\ Grows
<1>1. task' \in [Tasks -> TaskRows] /\ \A k \in Tasks : task'[k].who = task[k].who
  BY DEF HandIn, BonusTypes, TaskRows
<1>. QED  BY <1>1 DEF HandIn, BonusTypes, Grows

LEMMA ReviewStep ==
    ASSUME BonusTypes, NEW a \in Approvals, Review(a)
    PROVE  \E x, y : /\ x = approval[a] /\ x \in Working /\ x.at = "review" /\ Onward(a, y)
                     /\ UNCHANGED <<mastery, earned, perfectDays, completions>>
                     /\ \/ /\ task' = [task EXCEPT ![x.task].state = "done"]
                           /\ y \in Working /\ y.at = "clear" /\ y.who = x.who /\ y.task = x.task
                        \/ /\ task' = task
                           /\ y = Returned \/ (y \in Working /\ y.at = "progress")
<1>1. PICK x \in Working : x = approval[a] /\ x.at = "review"
  BY ApprovalOf DEF Review, BonusTypes
<1>2. CASE task' = [task EXCEPT ![x.task].state = "done"] /\ GoesTo(a, "clear")
  <2>1. PICK y : y = [x EXCEPT !.at = "clear"]
    OBVIOUS
  <2>2. y \in Working /\ y.at = "clear" /\ y.who = x.who /\ y.task = x.task
    BY <2>1, WorkingOn
  <2>3. Onward(a, y)
    BY <1>1, <1>2, <2>1, <2>2 DEF Onward, GoesTo, Turns, Approves
  <2>. QED  BY <1>1, <1>2, <2>2, <2>3 DEF Review
<1>3. CASE /\ task' = task
           /\ Turns(a, IF task[x.task].state = "done" THEN [x EXCEPT !.at = "progress"] ELSE Returned)
  <2>1. PICK y : y = IF task[x.task].state = "done" THEN [x EXCEPT !.at = "progress"] ELSE Returned
    OBVIOUS
  <2>2. y = Returned \/ (y \in Working /\ y.at = "progress")
    BY <2>1, WorkingOn
  <2>3. Onward(a, y)
    BY <1>3, <2>1, <2>2 DEF Onward, Turns, Approves, Returned
  <2>. QED  BY <1>1, <1>3, <2>2, <2>3 DEF Review
<1>. QED  BY <1>1, <1>2, <1>3 DEF Review

LEMMA DayStep ==
    ASSUME BonusTypes, NEW a \in Approvals, DayClear(a) \/ DayFind(a)
    PROVE  \E x, y : /\ x = approval[a] /\ x \in Working /\ x.at \in {"clear", "day"} /\ Onward(a, y)
                     /\ y \in Working /\ y.who = x.who /\ y.task = x.task
                     /\ y.at \in {"progress", "day", "record"}
                     /\ y.at = "progress" =>
                           \/ \E j \in Tasks : task[j].who = x.who /\ task[j].state \in Blocking
                           \/ perfectDays[x.who] > 0
                     /\ UNCHANGED <<task, mastery, earned, perfectDays, completions>>
<1>1. PICK x \in Working : x = approval[a] /\ x.at \in {"clear", "day"}
  BY ApprovalOf DEF DayClear, DayFind, BonusTypes
<1>2. PICK p \in {"progress", "day", "record"} :
          /\ GoesTo(a, p)
          /\ p = "progress" =>
                \/ \E j \in Tasks : task[j].who = x.who /\ task[j].state \in Blocking
                \/ perfectDays[x.who] > 0
  BY <1>1 DEF DayClear, DayFind
<1>3. PICK y : y = [x EXCEPT !.at = p]
  OBVIOUS
<1>4. y \in Working /\ y.at = p /\ y.who = x.who /\ y.task = x.task
  BY <1>3 DEF Working
<1>5. Onward(a, y)
  BY <1>1, <1>2, <1>3, <1>4 DEF Onward, GoesTo, Turns, Approves
<1>. QED  BY <1>1, <1>2, <1>4, <1>5 DEF DayClear, DayFind

LEMMA RecordStep ==
    ASSUME BonusTypes, NEW a \in Approvals, DayRecord(a)
    PROVE  \E x, y : /\ x = approval[a] /\ x \in Working /\ x.at = "record" /\ Onward(a, y)
                     /\ y \in Perfecting /\ y.who = x.who /\ y.at = "progress"
                     /\ perfectDays' = [perfectDays EXCEPT ![x.who] = @ + 1]
                     /\ UNCHANGED <<task, mastery, earned, completions>>
<1>1. PICK x \in Working : x = approval[a] /\ x.at = "record"
  BY ApprovalOf DEF DayRecord, BonusTypes
<1>2. PICK y : y = [at |-> "progress", kind |-> x.kind, task |-> x.task, who |-> x.who, perfect |-> TRUE]
  OBVIOUS
<1>3. y \in Perfecting /\ y.who = x.who /\ y.at = "progress"
  BY <1>2 DEF Working, Perfecting
<1>4. Onward(a, y)
  BY <1>1, <1>2, <1>3 DEF Onward, DayRecord, Turns, Approves
<1>. QED  BY <1>1, <1>3, <1>4 DEF DayRecord

LEMMA ReadStepOf ==
    ASSUME BonusTypes, NEW a \in Approvals, ProgressRead(a)
    PROVE  \E x, y : /\ x = approval[a] /\ x \in Working \cup Perfecting /\ x.at = "progress" /\ Onward(a, y)
                     /\ y \in Achieving /\ y.who = x.who /\ y.read = earned[x.who]
                     /\ "perfect" \in y.todo => x \in Perfecting
                     /\ completions' = [completions EXCEPT ![x.who] = @ + 1]
                     /\ UNCHANGED <<task, mastery, earned, perfectDays>>
<1>1. PICK x \in Working \cup Perfecting : x = approval[a] /\ x.at = "progress"
  BY ApprovalOf DEF ProgressRead, BonusTypes
<1>2. PICK y : y = [at |-> "achieve", kind |-> x.kind, task |-> x.task, who |-> x.who,
                   read |-> earned[x.who], todo |-> Advances(a)]
  OBVIOUS
<1>3. x.who \in Doers /\ x.kind \in {"approve", "submit"} /\ x.task \in Tasks
  BY DEF Working, Perfecting
<1>4. earned[x.who] \in [Achievements -> EarnedRow]
  BY <1>3 DEF BonusTypes
<1>5. Advances(a) \subseteq Achievements /\ ("perfect" \in Advances(a) => "perfect" \in DOMAIN x)
  BY <1>1 DEF Advances
<1>6. "perfect" \in DOMAIN x => x \in Perfecting
  BY DEF Working
<1>7. y \in Achieving /\ y.who = x.who /\ y.read = earned[x.who] /\ ("perfect" \in y.todo => x \in Perfecting)
  BY <1>2, <1>3, <1>4, <1>5, <1>6 DEF Achieving
<1>8. Onward(a, y)
  BY <1>1, <1>2, <1>7 DEF Onward, ProgressRead, Turns, Approves
<1>. QED  BY <1>1, <1>7, <1>8 DEF ProgressRead

LEMMA AchieveStep ==
    ASSUME BonusTypes, NEW a \in Approvals, NEW k \in Achievements, Achieve(a, k)
    PROVE  \E x, y : /\ x = approval[a] /\ x \in Achieving /\ Onward(a, y) /\ y \in Achieving
                     /\ y.who = x.who /\ y.read = x.read /\ k \in x.todo /\ y.todo = x.todo \ {k}
                     /\ earned' = [earned EXCEPT ![x.who][k] = Advanced(k, x.read[k], earned[x.who][k])]
                     /\ UNCHANGED <<task, mastery, perfectDays, completions>>
<1>1. PICK x \in Achieving : x = approval[a] /\ k \in x.todo
  BY ApprovalOf DEF Achieve, BonusTypes
<1>2. PICK y : y = [x EXCEPT !.todo = @ \ {k}]
  OBVIOUS
<1>3. y \in Achieving /\ y.who = x.who /\ y.read = x.read /\ y.todo = x.todo \ {k}
  BY <1>2 DEF Achieving
<1>4. Onward(a, y)
  BY <1>1, <1>2, <1>3 DEF Onward, Achieve, Turns, Approves
<1>. QED  BY <1>1, <1>3, <1>4 DEF Achieve

LEMMA AchievedStep ==
    ASSUME BonusTypes, NEW a \in Approvals, Achieved(a)
    PROVE  \E x, y : /\ x = approval[a] /\ x \in Achieving /\ x.todo = {} /\ Onward(a, y)
                     /\ y = Returned \/ Mastering(y)
                     /\ UNCHANGED <<task, mastery, earned, perfectDays, completions>>
<1>1. PICK x \in Achieving : x = approval[a] /\ x.todo = {}
  BY ApprovalOf DEF Achieved, BonusTypes
<1>2. PICK y : y = IF x.kind = "submit" THEN Returned ELSE [x EXCEPT !.at = "master", !.todo = {x.who}]
  OBVIOUS
<1>3. CASE x.kind = "submit"
  <2>1. y = Returned /\ Onward(a, y)
    BY <1>1, <1>2, <1>3 DEF Onward, Achieved, Turns, Approves, Returned
  <2>. QED  BY <1>1, <2>1 DEF Achieved
<1>4. CASE x.kind # "submit"
  <2>1. x.kind = "approve" /\ x.task \in Tasks /\ x.who \in Doers
    BY <1>4 DEF Achieving
  <2>2. y = [at |-> "master", kind |-> "approve", task |-> x.task, who |-> x.who, read |-> x.read,
             todo |-> {x.who}]
    BY <1>2, <1>4, <2>1 DEF Achieving
  <2>3. Mastering(y)
    BY <2>1, <2>2 DEF Mastering, Counting
  <2>4. Onward(a, y)
    BY <1>1, <1>2, <1>4, <2>3 DEF Onward, Achieved, Turns, Approves
  <2>. QED  BY <1>1, <2>3, <2>4 DEF Achieved
<1>. QED  BY <1>3, <1>4

LEMMA CountStep ==
    ASSUME BonusTypes, NEW a \in Approvals, NEW u \in Doers, MasteryCount(a, u)
    PROVE  \E x, y : /\ x = approval[a] /\ Mastering(x) /\ Onward(a, y)
                     /\ mastery' = [mastery EXCEPT ![u].count = mastery[u].count + 1]
                     /\ \/ Mastering(y)
                        \/ \E r \in Levels : /\ Counting(y, "level", r) /\ r.of = u
                                             /\ r.to = LevelOf(mastery[u].count + 1, mastery[u].level)
                                             /\ r.to > mastery[u].level
                     /\ UNCHANGED <<task, earned, perfectDays, completions>>
<1>1. PICK x : x = approval[a] /\ Mastering(x)
  BY ApprovalOf DEF MasteryCount, BonusTypes
<1>2. PICK k \in {"approve", "helpers"}, j \in Tasks, v \in Doers : \E r : \E T :
          x = [at |-> "master", kind |-> k, task |-> j, who |-> v, read |-> r, todo |-> T]
  BY <1>1 DEF Mastering, Counting
<1>3. PICK r, T : x = [at |-> "master", kind |-> k, task |-> j, who |-> v, read |-> r, todo |-> T]
  BY <1>2
<1>4. PICK to : to = LevelOf(mastery[u].count + 1, mastery[u].level)
  OBVIOUS
<1>5. CASE to > mastery[u].level
  <2>1. PICK s : s = [to |-> to, of |-> u]
    OBVIOUS
  <2>2. s \in Levels /\ s.of = u /\ s.to = to
    BY <1>4, <1>5, <2>1 DEF Levels, LevelOf, BonusTypes
  <2>3. PICK y : y = [at |-> "level", kind |-> k, task |-> j, who |-> v, read |-> s, todo |-> T]
    OBVIOUS
  <2>4. y = [x EXCEPT !.at = "level", !.read = s]
    <3>1. PICK z : z = [x EXCEPT !.at = "level", !.read = s]
      OBVIOUS
    <3>2. x \in [at : {"master"}, kind : {k}, task : {j}, who : {v}, read : {r}, todo : {T}]
      BY <1>3
    <3>3. z \in [at : {"level"}, kind : {k}, task : {j}, who : {v}, read : {s}, todo : {T}]
      BY <3>1, <3>2
    <3>4. z = [at |-> "level", kind |-> k, task |-> j, who |-> v, read |-> s, todo |-> T]
      BY <3>3
    <3>. QED  BY <2>3, <3>1, <3>4
  <2>5. Counting(y, "level", s)
    BY <2>3 DEF Counting
  <2>6. Approves(y)
    BY <2>2, <2>5 DEF Approves, Levelling
  <2>7. Onward(a, y)
    BY <1>1, <1>4, <1>5, <2>1, <2>4, <2>6 DEF Onward, MasteryCount, Turns
  <2>. QED  BY <1>1, <1>4, <1>5, <2>2, <2>5, <2>7 DEF MasteryCount
<1>6. CASE ~(to > mastery[u].level)
  <2>1. PICK y : y = [at |-> "master", kind |-> k, task |-> j, who |-> v, read |-> r, todo |-> T \ {u}]
    OBVIOUS
  <2>2. y = [x EXCEPT !.todo = @ \ {u}]
    BY <1>3, <2>1
  <2>3. Mastering(y)
    BY <2>1 DEF Counting, Mastering
  <2>4. Onward(a, y)
    BY <1>1, <1>4, <1>6, <2>2, <2>3 DEF Onward, MasteryCount, Turns, Approves
  <2>. QED  BY <1>1, <2>3, <2>4 DEF MasteryCount
<1>. QED  BY <1>5, <1>6

LEMMA LevelStep ==
    ASSUME BonusTypes, NEW a \in Approvals, MasteryLevel(a)
    PROVE  \E x, y : /\ x = approval[a] /\ Onward(a, y) /\ Mastering(y)
                     /\ \E r \in Levels : /\ Counting(x, "level", r)
                                          /\ mastery' = [mastery EXCEPT ![r.of].level = r.to]
                     /\ UNCHANGED <<task, earned, perfectDays, completions>>
<1>1. PICK x : x = approval[a] /\ Levelling(x)
  BY ApprovalOf DEF MasteryLevel, BonusTypes
<1>2. PICK r \in Levels, k \in {"approve", "helpers"}, j \in Tasks, v \in Doers : \E T :
          x = [at |-> "level", kind |-> k, task |-> j, who |-> v, read |-> r, todo |-> T]
  BY <1>1 DEF Levelling, Counting
<1>3. PICK T : x = [at |-> "level", kind |-> k, task |-> j, who |-> v, read |-> r, todo |-> T]
  BY <1>2
<1>4. PICK y : y = [at |-> "master", kind |-> k, task |-> j, who |-> v, read |-> r, todo |-> T \ {r.of}]
  OBVIOUS
<1>5. y = [x EXCEPT !.at = "master", !.todo = @ \ {r.of}] /\ x.read = r
  <2>1. PICK z : z = [x EXCEPT !.at = "master", !.todo = @ \ {r.of}]
    OBVIOUS
  <2>2. x \in [at : {"level"}, kind : {k}, task : {j}, who : {v}, read : {r}, todo : {T}]
    BY <1>3
  <2>3. z \in [at : {"master"}, kind : {k}, task : {j}, who : {v}, read : {r}, todo : {T \ {r.of}}]
    BY <2>1, <2>2
  <2>4. z = [at |-> "master", kind |-> k, task |-> j, who |-> v, read |-> r, todo |-> T \ {r.of}]
    BY <2>3
  <2>. QED  BY <1>4, <2>1, <2>2, <2>4
<1>6. Mastering(y)
  BY <1>4 DEF Mastering, Counting
<1>7. Onward(a, y)
  BY <1>1, <1>5, <1>6 DEF Onward, MasteryLevel, Turns, Approves
<1>8. mastery' = [mastery EXCEPT ![r.of].level = r.to]
  BY <1>1, <1>5 DEF MasteryLevel
<1>9. Counting(x, "level", r)
  BY <1>3 DEF Counting
<1>. QED  BY <1>1, <1>6, <1>7, <1>8, <1>9 DEF MasteryLevel

LEMMA PayStep ==
    ASSUME BonusTypes, NEW a \in Approvals, PayHelpers(a)
    PROVE  \E x, y : /\ x = approval[a] /\ Mastering(x) /\ Onward(a, y) /\ (y = Returned \/ Mastering(y))
                     /\ UNCHANGED <<task, mastery, earned, perfectDays, completions>>
<1>1. PICK x : x = approval[a] /\ Mastering(x)
  BY ApprovalOf DEF PayHelpers, BonusTypes
<1>2. PICK k \in {"approve", "helpers"}, j \in Tasks, v \in Doers : \E r : \E T :
          x = [at |-> "master", kind |-> k, task |-> j, who |-> v, read |-> r, todo |-> T]
  BY <1>1 DEF Mastering, Counting
<1>3. PICK r, T : x = [at |-> "master", kind |-> k, task |-> j, who |-> v, read |-> r, todo |-> T]
  BY <1>2
<1>4. PICK H : H = HelpersOf(x.task)
  OBVIOUS
<1>5. PICK y : y = IF k = "approve" THEN [x EXCEPT !.kind = "helpers", !.todo = H] ELSE Returned
  OBVIOUS
<1>6. y = Returned \/ Mastering(y)
  <2>1. CASE k = "approve"
    <3>1. x \in [at : {"master"}, kind : {k}, task : {j}, who : {v}, read : {r}, todo : {T}]
      BY <1>3
    <3>2. y \in [at : {"master"}, kind : {"helpers"}, task : {j}, who : {v}, read : {r}, todo : {H}]
      BY <1>5, <2>1, <3>1
    <3>3. y = [at |-> "master", kind |-> "helpers", task |-> j, who |-> v, read |-> r, todo |-> H]
      BY <3>2
    <3>. QED  BY <3>3 DEF Mastering, Counting
  <2>. QED  BY <1>5, <2>1
<1>7. x.kind = k
  BY <1>3
<1>8. Onward(a, y)
  BY <1>1, <1>4, <1>5, <1>6, <1>7 DEF Onward, PayHelpers, Turns, Approves, Returned
<1>. QED  BY <1>1, <1>6, <1>8 DEF PayHelpers

\* A call that begins, and one that helps.
LEMMA BeginsStep ==
    ASSUME BonusTypes, NEW a \in Approvals,
           (\E j \in Tasks : ApproveRead(a, j) \/ SubmitRead(a, j)) \/ Helping(a)
    PROVE  \E y : /\ Onward(a, y) /\ UNCHANGED <<task, mastery, earned, perfectDays, completions>>
                  /\ approval[a].at \in {"idle", "join"}
                  /\ \/ y \in Working /\ y.at = "review" /\ y.who = task[y.task].who
                     \/ y.at \in {"join", "done"}
<1>1. ASSUME NEW j \in Tasks, NEW k \in {"approve", "submit"}, Work(a, j, k)
      PROVE  \E y : /\ Onward(a, y) /\ UNCHANGED <<task, mastery, earned, perfectDays, completions>>
                    /\ approval[a].at \in {"idle", "join"}
                    /\ y \in Working /\ y.at = "review" /\ y.who = task[y.task].who
  <2>1. PICK y : y = [at |-> "review", kind |-> k, task |-> j, who |-> task[j].who]
    OBVIOUS
  <2>2. y \in Working /\ y.at = "review" /\ y.who = task[y.task].who
    BY <2>1 DEF Working, BonusTypes, TaskRows
  <2>3. Onward(a, y)
    BY <1>1, <2>1, <2>2 DEF Onward, Work, Starts, Turns, Approves
  <2>. QED  BY <1>1, <2>2, <2>3 DEF Work, Starts, Waits
<1>2. ASSUME NEW row, Starts(a, [at |-> "join", row |-> row])
      PROVE  \E y : /\ Onward(a, y) /\ UNCHANGED <<task, mastery, earned, perfectDays, completions>>
                    /\ approval[a].at \in {"idle", "join"} /\ y.at = "join"
  <2>1. PICK y : y = [at |-> "join", row |-> row]
    OBVIOUS
  <2>2. Approves(y) /\ y.at = "join"
    BY <2>1 DEF Approves
  <2>3. /\ Onward(a, y) /\ approval[a].at \in {"idle", "join"}
        /\ UNCHANGED <<task, mastery, earned, perfectDays, completions>>
    BY <1>2, <2>1, <2>2 DEF Onward, Starts, Turns, Waits
  <2>. QED  BY <2>2, <2>3
<1>3. CASE Join(a)
  <2>1. PICK y : y = Returned
    OBVIOUS
  <2>2. Approves(y) /\ y.at = "done"
    BY <2>1 DEF Approves, Returned
  <2>. QED  BY <1>3, <2>1, <2>2 DEF Onward, Join, Turns
<1>4. CASE \E j \in Tasks : (\E u \in Doers : JoinRead(a, j, u)) \/ \E u \in Grown : SuperviseRead(a, j, u)
  BY <1>2, <1>4 DEF JoinRead, SuperviseRead
<1>5. CASE \E j \in Tasks : ApproveRead(a, j) \/ SubmitRead(a, j)
  BY <1>1, <1>5 DEF ApproveRead, SubmitRead
<1>. QED  BY <1>3, <1>4, <1>5 DEF Helping

\* One step of the bonuses, by what it does.
BonusCases(a) ==
    \/ Review(a) \/ DayClear(a) \/ DayFind(a) \/ DayRecord(a) \/ ProgressRead(a)
    \/ (\E k \in Achievements : Achieve(a, k)) \/ Achieved(a)
    \/ (\E u \in Doers : MasteryCount(a, u)) \/ MasteryLevel(a) \/ PayHelpers(a)
    \/ (\E j \in Tasks : ApproveRead(a, j) \/ SubmitRead(a, j)) \/ Helping(a)
LEMMA BonusSteps ==
    ASSUME [\E calls : BonusesNext(calls)]_bonuses
    PROVE  \/ UNCHANGED <<task, mastery, earned, perfectDays, approval, completions>>
           \/ \E j \in Tasks : HandIn(j)
           \/ \E a \in Approvals : BonusCases(a)
<1>1. CASE UNCHANGED bonuses
  BY <1>1 DEF bonuses
<1>2. ASSUME NEW calls, BonusesNext(calls)
      PROVE  \/ UNCHANGED <<task, mastery, earned, perfectDays, approval, completions>>
             \/ \E j \in Tasks : HandIn(j)
             \/ \E a \in Approvals : BonusCases(a)
  BY <1>2, Zenon DEF BonusesNext, BonusCases, Approving, Leave
<1>. QED  BY <1>1, <1>2

\* What stands behind a call on its way: the assignee of its chore, a completion that
\* was not counted in the progress it has read, the count for the level it writes.
Backs(x) ==
    /\ x \in Working /\ x.at = "review" => x.who = task[x.task].who
    /\ x \in Achieving /\ "chores" \in x.todo => x.read["chores"].progress + 1 <= completions[x.who]
    /\ \A r \in Levels : Counting(x, "level", r) =>
          (r.to = 1 => mastery[r.of].count >= Level1) /\ (r.to = 2 => mastery[r.of].count >= Level2)

\* A day that is finished is on record, or a call is on its way to see to it.
AtDay(x, u) == x \in Working /\ x.at \in {"clear", "day", "record"} /\ x.who = u
Finished(u) ==
    /\ \E j \in Tasks : task[j].who = u
    /\ \A j \in Tasks : task[j].who = u => task[j].state = "done"
DayInv == \A u \in Doers : Finished(u) => perfectDays[u] > 0 \/ \E a \in Approvals : AtDay(approval[a], u)

\* The perfect days that calls have recorded and not paid yet.
Owes(x, u) == (x \in Perfecting \/ (x \in Achieving /\ "perfect" \in x.todo)) /\ x.who = u
Owing(u) == {a \in Approvals : Owes(approval[a], u)}
PerfectInv ==
    \A u \in Doers : /\ IsFiniteSet(Owing(u))
                     /\ earned[u]["perfect"].times + Cardinality(Owing(u)) <= perfectDays[u]
CountInv ==
    \A u \in Doers :
        /\ mastery[u].level = 1 => mastery[u].count >= Level1
        /\ mastery[u].level = 2 => mastery[u].count >= Level2
        /\ earned[u]["chores"].progress <= completions[u]
        /\ earned[u]["chores"].times > 0 => completions[u] >= Goal
BacksAll == \A a \in Approvals : Backs(approval[a])
BonusInv == BonusTypes /\ BacksAll /\ DayInv /\ PerfectInv /\ CountInv

LEMMA BacksOn == ASSUME NEW x, Backs(x), BonusTypes, BonusTypes', Grows PROVE Backs(x)'
<1>1. x \in Working /\ x.at = "review" => x.who = task'[x.task].who
  BY DEF Backs, Grows, Working
<1>2. ASSUME x \in Achieving, "chores" \in x.todo
      PROVE  x.read["chores"].progress + 1 <= completions'[x.who]
  <2>1. x.who \in Doers /\ x.read["chores"].progress \in Nat
    BY <1>2 DEF Achieving, Achievements, EarnedRow
  <2>2. completions[x.who] \in Nat /\ completions'[x.who] \in Nat /\ completions'[x.who] >= completions[x.who]
    BY <2>1 DEF BonusTypes, Grows
  <2>3. x.read["chores"].progress + 1 <= completions[x.who]
    BY <1>2 DEF Backs
  <2>. QED  BY <2>1, <2>2, <2>3
<1>3. ASSUME NEW r \in Levels, Counting(x, "level", r)
      PROVE  (r.to = 1 => mastery'[r.of].count >= Level1) /\ (r.to = 2 => mastery'[r.of].count >= Level2)
  <2>1. r.of \in Doers
    BY DEF Levels
  <2>2. mastery[r.of].count \in Nat /\ mastery'[r.of].count \in Nat /\ mastery'[r.of].count >= mastery[r.of].count
    BY <2>1 DEF BonusTypes, Grows
  <2>. QED  BY <1>3, <2>2, BonusesAssumption DEF Backs
<1>. QED  BY <1>1, <1>2, <1>3 DEF Backs, Working, Achieving, Levels, Counting

LEMMA BacksAllOn ==
    ASSUME BonusTypes, BonusTypes', BacksAll, Grows, NEW a \in Approvals, NEW y, Onward(a, y), Backs(y)'
    PROVE  BacksAll'
<1>1. ASSUME NEW b \in Approvals PROVE Backs(approval[b])'
  <2>1. CASE b = a
    <3>1. approval'[b] = y
      BY <2>1, OneOnward
    <3>. QED  BY <3>1 DEF Backs, Counting, Working, Achieving, Levels
  <2>2. CASE b # a
    <3>1. PICK x : x = approval[b] /\ x = approval'[b]
      BY <2>2, OneOnward
    <3>2. Backs(x)'
      BY <3>1, BacksOn DEF BacksAll
    <3>. QED  BY <3>1, <3>2 DEF Backs, Counting, Working, Achieving, Levels
  <2>. QED  BY <2>1, <2>2
<1>. QED  BY <1>1 DEF BacksAll

LEMMA FewerOwing ==
    ASSUME BonusTypes, PerfectInv, NEW a \in Approvals, NEW x, x = approval[a], NEW y, Onward(a, y),
           NEW u \in Doers, Owes(y, u) => Owes(x, u)
    PROVE  /\ IsFiniteSet(Owing(u)') /\ Cardinality(Owing(u)') \in Nat /\ Cardinality(Owing(u)) \in Nat
           /\ Cardinality(Owing(u)') <= Cardinality(Owing(u))
           /\ Owes(x, u) /\ ~Owes(y, u) => Cardinality(Owing(u)') <= Cardinality(Owing(u)) - 1
<1>1. /\ approval'[a] = y /\ \A b \in Approvals \ {a} : approval'[b] = approval[b]
  BY OneOnward
<1>2. \A b \in Approvals : b \in Owing(u)' <=> Owes(approval'[b], u)
  BY DEF Owing, Owes, Perfecting, Achieving, EarnedRow
<1>3. Owing(u)' \subseteq Owing(u)
  BY <1>1, <1>2 DEF Owing
<1>4. IsFiniteSet(Owing(u)) /\ Cardinality(Owing(u)) \in Nat
  BY FS_CardinalityType DEF PerfectInv
<1>5. IsFiniteSet(Owing(u)') /\ Cardinality(Owing(u)') <= Cardinality(Owing(u))
  BY <1>3, <1>4, FS_Subset
<1>6. ASSUME Owes(x, u), ~Owes(y, u) PROVE Cardinality(Owing(u)') <= Cardinality(Owing(u)) - 1
  <2>1. a \in Owing(u) /\ a \notin Owing(u)'
    BY <1>1, <1>2, <1>6 DEF Owing
  <2>2. Owing(u)' \subseteq Owing(u) \ {a}
    BY <1>3, <2>1
  <2>3. IsFiniteSet(Owing(u) \ {a}) /\ Cardinality(Owing(u) \ {a}) = Cardinality(Owing(u)) - 1
    BY <1>4, <2>1, FS_RemoveElement
  <2>. QED  BY <2>2, <2>3, FS_Subset
<1>. QED  BY <1>4, <1>5, <1>6, FS_CardinalityType

LEMMA OneMoreOwing ==
    ASSUME BonusTypes, PerfectInv, NEW a \in Approvals, NEW y, Onward(a, y), NEW u \in Doers
    PROVE  /\ IsFiniteSet(Owing(u)') /\ Cardinality(Owing(u)') \in Nat /\ Cardinality(Owing(u)) \in Nat
           /\ Cardinality(Owing(u)') <= Cardinality(Owing(u)) + 1
<1>1. /\ approval'[a] = y /\ \A b \in Approvals \ {a} : approval'[b] = approval[b]
  BY OneOnward
<1>2. \A b \in Approvals : b \in Owing(u)' <=> Owes(approval'[b], u)
  BY DEF Owing, Owes, Perfecting, Achieving, EarnedRow
<1>3. Owing(u)' \subseteq Owing(u) \cup {a}
  BY <1>1, <1>2 DEF Owing
<1>4. IsFiniteSet(Owing(u)) /\ Cardinality(Owing(u)) \in Nat
  BY FS_CardinalityType DEF PerfectInv
<1>5. /\ IsFiniteSet(Owing(u) \cup {a}) /\ Cardinality(Owing(u) \cup {a}) \in Nat
      /\ Cardinality(Owing(u) \cup {a}) <= Cardinality(Owing(u)) + 1
  <2>1. PICK S : S = Owing(u)
    OBVIOUS
  <2>2. /\ IsFiniteSet(S \cup {a})
        /\ Cardinality(S \cup {a}) = IF a \in S THEN Cardinality(S) ELSE Cardinality(S) + 1
    BY <1>4, <2>1, FS_AddElement
  <2>. QED  BY <1>4, <2>1, <2>2
<1>. QED  BY <1>3, <1>4, <1>5, FS_Subset, FS_CardinalityType

LEMMA PerfectOn ==
    ASSUME BonusTypes, PerfectInv, NEW a \in Approvals, NEW x, x = approval[a], NEW y, Onward(a, y),
           \A u \in Doers : Owes(y, u) => Owes(x, u), UNCHANGED perfectDays,
           \A u \in Doers : earned'[u]["perfect"].times = earned[u]["perfect"].times
    PROVE  PerfectInv'
<1>1. ASSUME NEW u \in Doers
      PROVE  /\ IsFiniteSet(Owing(u)')
             /\ earned'[u]["perfect"].times + Cardinality(Owing(u)') <= perfectDays'[u]
  <2>1. /\ IsFiniteSet(Owing(u)') /\ Cardinality(Owing(u)') \in Nat /\ Cardinality(Owing(u)) \in Nat
        /\ Cardinality(Owing(u)') <= Cardinality(Owing(u))
    BY FewerOwing
  <2>2. /\ earned[u]["perfect"].times \in Nat /\ perfectDays[u] \in Nat
        /\ earned[u]["perfect"].times + Cardinality(Owing(u)) <= perfectDays[u]
    BY DEF BonusTypes, PerfectInv, EarnedRow, Achievements
  <2>. QED  BY <2>1, <2>2
<1>. QED  BY <1>1 DEF PerfectInv

LEMMA CountOn ==
    ASSUME BonusTypes, BonusTypes', CountInv, Grows, UNCHANGED <<mastery, earned>>
    PROVE  CountInv'
<1>1. ASSUME NEW u \in Doers PROVE earned[u]["chores"].progress \in Nat /\ completions[u] \in Nat
                                   /\ completions'[u] \in Nat /\ completions'[u] >= completions[u]
  BY DEF BonusTypes, Grows, EarnedRow, Achievements
<1>. QED  BY <1>1, BonusesAssumption DEF CountInv

LEMMA DayOn ==
    ASSUME BonusTypes, DayInv, NEW a \in Approvals, NEW x, x = approval[a], NEW y, Onward(a, y),
           Grows, BonusTypes', UNCHANGED task,
           \A u \in Doers : AtDay(x, u) => AtDay(y, u) \/ ~Finished(u) \/ perfectDays'[u] > 0
    PROVE  DayInv'
<1>1. SUFFICES ASSUME NEW u \in Doers, Finished(u)'
               PROVE  perfectDays'[u] > 0 \/ \E b \in Approvals : AtDay(approval'[b], u)
  BY DEF DayInv, AtDay, Working
<1>2. Finished(u)
  BY <1>1 DEF Finished
<1>3. CASE perfectDays[u] > 0
  BY <1>3 DEF Grows, BonusTypes
<1>4. ASSUME NEW b \in Approvals, AtDay(approval[b], u)
      PROVE  perfectDays'[u] > 0 \/ \E d \in Approvals : AtDay(approval'[d], u)
  <2>1. CASE b = a
    <3>1. approval'[a] = y
      BY OneOnward
    <3>. QED  BY <1>2, <1>4, <2>1, <3>1
  <2>2. CASE b # a
    <3>1. approval'[b] = approval[b]
      BY <2>2, OneOnward
    <3>. QED  BY <1>4, <3>1
  <2>. QED  BY <2>1, <2>2
<1>. QED  BY <1>2, <1>3, <1>4 DEF DayInv

\* A form that neither owes nor backs anything.
LEMMA PlainForm ==
    ASSUME NEW y, y.at \in {"join", "done"} \/ Mastering(y) \/ (y \in Working /\ y.at # "review")
    PROVE  Backs(y) /\ Backs(y)' /\ \A u : ~Owes(y, u)
<1>1. ASSUME NEW r, Counting(y, "level", r) PROVE FALSE
  <2>1. y.at = "level"
    BY <1>1 DEF Counting
  <2>2. ~Mastering(y)
    BY <2>1 DEF Mastering, Counting
  <2>. QED  BY <2>1, <2>2 DEF Working
<1>2. y \notin Achieving /\ y \notin Perfecting
  <2>1. CASE Mastering(y)
    <3>1. y.at = "master"
      BY <2>1 DEF Mastering, Counting
    <3>. QED  BY <3>1 DEF Achieving, Perfecting
  <2>2. CASE y \in Working
    <3>1. "perfect" \notin DOMAIN y /\ "read" \notin DOMAIN y
      BY <2>2 DEF Working
    <3>. QED  BY <3>1 DEF Achieving, Perfecting
  <2>3. CASE y.at \in {"join", "done"}
    BY <2>3 DEF Achieving, Perfecting
  <2>. QED  BY <2>1, <2>2, <2>3
<1>3. ~(y \in Working /\ y.at = "review")
  <2>1. Mastering(y) => y.at = "master"
    BY DEF Mastering, Counting
  <2>. QED  BY <2>1
<1>. QED  BY <1>1, <1>2, <1>3 DEF Backs, Owes, Working, Achieving, Counting, Levels

\* A step that writes no row, and leaves nothing undone that it was to do.
LEMMA PlacesOnly ==
    ASSUME BonusInv, NEW a \in Approvals, NEW x, x = approval[a], NEW y, Onward(a, y),
           UNCHANGED <<task, mastery, earned, perfectDays, completions>>,
           \A u \in Doers : Owes(y, u) => Owes(x, u), Backs(y),
           \A u \in Doers : AtDay(x, u) => AtDay(y, u) \/ ~Finished(u) \/ perfectDays[u] > 0
    PROVE  BonusInv'
<1>1. BonusTypes' /\ Grows
  BY OneOnward DEF BonusInv, BonusTypes, Grows
<1>2. Backs(y)'
  BY <1>1, BacksOn DEF BonusInv
<1>3. BacksAll'
  BY <1>1, <1>2, BacksAllOn DEF BonusInv
<1>4. PerfectInv'
  BY PerfectOn DEF BonusInv
<1>5. CountInv'
  BY <1>1, CountOn DEF BonusInv
<1>6. DayInv'
  BY <1>1, DayOn DEF BonusInv
<1>. QED  BY <1>1, <1>3, <1>4, <1>5, <1>6 DEF BonusInv

LEMMA ReviewKeeps == ASSUME BonusInv, NEW a \in Approvals, Review(a) PROVE BonusInv'
<1>1. PICK x, y : /\ x = approval[a] /\ x \in Working /\ x.at = "review" /\ Onward(a, y)
                  /\ UNCHANGED <<mastery, earned, perfectDays, completions>>
                  /\ \/ /\ task' = [task EXCEPT ![x.task].state = "done"]
                        /\ y \in Working /\ y.at = "clear" /\ y.who = x.who /\ y.task = x.task
                     \/ /\ task' = task
                        /\ y = Returned \/ (y \in Working /\ y.at = "progress")
  BY ReviewStep DEF BonusInv
<1>2. Backs(y) /\ Backs(y)' /\ \A u : ~Owes(y, u)
  BY <1>1, PlainForm DEF Returned
<1>3. \A u : ~AtDay(x, u)
  BY <1>1 DEF AtDay
<1>4. CASE task' = task
  BY <1>1, <1>2, <1>3, <1>4, PlacesOnly
<1>5. CASE /\ task' = [task EXCEPT ![x.task].state = "done"]
           /\ y \in Working /\ y.at = "clear" /\ y.who = x.who /\ y.task = x.task
  <2>1. x.task \in Tasks /\ x.who \in Doers /\ x.who = task[x.task].who
    BY <1>1 DEF BonusInv, BacksAll, Backs, Working
  <2>2. /\ task' \in [Tasks -> TaskRows] /\ \A j \in Tasks : task'[j].who = task[j].who
        /\ \A j \in Tasks : j # x.task => task'[j] = task[j]
    BY <1>5, <2>1 DEF BonusInv, BonusTypes, TaskRows
  <2>3. BonusTypes' /\ Grows
    BY <1>1, <2>2, OneOnward DEF BonusInv, BonusTypes, Grows
  <2>4. BacksAll'
    BY <1>1, <1>2, <2>3, BacksAllOn DEF BonusInv
  <2>5. PerfectInv'
    BY <1>1, <1>2, PerfectOn DEF BonusInv
  <2>6. CountInv'
    BY <1>1, <2>3, CountOn DEF BonusInv
  <2>7. ASSUME NEW u \in Doers, Finished(u)'
        PROVE  perfectDays'[u] > 0 \/ \E b \in Approvals : AtDay(approval'[b], u)
    <3>1. CASE u = x.who
      <4>1. AtDay(y, u) /\ approval'[a] = y
        BY <1>1, <1>5, <3>1, OneOnward DEF AtDay, BonusInv
      <4>. QED  BY <4>1
    <3>2. CASE u # x.who
      <4>1. Finished(u)
        BY <2>1, <2>2, <2>7, <3>2 DEF Finished
      <4>2. CASE perfectDays[u] > 0
        BY <1>1, <4>2
      <4>3. ASSUME NEW b \in Approvals, AtDay(approval[b], u)
            PROVE  \E d \in Approvals : AtDay(approval'[d], u)
        <5>1. b # a
          BY <1>1, <1>3, <4>3
        <5>2. approval'[b] = approval[b]
          BY <1>1, <5>1, OneOnward DEF BonusInv
        <5>. QED  BY <4>3, <5>2
      <4>. QED  BY <4>1, <4>2, <4>3 DEF BonusInv, DayInv
    <3>. QED  BY <3>1, <3>2
  <2>8. DayInv'
    BY <2>7 DEF DayInv, AtDay, Working
  <2>. QED  BY <2>3, <2>4, <2>5, <2>6, <2>8 DEF BonusInv
<1>. QED  BY <1>1, <1>4, <1>5

LEMMA DayKeeps == ASSUME BonusInv, NEW a \in Approvals, DayClear(a) \/ DayFind(a) PROVE BonusInv'
<1>1. PICK x, y : /\ x = approval[a] /\ x \in Working /\ x.at \in {"clear", "day"} /\ Onward(a, y)
                  /\ y \in Working /\ y.who = x.who /\ y.task = x.task
                  /\ y.at \in {"progress", "day", "record"}
                  /\ y.at = "progress" =>
                        \/ \E j \in Tasks : task[j].who = x.who /\ task[j].state \in Blocking
                        \/ perfectDays[x.who] > 0
                  /\ UNCHANGED <<task, mastery, earned, perfectDays, completions>>
  BY DayStep DEF BonusInv
<1>2. Backs(y) /\ \A u : ~Owes(y, u)
  BY <1>1, PlainForm
<1>3. ASSUME NEW u \in Doers, AtDay(x, u) PROVE AtDay(y, u) \/ ~Finished(u) \/ perfectDays[u] > 0
  <2>1. u = x.who
    BY <1>3 DEF AtDay
  <2>2. CASE y.at = "progress"
    BY <1>1, <2>1, <2>2 DEF Finished, Blocking
  <2>3. CASE y.at # "progress"
    BY <1>1, <2>1, <2>3 DEF AtDay
  <2>. QED  BY <2>2, <2>3
<1>. QED  BY <1>1, <1>2, <1>3, PlacesOnly

LEMMA RecordKeeps == ASSUME BonusInv, NEW a \in Approvals, DayRecord(a) PROVE BonusInv'
<1>1. PICK x, y : /\ x = approval[a] /\ x \in Working /\ x.at = "record" /\ Onward(a, y)
                  /\ y \in Perfecting /\ y.who = x.who /\ y.at = "progress"
                  /\ perfectDays' = [perfectDays EXCEPT ![x.who] = @ + 1]
                  /\ UNCHANGED <<task, mastery, earned, completions>>
  BY RecordStep DEF BonusInv
<1>2. x.who \in Doers
  BY <1>1 DEF Working
<1>3. /\ perfectDays \in [Doers -> Nat] /\ perfectDays' \in [Doers -> Nat]
      /\ perfectDays'[x.who] = perfectDays[x.who] + 1
      /\ \A u \in Doers : u # x.who => perfectDays'[u] = perfectDays[u]
  BY <1>1, <1>2 DEF BonusInv, BonusTypes
<1>4. BonusTypes' /\ Grows
  BY <1>1, <1>3, OneOnward DEF BonusInv, BonusTypes, Grows
<1>5. Backs(y)'
  <2>1. ~\E r : Counting(y, "level", r)
    BY <1>1 DEF Counting
  <2>2. y \notin Achieving
    BY <1>1 DEF Achieving
  <2>. QED  BY <1>1, <2>1, <2>2 DEF Backs, Working, Achieving, Counting, Levels
<1>6. BacksAll'
  BY <1>1, <1>4, <1>5, BacksAllOn DEF BonusInv
<1>7. CountInv'
  BY <1>1, <1>4, CountOn DEF BonusInv
<1>8. ASSUME NEW u \in Doers
      PROVE  /\ IsFiniteSet(Owing(u)')
             /\ earned'[u]["perfect"].times + Cardinality(Owing(u)') <= perfectDays'[u]
  <2>1. /\ earned[u]["perfect"].times \in Nat /\ perfectDays[u] \in Nat
        /\ earned[u]["perfect"].times + Cardinality(Owing(u)) <= perfectDays[u]
    BY DEF BonusInv, BonusTypes, PerfectInv, EarnedRow, Achievements
  <2>2. CASE u = x.who
    <3>1. /\ IsFiniteSet(Owing(u)') /\ Cardinality(Owing(u)') \in Nat /\ Cardinality(Owing(u)) \in Nat
          /\ Cardinality(Owing(u)') <= Cardinality(Owing(u)) + 1
      BY <1>1, OneMoreOwing DEF BonusInv
    <3>. QED  BY <1>1, <1>3, <2>1, <2>2, <3>1
  <2>3. CASE u # x.who
    <3>1. ~Owes(y, u)
      BY <1>1, <2>3 DEF Owes
    <3>2. /\ IsFiniteSet(Owing(u)') /\ Cardinality(Owing(u)') \in Nat /\ Cardinality(Owing(u)) \in Nat
          /\ Cardinality(Owing(u)') <= Cardinality(Owing(u))
      BY <1>1, <3>1, FewerOwing DEF BonusInv
    <3>. QED  BY <1>1, <1>3, <2>1, <2>3, <3>2
  <2>. QED  BY <2>2, <2>3
<1>9. PerfectInv'
  BY <1>8 DEF PerfectInv
<1>10. DayInv'
  <2>1. ASSUME NEW u \in Doers, AtDay(x, u) PROVE perfectDays'[u] > 0
    BY <1>3, <2>1 DEF AtDay
  <2>. QED  BY <1>1, <1>4, <2>1, DayOn DEF BonusInv
<1>. QED  BY <1>4, <1>6, <1>7, <1>9, <1>10 DEF BonusInv

LEMMA ReadKeeps == ASSUME BonusInv, NEW a \in Approvals, ProgressRead(a) PROVE BonusInv'
<1>1. PICK x, y : /\ x = approval[a] /\ x \in Working \cup Perfecting /\ x.at = "progress" /\ Onward(a, y)
                  /\ y \in Achieving /\ y.who = x.who /\ y.read = earned[x.who]
                  /\ "perfect" \in y.todo => x \in Perfecting
                  /\ completions' = [completions EXCEPT ![x.who] = @ + 1]
                  /\ UNCHANGED <<task, mastery, earned, perfectDays>>
  BY ReadStepOf DEF BonusInv
<1>2. x.who \in Doers
  BY <1>1 DEF Working, Perfecting
<1>3. /\ completions \in [Doers -> Nat] /\ completions' \in [Doers -> Nat]
      /\ completions'[x.who] = completions[x.who] + 1
      /\ \A u \in Doers : u # x.who => completions'[u] = completions[u]
  BY <1>1, <1>2 DEF BonusInv, BonusTypes
<1>4. BonusTypes' /\ Grows
  BY <1>1, <1>3, OneOnward DEF BonusInv, BonusTypes, Grows
<1>5. Backs(y)'
  <2>1. ~\E r : Counting(y, "level", r)
    BY <1>1 DEF Counting, Achieving
  <2>2. y \notin Working
    BY <1>1 DEF Achieving, Working
  <2>3. y.read["chores"].progress + 1 <= completions'[y.who]
    BY <1>1, <1>2, <1>3 DEF BonusInv, BonusTypes, CountInv, EarnedRow, Achievements
  <2>. QED  BY <2>1, <2>2, <2>3 DEF Backs, Working, Achieving, Counting, Levels
<1>6. BacksAll'
  BY <1>1, <1>4, <1>5, BacksAllOn DEF BonusInv
<1>7. PerfectInv'
  <2>1. \A u \in Doers : Owes(y, u) => Owes(x, u)
    BY <1>1 DEF Owes, Achieving, Perfecting
  <2>. QED  BY <1>1, <2>1, PerfectOn DEF BonusInv
<1>8. CountInv'
  BY <1>1, <1>4, CountOn DEF BonusInv
<1>9. DayInv'
  BY <1>1, <1>4, DayOn DEF BonusInv, AtDay
<1>. QED  BY <1>4, <1>6, <1>7, <1>8, <1>9 DEF BonusInv

LEMMA AdvancedRow ==
    ASSUME NEW old \in EarnedRow, NEW row \in EarnedRow, NEW k \in Achievements
    PROVE  /\ Advanced(k, old, row) \in EarnedRow
           /\ k = "chores" =>
                /\ Advanced(k, old, row).progress <= old.progress + 1
                /\ \/ Advanced(k, old, row).times = row.times
                   \/ old.progress + 1 >= Goal
           /\ k = "perfect" => Advanced(k, old, row).times = row.times + 1
<1>1. old.progress \in Nat /\ old.times \in Nat /\ row.times \in Nat /\ GoalOf(k) \in Nat
  BY BonusesAssumption DEF EarnedRow, GoalOf
<1>2. Least(old.progress + 1, GoalOf(k)) \in Nat /\ Least(old.progress + 1, GoalOf(k)) <= old.progress + 1
  BY <1>1 DEF Least
<1>3. Advanced(k, old, row) \in EarnedRow
  BY <1>1, <1>2 DEF Advanced, EarnedRow
<1>4. CASE k = "chores"
  <2>1. GoalOf(k) = Goal /\ ~Repeats(k)
    BY <1>4 DEF GoalOf, Repeats
  <2>2. Advanced(k, old, row).progress <= old.progress + 1
    BY <1>1, <1>2, <2>1 DEF Advanced
  <2>3. Advanced(k, old, row).times = row.times \/ Least(old.progress + 1, Goal) >= Goal
    BY <2>1 DEF Advanced
  <2>4. Least(old.progress + 1, Goal) >= Goal => old.progress + 1 >= Goal
    BY <1>1, BonusesAssumption DEF Least
  <2>. QED  BY <1>3, <1>4, <2>2, <2>3, <2>4
<1>5. CASE k = "perfect"
  <2>1. Least(old.progress + 1, GoalOf(k)) >= GoalOf(k)
    BY <1>1, <1>5 DEF Least, GoalOf
  <2>2. Advanced(k, old, row).times = row.times + 1
    BY <2>1 DEF Advanced
  <2>. QED  BY <1>3, <1>5, <2>2
<1>. QED  BY <1>4, <1>5 DEF Achievements

LEMMA AchieveKeeps ==
    ASSUME BonusInv, NEW a \in Approvals, NEW k \in Achievements, Achieve(a, k) PROVE BonusInv'
<1>1. PICK x, y : /\ x = approval[a] /\ x \in Achieving /\ Onward(a, y) /\ y \in Achieving
                  /\ y.who = x.who /\ y.read = x.read /\ k \in x.todo /\ y.todo = x.todo \ {k}
                  /\ earned' = [earned EXCEPT ![x.who][k] = Advanced(k, x.read[k], earned[x.who][k])]
                  /\ UNCHANGED <<task, mastery, perfectDays, completions>>
  BY AchieveStep DEF BonusInv
<1>2. PICK w : w = Advanced(k, x.read[k], earned[x.who][k])
  OBVIOUS
<1>3. x.who \in Doers /\ x.read[k] \in EarnedRow /\ x.read["chores"].progress \in Nat
  BY <1>1 DEF Achieving, EarnedRow, Achievements
<1>4. earned[x.who][k] \in EarnedRow
  BY <1>3 DEF BonusInv, BonusTypes
<1>5. /\ w \in EarnedRow
      /\ k = "chores" => /\ w.progress <= x.read[k].progress + 1
                         /\ w.times = earned[x.who][k].times \/ x.read[k].progress + 1 >= Goal
      /\ k = "perfect" => w.times = earned[x.who][k].times + 1
  BY <1>2, <1>3, <1>4, AdvancedRow
<1>6. /\ earned' \in [Doers -> [Achievements -> EarnedRow]] /\ earned'[x.who][k] = w
      /\ \A u \in Doers : \A l \in Achievements : u # x.who \/ l # k => earned'[u][l] = earned[u][l]
  BY <1>1, <1>2, <1>3, <1>5 DEF BonusInv, BonusTypes
<1>7. BonusTypes' /\ Grows
  BY <1>1, <1>6, OneOnward DEF BonusInv, BonusTypes, Grows
<1>8. Backs(y)'
  <2>1. ~\E r : Counting(y, "level", r)
    BY <1>1 DEF Counting, Achieving
  <2>2. y \notin Working
    BY <1>1 DEF Achieving, Working
  <2>3. "chores" \in y.todo => y.read["chores"].progress + 1 <= completions'[y.who]
    BY <1>1 DEF BonusInv, BacksAll, Backs
  <2>. QED  BY <2>1, <2>2, <2>3 DEF Backs, Working, Achieving, Counting, Levels
<1>9. BacksAll'
  BY <1>1, <1>7, <1>8, BacksAllOn DEF BonusInv
<1>10. DayInv'
  BY <1>1, <1>7, DayOn DEF BonusInv, AtDay, Achieving, Working
<1>11. ASSUME NEW u \in Doers
       PROVE  /\ mastery'[u].level = 1 => mastery'[u].count >= Level1
              /\ mastery'[u].level = 2 => mastery'[u].count >= Level2
              /\ earned'[u]["chores"].progress <= completions'[u]
              /\ earned'[u]["chores"].times > 0 => completions'[u] >= Goal
  <2>1. /\ earned[u]["chores"].progress <= completions[u] /\ completions[u] \in Nat
        /\ earned[u]["chores"].times > 0 => completions[u] >= Goal
        /\ mastery[u].level = 1 => mastery[u].count >= Level1
        /\ mastery[u].level = 2 => mastery[u].count >= Level2
    BY DEF BonusInv, BonusTypes, CountInv
  <2>2. CASE u = x.who /\ k = "chores"
    <3>1. x.read["chores"].progress + 1 <= completions[u]
      BY <1>1, <2>2 DEF BonusInv, BacksAll, Backs
    <3>2. w.progress \in Nat /\ w.times \in Nat /\ earned'[u]["chores"] = w /\ completions' = completions
      BY <1>1, <1>5, <1>6, <2>2 DEF EarnedRow
    <3>3. w.progress <= completions[u]
      BY <1>3, <1>5, <2>1, <2>2, <3>1, <3>2
    <3>4. w.times > 0 => completions[u] >= Goal
      BY <1>3, <1>5, <2>1, <2>2, <3>1, BonusesAssumption
    <3>. QED  BY <1>1, <2>1, <3>2, <3>3, <3>4
  <2>3. CASE ~(u = x.who /\ k = "chores")
    <3>1. earned'[u]["chores"] = earned[u]["chores"]
      BY <1>6, <2>3 DEF Achievements
    <3>. QED  BY <1>1, <2>1, <3>1
  <2>. QED  BY <2>2, <2>3
<1>12. CountInv'
  BY <1>11 DEF CountInv
<1>13. PerfectInv'
  <2>1. \A u \in Doers : Owes(y, u) => Owes(x, u)
    BY <1>1 DEF Owes, Achieving, Perfecting
  <2>2. CASE k = "perfect"
    <3>1. ASSUME NEW u \in Doers
          PROVE  /\ IsFiniteSet(Owing(u)')
                 /\ earned'[u]["perfect"].times + Cardinality(Owing(u)') <= perfectDays'[u]
      <4>1. /\ earned[u]["perfect"].times \in Nat /\ perfectDays[u] \in Nat
            /\ earned[u]["perfect"].times + Cardinality(Owing(u)) <= perfectDays[u]
        BY DEF BonusInv, BonusTypes, PerfectInv, EarnedRow, Achievements
      <4>2. /\ IsFiniteSet(Owing(u)') /\ Cardinality(Owing(u)') \in Nat /\ Cardinality(Owing(u)) \in Nat
            /\ Cardinality(Owing(u)') <= Cardinality(Owing(u))
            /\ Owes(x, u) /\ ~Owes(y, u) => Cardinality(Owing(u)') <= Cardinality(Owing(u)) - 1
        BY <1>1, <2>1, FewerOwing DEF BonusInv
      <4>3. CASE u = x.who
        <5>1. Owes(x, u) /\ ~Owes(y, u)
          BY <1>1, <2>2, <4>3 DEF Owes, Achieving, Perfecting
        <5>2. earned'[u]["perfect"].times = earned[u]["perfect"].times + 1
          BY <1>5, <1>6, <2>2, <4>3
        <5>. QED  BY <1>1, <4>1, <4>2, <5>1, <5>2
      <4>4. CASE u # x.who
        <5>1. earned'[u]["perfect"] = earned[u]["perfect"]
          BY <1>6, <4>4 DEF Achievements
        <5>. QED  BY <1>1, <4>1, <4>2, <5>1
      <4>. QED  BY <4>3, <4>4
    <3>. QED  BY <3>1 DEF PerfectInv
  <2>3. CASE k # "perfect"
    <3>1. \A u \in Doers : earned'[u]["perfect"].times = earned[u]["perfect"].times
      BY <1>6, <2>3 DEF Achievements
    <3>. QED  BY <1>1, <2>1, <3>1, PerfectOn DEF BonusInv
  <2>. QED  BY <2>2, <2>3
<1>. QED  BY <1>7, <1>9, <1>10, <1>12, <1>13 DEF BonusInv

LEMMA PlaceOf == ASSUME NEW z PROVE (Mastering(z) => z.at = "master") /\ (Levelling(z) => z.at = "level")
<1>1. ASSUME NEW p, NEW r, Counting(z, p, r) PROVE z.at = p
  BY <1>1 DEF Counting
<1>2. ASSUME Mastering(z) PROVE z.at = "master"
  <2>1. PICK r : Counting(z, "master", r)
    BY <1>2 DEF Mastering
  <2>. QED  BY <1>1, <2>1
<1>3. ASSUME Levelling(z) PROVE z.at = "level"
  <2>1. PICK r \in Levels : Counting(z, "level", r)
    BY <1>3 DEF Levelling
  <2>. QED  BY <1>1, <2>1
<1>. QED  BY <1>2, <1>3

\* A count and a level that are written are backed by the calls that write them.
LEMMA MasteryKeeps ==
    ASSUME BonusInv, NEW a \in Approvals, NEW x, x = approval[a], NEW y, Onward(a, y), Mastering(x) \/ Levelling(x),
           Mastering(y) \/ Levelling(y), UNCHANGED <<task, earned, perfectDays, completions>>,
           BonusTypes', Grows, Backs(y)',
           \A u \in Doers : /\ mastery'[u].level = 1 => mastery'[u].count >= Level1
                            /\ mastery'[u].level = 2 => mastery'[u].count >= Level2
    PROVE  BonusInv'
<1>1. x.at \in {"master", "level"} /\ y.at \in {"master", "level"}
  BY PlaceOf
<1>2. \A u : ~Owes(y, u) /\ ~AtDay(x, u)
  BY <1>1 DEF Owes, AtDay, Achieving, Perfecting
<1>3. BacksAll'
  BY BacksAllOn DEF BonusInv
<1>4. PerfectInv'
  BY <1>2, PerfectOn DEF BonusInv
<1>5. CountInv'
  BY DEF BonusInv, CountInv
<1>6. DayInv'
  BY <1>2, DayOn DEF BonusInv
<1>. QED  BY <1>3, <1>4, <1>5, <1>6 DEF BonusInv

LEMMA CountKeeps ==
    ASSUME BonusInv, NEW a \in Approvals, NEW u \in Doers, MasteryCount(a, u) PROVE BonusInv'
<1>1. PICK x, y : /\ x = approval[a] /\ Mastering(x) /\ Onward(a, y)
                  /\ mastery' = [mastery EXCEPT ![u].count = mastery[u].count + 1]
                  /\ \/ Mastering(y)
                     \/ \E r \in Levels : /\ Counting(y, "level", r) /\ r.of = u
                                          /\ r.to = LevelOf(mastery[u].count + 1, mastery[u].level)
                                          /\ r.to > mastery[u].level
                  /\ UNCHANGED <<task, earned, perfectDays, completions>>
  BY CountStep DEF BonusInv
<1>2. /\ mastery \in [Doers -> [count : Nat, level : 0..2]]
      /\ mastery' \in [Doers -> [count : Nat, level : 0..2]]
      /\ mastery'[u].count = mastery[u].count + 1 /\ mastery'[u].level = mastery[u].level
      /\ \A v \in Doers : v # u => mastery'[v] = mastery[v]
  BY <1>1 DEF BonusInv, BonusTypes
<1>3. BonusTypes' /\ Grows
  BY <1>1, <1>2, OneOnward DEF BonusInv, BonusTypes, Grows
<1>4. ASSUME NEW v \in Doers
      PROVE  /\ mastery'[v].level = 1 => mastery'[v].count >= Level1
             /\ mastery'[v].level = 2 => mastery'[v].count >= Level2
  BY <1>2, BonusesAssumption DEF BonusInv, CountInv
<1>5. Levelling(y) \/ Mastering(y)
  BY <1>1 DEF Levelling
<1>6. Backs(y)'
  <2>1. CASE Mastering(y)
    BY <2>1, PlainForm
  <2>2. ASSUME NEW r \in Levels, Counting(y, "level", r), r.of = u,
               r.to = LevelOf(mastery[u].count + 1, mastery[u].level), r.to > mastery[u].level
        PROVE  Backs(y)'
    <3>1. /\ r.to = 1 => mastery'[u].count >= Level1
          /\ r.to = 2 => mastery'[u].count >= Level2
      BY <1>2, <2>2, BonusesAssumption DEF LevelOf
    <3>2. ASSUME NEW s, Counting(y, "level", s) PROVE s = r
      <4>1. y.read = r
        BY <2>2 DEF Counting
      <4>2. y.read = s
        BY <3>2 DEF Counting
      <4>. QED  BY <4>1, <4>2
    <3>3. y.at = "level"
      BY <2>2 DEF Counting
    <3>. QED  BY <2>2, <3>1, <3>2, <3>3 DEF Backs, Working, Achieving, Counting, Levels
  <2>. QED  BY <1>1, <2>1, <2>2
<1>. QED  BY <1>1, <1>3, <1>4, <1>5, <1>6, MasteryKeeps

LEMMA LevelKeeps == ASSUME BonusInv, NEW a \in Approvals, MasteryLevel(a) PROVE BonusInv'
<1>1. PICK x, y : /\ x = approval[a] /\ Onward(a, y) /\ Mastering(y)
                  /\ \E r \in Levels : /\ Counting(x, "level", r)
                                       /\ mastery' = [mastery EXCEPT ![r.of].level = r.to]
                  /\ UNCHANGED <<task, earned, perfectDays, completions>>
  BY LevelStep DEF BonusInv
<1>2. PICK r \in Levels : Counting(x, "level", r) /\ mastery' = [mastery EXCEPT ![r.of].level = r.to]
  BY <1>1
<1>3. r.of \in Doers /\ r.to \in 1..2
  BY DEF Levels
<1>4. /\ mastery \in [Doers -> [count : Nat, level : 0..2]]
      /\ mastery' \in [Doers -> [count : Nat, level : 0..2]]
      /\ mastery'[r.of].count = mastery[r.of].count /\ mastery'[r.of].level = r.to
      /\ \A v \in Doers : v # r.of => mastery'[v] = mastery[v]
  BY <1>2, <1>3 DEF BonusInv, BonusTypes
<1>5. BonusTypes' /\ Grows
  BY <1>1, <1>4, OneOnward DEF BonusInv, BonusTypes, Grows
<1>6. /\ r.to = 1 => mastery[r.of].count >= Level1
      /\ r.to = 2 => mastery[r.of].count >= Level2
  BY <1>1, <1>2 DEF BonusInv, BacksAll, Backs
<1>7. ASSUME NEW v \in Doers
      PROVE  /\ mastery'[v].level = 1 => mastery'[v].count >= Level1
             /\ mastery'[v].level = 2 => mastery'[v].count >= Level2
  BY <1>4, <1>6 DEF BonusInv, CountInv
<1>8. Backs(y)' /\ Levelling(x)
  BY <1>1, <1>2, PlainForm DEF Levelling
<1>. QED  BY <1>1, <1>5, <1>7, <1>8, MasteryKeeps

LEMMA RestKeeps ==
    ASSUME BonusInv, NEW a \in Approvals,
           Achieved(a) \/ PayHelpers(a) \/ (\E j \in Tasks : ApproveRead(a, j) \/ SubmitRead(a, j)) \/ Helping(a)
    PROVE  BonusInv'
<1>1. CASE Achieved(a)
  <2>1. PICK x, y : /\ x = approval[a] /\ x \in Achieving /\ x.todo = {} /\ Onward(a, y)
                    /\ y = Returned \/ Mastering(y)
                    /\ UNCHANGED <<task, mastery, earned, perfectDays, completions>>
    BY <1>1, AchievedStep DEF BonusInv
  <2>2. Backs(y) /\ \A u : ~Owes(y, u) /\ ~AtDay(x, u)
    BY <2>1, PlainForm DEF Returned, AtDay, Achieving
  <2>. QED  BY <2>1, <2>2, PlacesOnly
<1>2. CASE PayHelpers(a)
  <2>1. PICK x, y : /\ x = approval[a] /\ Mastering(x) /\ Onward(a, y) /\ (y = Returned \/ Mastering(y))
                    /\ UNCHANGED <<task, mastery, earned, perfectDays, completions>>
    BY <1>2, PayStep DEF BonusInv
  <2>2. x.at = "master"
    BY <2>1 DEF Mastering, Counting
  <2>3. Backs(y) /\ \A u : ~Owes(y, u) /\ ~AtDay(x, u)
    BY <2>1, <2>2, PlainForm DEF Returned, AtDay
  <2>. QED  BY <2>1, <2>3, PlacesOnly
<1>3. CASE (\E j \in Tasks : ApproveRead(a, j) \/ SubmitRead(a, j)) \/ Helping(a)
  <2>1. PICK x : x = approval[a]
    OBVIOUS
  <2>2. PICK y : /\ Onward(a, y) /\ UNCHANGED <<task, mastery, earned, perfectDays, completions>>
                 /\ x.at \in {"idle", "join"}
                 /\ \/ y \in Working /\ y.at = "review" /\ y.who = task[y.task].who
                    \/ y.at \in {"join", "done"}
    BY <1>3, <2>1, BeginsStep DEF BonusInv
  <2>3. \A u : ~AtDay(x, u)
    BY <2>2 DEF AtDay
  <2>4. CASE y.at \in {"join", "done"}
    <3>1. Backs(y) /\ \A u : ~Owes(y, u)
      BY <2>4, PlainForm
    <3>. QED  BY <2>1, <2>2, <2>3, <3>1, PlacesOnly
  <2>5. CASE y \in Working /\ y.at = "review" /\ y.who = task[y.task].who
    <3>1. y \notin Achieving /\ y \notin Perfecting
      BY <2>5 DEF Achieving, Perfecting
    <3>2. ASSUME NEW r, Counting(y, "level", r) PROVE FALSE
      <4>1. y.at = "level"
        BY <3>2 DEF Counting
      <4>. QED  BY <2>5, <4>1
    <3>3. Backs(y) /\ \A u : ~Owes(y, u)
      BY <2>5, <3>1, <3>2 DEF Backs, Owes
    <3>. QED  BY <2>1, <2>2, <2>3, <3>3, PlacesOnly
  <2>. QED  BY <2>2, <2>4, <2>5
<1>. QED  BY <1>1, <1>2, <1>3

LEMMA BonusInvInit == ServerInit => BonusInv
<1>1. SUFFICES ASSUME ServerInit PROVE BonusInv
  OBVIOUS
<1>2. BonusesInit /\ task = scene.task /\ Orderly(scene)
  BY <1>1, ServerAssumption DEF ServerInit, Init
<1>3. \A a \in Approvals : approval[a].at = "idle" /\ Approves(approval[a])
  BY <1>2 DEF BonusesInit, Waits, Approves
<1>4. BonusTypes
  <2>1. task \in [Tasks -> TaskRows]
    BY <1>2 DEF Orderly
  <2>2. /\ mastery \in [Doers -> [count : Nat, level : 0..2]] /\ perfectDays \in [Doers -> Nat]
        /\ completions \in [Doers -> Nat] /\ DOMAIN approval = Approvals
    BY <1>2 DEF BonusesInit
  <2>3. earned \in [Doers -> [Achievements -> EarnedRow]]
    BY <1>2 DEF BonusesInit, EarnedRow
  <2>. QED  BY <1>3, <2>1, <2>2, <2>3 DEF BonusTypes
<1>5. \A a \in Approvals : /\ approval[a] \notin Working /\ approval[a] \notin Perfecting
                           /\ approval[a] \notin Achieving
  BY <1>3 DEF Working, Perfecting, Achieving
<1>6. \A a \in Approvals : \A r : ~Counting(approval[a], "level", r)
  <2>1. SUFFICES ASSUME NEW a \in Approvals, NEW r, Counting(approval[a], "level", r) PROVE FALSE
    OBVIOUS
  <2>2. approval[a].at = "level"
    BY <2>1 DEF Counting
  <2>. QED  BY <1>3, <2>2
<1>7. BacksAll
  BY <1>5, <1>6 DEF BacksAll, Backs
<1>8. DayInv
  BY <1>2 DEF DayInv, Finished, Orderly
<1>9. PerfectInv
  <2>1. \A u \in Doers : Owing(u) = {}
    BY <1>5 DEF Owing, Owes
  <2>2. IsFiniteSet({}) /\ Cardinality({}) = 0
    BY FS_EmptySet
  <2>3. \A u \in Doers : earned[u]["perfect"].times = 0 /\ perfectDays[u] = 0
    BY <1>2 DEF BonusesInit, Achievements
  <2>. QED  BY <2>1, <2>2, <2>3 DEF PerfectInv
<1>10. CountInv
  <2>1. \A u \in Doers : /\ mastery[u].level = 0 /\ completions[u] = 0
                         /\ earned[u]["chores"].progress = 0 /\ earned[u]["chores"].times = 0
    BY <1>2 DEF BonusesInit, Achievements
  <2>. QED  BY <2>1 DEF CountInv
<1>. QED  BY <1>4, <1>7, <1>8, <1>9, <1>10 DEF BonusInv

\* A step that ends nobody's day, and leaves the calls where they are.
LEMMA CallsRest ==
    ASSUME BonusInv, BonusTypes', Grows, UNCHANGED <<mastery, earned, perfectDays, completions, approval>>,
           \A u \in Doers : Finished(u)' => Finished(u)
    PROVE  BonusInv'
<1>1. BacksAll'
  <2>1. ASSUME NEW a \in Approvals PROVE Backs(approval[a])'
    <3>1. PICK x : x = approval[a] /\ x = approval'[a]
      OBVIOUS
    <3>2. Backs(x)'
      BY <3>1, BacksOn DEF BonusInv, BacksAll
    <3>. QED  BY <3>1, <3>2 DEF Backs, Counting, Working, Achieving, Levels
  <2>. QED  BY <2>1 DEF BacksAll
<1>2. DayInv'
  <2>1. SUFFICES ASSUME NEW u \in Doers, Finished(u)'
                 PROVE  perfectDays'[u] > 0 \/ \E a \in Approvals : AtDay(approval'[a], u)
    BY DEF DayInv, AtDay, Working
  <2>. QED  BY <2>1 DEF BonusInv, DayInv
<1>3. PerfectInv' /\ CountInv'
  BY DEF BonusInv, PerfectInv, CountInv, Owing, Owes, Perfecting, Achieving, EarnedRow
<1>. QED  BY <1>1, <1>2, <1>3 DEF BonusInv

LEMMA HandInKeeps == ASSUME BonusInv, NEW j \in Tasks, HandIn(j) PROVE BonusInv'
<1>1. BonusTypes' /\ Grows
  BY HandInStep DEF BonusInv
<1>2. UNCHANGED <<mastery, earned, perfectDays, completions, approval>>
  BY DEF HandIn
<1>3. \A u \in Doers : Finished(u)' => Finished(u)
  BY DEF HandIn, Finished, BonusInv, BonusTypes, TaskRows
<1>. QED  BY <1>1, <1>2, <1>3, CallsRest

LEMMA BonusInvStep == BonusInv /\ [ServerNext]_<<vars, parts>> => BonusInv'
<1>1. SUFFICES ASSUME BonusInv, [ServerNext]_<<vars, parts>> PROVE BonusInv'
  OBVIOUS
<1>2. CASE UNCHANGED <<task, mastery, earned, perfectDays, approval, completions>>
  <2>1. BonusTypes' /\ Grows
    BY <1>1, <1>2 DEF BonusInv, BonusTypes, Grows
  <2>2. \A u \in Doers : Finished(u)' => Finished(u)
    BY <1>2 DEF Finished
  <2>. QED  BY <1>1, <1>2, <2>1, <2>2, CallsRest
<1>3. CASE \E j \in Tasks : HandIn(j)
  BY <1>1, <1>3, HandInKeeps
<1>4. ASSUME NEW a \in Approvals, BonusCases(a) PROVE BonusInv'
  BY <1>1, <1>4, ReviewKeeps, DayKeeps, RecordKeeps, ReadKeeps, AchieveKeeps, CountKeeps, LevelKeeps,
     RestKeeps DEF BonusCases
<1>. QED  BY <1>1, <1>2, <1>3, <1>4, BonusesMove, BonusSteps

LEMMA BonusesKept == ServerSpec => []BonusInv
BY BonusInvInit, BonusInvStep, PTL DEF ServerSpec

\* A day that is finished is on record once nothing is under way: the call that saw the
\* last chore done keeps looking until the day is recorded, by itself or by another.
THEOREM DaysAreRecorded == ServerSpec => []PerfectDayNotMissed
<1>1. ASSUME BonusInv PROVE PerfectDayNotMissed
  <2>1. SUFFICES ASSUME NEW u \in Doers, Finished(u),
                        \A a \in Approvals : Resting(a) \/ approval[a].at = "join" \/ approval[a].who # u
                 PROVE  perfectDays[u] > 0
    BY DEF PerfectDayNotMissed, Finished
  <2>2. ASSUME NEW a \in Approvals, AtDay(approval[a], u) PROVE FALSE
    BY <2>1, <2>2 DEF AtDay, Resting
  <2>. QED  BY <1>1, <2>1, <2>2 DEF BonusInv, DayInv
<1>. QED  BY <1>1, BonusesKept, PTL

\* However the calls overlap and overwrite each other, a level and an achievement are
\* backed by the completions they ask for, a perfect day's badge by a day on record.
THEOREM BonusesAreDeserved == ServerSpec => []BonusesDeserved
<1>1. ASSUME BonusInv PROVE BonusesDeserved
  <2>1. SUFFICES ASSUME NEW u \in Doers
                 PROVE  /\ mastery[u].level = 1 => mastery[u].count >= Level1
                        /\ mastery[u].level = 2 => mastery[u].count >= Level2
                        /\ earned[u]["chores"].times > 0 => completions[u] >= Goal
                        /\ earned[u]["perfect"].times <= perfectDays[u]
    BY DEF BonusesDeserved
  <2>2. Cardinality(Owing(u)) \in Nat
    BY <1>1, FS_CardinalityType DEF BonusInv, PerfectInv
  <2>3. earned[u]["perfect"].times \in Nat /\ perfectDays[u] \in Nat
    BY <1>1 DEF BonusInv, BonusTypes, EarnedRow, Achievements
  <2>4. earned[u]["perfect"].times <= perfectDays[u]
    BY <1>1, <2>2, <2>3 DEF BonusInv, PerfectInv
  <2>. QED  BY <1>1, <2>4 DEF BonusInv, CountInv
<1>. QED  BY <1>1, BonusesKept, PTL

\* Those who help, or are about to, are members of the household and help with its chores.
Helps(h) == h.task \in Tasks /\ h.who \in Doers
Joins(x) == x.at = "join" => Helps(x.row)
HelpInv == (\A h \in helping : Helps(h)) /\ \A a \in Approvals : Joins(approval[a])

LEMMA HelpOn ==
    ASSUME BonusTypes, HelpInv, NEW a \in Approvals, NEW y, Onward(a, y), Joins(y),
           \A h \in helping' : h \in helping \/ Helps(h)
    PROVE  HelpInv'
<1>1. approval'[a] = y /\ \A b \in Approvals \ {a} : approval'[b] = approval[b]
  BY OneOnward
<1>. QED  BY <1>1 DEF HelpInv, Joins, Helps

LEMMA ApprovingHelps == ASSUME BonusTypes, HelpInv, NEW a \in Approvals, Approving(a) PROVE HelpInv'
<1>0. ASSUME NEW y, y \in Working \cup Perfecting \cup Achieving \/ Mastering(y) \/ Levelling(y) \/ y = Returned
      PROVE  Joins(y)
  <2>1. (Mastering(y) => y.at = "master") /\ (Levelling(y) => y.at = "level")
    BY PlaceOf
  <2>2. y \in Working => y.at # "join"
    BY DEF Working
  <2>3. y \in Perfecting => y.at # "join"
    BY DEF Perfecting
  <2>4. y \in Achieving => y.at # "join"
    BY DEF Achieving
  <2>5. y = Returned => y.at # "join"
    BY DEF Returned
  <2>. QED  BY <1>0, <2>1, <2>2, <2>3, <2>4, <2>5 DEF Joins
<1>1. helping' = helping
  BY DEF Approving, Review, DayClear, DayFind, DayRecord, ProgressRead, Achieve, Achieved, MasteryCount,
         MasteryLevel, PayHelpers
<1>2. ASSUME NEW y, Onward(a, y),
             y \in Working \cup Perfecting \cup Achieving \/ Mastering(y) \/ Levelling(y) \/ y = Returned
      PROVE  HelpInv'
  BY <1>0, <1>1, <1>2, HelpOn
<1>3. CASE Review(a)
  <2>1. PICK y : Onward(a, y) /\ (y \in Working \/ y = Returned)
    BY <1>3, ReviewStep
  <2>. QED  BY <1>2, <2>1
<1>4. CASE DayClear(a) \/ DayFind(a)
  <2>1. PICK y : Onward(a, y) /\ y \in Working
    BY <1>4, DayStep
  <2>. QED  BY <1>2, <2>1
<1>5. CASE DayRecord(a)
  <2>1. PICK y : Onward(a, y) /\ y \in Perfecting
    BY <1>5, RecordStep
  <2>. QED  BY <1>2, <2>1
<1>6. CASE ProgressRead(a)
  <2>1. PICK y : Onward(a, y) /\ y \in Achieving
    BY <1>6, ReadStepOf
  <2>. QED  BY <1>2, <2>1
<1>7. ASSUME NEW k \in Achievements, Achieve(a, k) PROVE HelpInv'
  <2>1. PICK y : Onward(a, y) /\ y \in Achieving
    BY <1>7, AchieveStep
  <2>. QED  BY <1>2, <2>1
<1>8. CASE Achieved(a)
  <2>1. PICK y : Onward(a, y) /\ (y = Returned \/ Mastering(y))
    BY <1>8, AchievedStep
  <2>. QED  BY <1>2, <2>1
<1>9. ASSUME NEW u \in Doers, MasteryCount(a, u) PROVE HelpInv'
  <2>1. PICK y : Onward(a, y) /\ (Mastering(y) \/ \E r \in Levels : Counting(y, "level", r))
    BY <1>9, CountStep
  <2>2. Mastering(y) \/ Levelling(y)
    BY <2>1 DEF Levelling
  <2>. QED  BY <1>2, <2>1, <2>2
<1>10. CASE MasteryLevel(a)
  <2>1. PICK y : Onward(a, y) /\ Mastering(y)
    BY <1>10, LevelStep
  <2>. QED  BY <1>2, <2>1
<1>11. CASE PayHelpers(a)
  <2>1. PICK y : Onward(a, y) /\ (y = Returned \/ Mastering(y))
    BY <1>11, PayStep
  <2>. QED  BY <1>2, <2>1
<1>. QED  BY <1>3, <1>4, <1>5, <1>6, <1>7, <1>8, <1>9, <1>10, <1>11 DEF Approving

LEMMA HelpStep == ASSUME BonusTypes, HelpInv, [\E calls : BonusesNext(calls)]_bonuses PROVE HelpInv'
<1>1. CASE UNCHANGED <<helping, approval>>
  BY <1>1 DEF HelpInv, Joins, Helps
<1>2. ASSUME NEW a \in Approvals, NEW y, Starts(a, y), Joins(y), Approves(y) PROVE HelpInv'
  BY <1>2, HelpOn DEF Starts, Turns, Onward
<1>3. ASSUME NEW a \in Approvals, NEW j \in Tasks, NEW k \in {"approve", "submit"}, Work(a, j, k) PROVE HelpInv'
  <2>1. PICK y : y = [at |-> "review", kind |-> k, task |-> j, who |-> task[j].who]
    OBVIOUS
  <2>2. y \in Working /\ y.at = "review"
    BY <2>1 DEF Working, BonusTypes, TaskRows
  <2>. QED  BY <1>2, <1>3, <2>1, <2>2 DEF Work, Joins, Approves
<1>4. ASSUME NEW a \in Approvals, NEW row, Helps(row), Starts(a, [at |-> "join", row |-> row]) PROVE HelpInv'
  <2>1. PICK y : y = [at |-> "join", row |-> row]
    OBVIOUS
  <2>2. Joins(y) /\ Approves(y)
    BY <1>4, <2>1 DEF Joins, Approves
  <2>. QED  BY <1>2, <1>4, <2>1, <2>2
<1>5. ASSUME NEW a \in Approvals, NEW j \in Tasks, NEW u \in Doers, JoinRead(a, j, u) \/ SuperviseRead(a, j, u)
      PROVE  HelpInv'
  <2>1. PICK row : /\ row \in [task : {j}, who : {u}, role : {"helper", "supervisor"}]
                   /\ Starts(a, [at |-> "join", row |-> row])
    BY <1>5 DEF JoinRead, SuperviseRead
  <2>2. Helps(row)
    BY <2>1 DEF Helps
  <2>. QED  BY <1>4, <2>1, <2>2
<1>6. ASSUME NEW a \in Approvals, Join(a) PROVE HelpInv'
  <2>1. Helps(approval[a].row) /\ helping' \subseteq helping \cup {approval[a].row}
    BY <1>6 DEF Join, HelpInv, Joins
  <2>2. Onward(a, Returned) /\ Joins(Returned)
    BY <1>6 DEF Join, Onward, Turns, Approves, Returned, Joins
  <2>. QED  BY <2>1, <2>2, HelpOn
<1>7. ASSUME NEW a \in Approvals, Helping(a) PROVE HelpInv'
  BY <1>5, <1>6, <1>7, BonusesAssumption DEF Helping
<1>8. ASSUME NEW j \in Tasks, HandIn(j) \/ \E u \in Doers : Leave(j, u) PROVE HelpInv'
  <2>1. helping' \subseteq helping /\ approval' = approval
    BY <1>8 DEF HandIn, Leave
  <2>. QED  BY <2>1 DEF HelpInv, Joins, Helps
<1>9. ASSUME NEW a \in Approvals, NEW j \in Tasks, ApproveRead(a, j) \/ SubmitRead(a, j) PROVE HelpInv'
  BY <1>3, <1>9 DEF ApproveRead, SubmitRead
<1>10. CASE UNCHANGED bonuses
  BY <1>1, <1>10 DEF bonuses
<1>. QED  BY <1>7, <1>8, <1>9, <1>10, ApprovingHelps DEF BonusesNext

\* Progress stops at the goal.
GoalInv == \A u \in Doers, k \in Achievements : earned[u][k].progress <= GoalOf(k)

LEMMA GoalStep == ASSUME BonusTypes, GoalInv, [\E calls : BonusesNext(calls)]_bonuses PROVE GoalInv'
<1>1. CASE UNCHANGED earned
  BY <1>1 DEF GoalInv
<1>2. ASSUME NEW a \in Approvals, NEW k \in Achievements, Achieve(a, k) PROVE GoalInv'
  <2>1. PICK x, y : /\ x = approval[a] /\ x \in Achieving /\ Onward(a, y) /\ y \in Achieving
                    /\ y.who = x.who /\ y.read = x.read /\ k \in x.todo /\ y.todo = x.todo \ {k}
                    /\ earned' = [earned EXCEPT ![x.who][k] = Advanced(k, x.read[k], earned[x.who][k])]
                    /\ UNCHANGED <<task, mastery, perfectDays, completions>>
    BY <1>2, AchieveStep
  <2>2. PICK w : w = Advanced(k, x.read[k], earned[x.who][k])
    OBVIOUS
  <2>3. x.who \in Doers /\ x.read[k].progress \in Nat
    BY <2>1 DEF Achieving, EarnedRow
  <2>4. GoalOf(k) \in Nat
    BY BonusesAssumption DEF GoalOf
  <2>5. w.progress <= GoalOf(k)
    BY <2>2, <2>3, <2>4 DEF Advanced, Least
  <2>6. \A u \in Doers, l \in Achievements :
            earned'[u][l] = IF u = x.who /\ l = k THEN w ELSE earned[u][l]
    BY <2>1, <2>2, <2>3 DEF BonusTypes
  <2>. QED  BY <2>5, <2>6 DEF GoalInv
<1>3. ASSUME NEW a \in Approvals, BonusCases(a), ~\E k \in Achievements : Achieve(a, k) PROVE earned' = earned
  BY <1>3 DEF BonusCases, Review, DayClear, DayFind, DayRecord, ProgressRead, Achieved, MasteryCount,
              MasteryLevel, PayHelpers, ApproveRead, SubmitRead, Work, Starts, Helping, JoinRead, SuperviseRead, Join
<1>4. CASE \E j \in Tasks : HandIn(j)
  BY <1>1, <1>4 DEF HandIn
<1>. QED  BY <1>1, <1>2, <1>3, <1>4, BonusSteps

LEMMA BonusesTyped == ServerSpec => []BonusesTypeOK
<1>1. ServerInit => HelpInv /\ GoalInv
  <2>1. BonusesInit => HelpInv
    BY DEF BonusesInit, HelpInv, Joins, Waits
  <2>2. BonusesInit => GoalInv
    BY BonusesAssumption DEF BonusesInit, GoalInv, GoalOf
  <2>. QED  BY <2>1, <2>2 DEF ServerInit
<1>2. BonusInv /\ (HelpInv /\ GoalInv) /\ [ServerNext]_<<vars, parts>> => (HelpInv /\ GoalInv)'
  BY BonusesMove, HelpStep, GoalStep DEF BonusInv
<1>3. BonusInv /\ HelpInv /\ GoalInv => BonusesTypeOK
  <2>1. SUFFICES ASSUME BonusInv, HelpInv, GoalInv PROVE BonusesTypeOK
    OBVIOUS
  <2>2. \A j \in Tasks : task[j].state \in {"active", "pending", "done"} /\ task[j].who \in Doers
    BY <2>1 DEF BonusInv, BonusTypes, TaskRows
  <2>3. \A u \in Doers : mastery[u].level \in 0..2
    BY <2>1 DEF BonusInv, BonusTypes
  <2>4. ASSUME NEW u \in Doers, NEW k \in Achievements PROVE earned[u][k].progress \in 0..GoalOf(k)
    <3>1. earned[u][k].progress \in Nat /\ GoalOf(k) \in Nat
      BY <2>1, BonusesAssumption DEF BonusInv, BonusTypes, EarnedRow, GoalOf
    <3>. QED  BY <2>1, <3>1 DEF GoalInv
  <2>. QED  BY <2>1, <2>2, <2>3, <2>4 DEF HelpInv, Helps, BonusesTypeOK
<1>. QED  BY <1>1, <1>2, <1>3, BonusesKept, PTL DEF ServerSpec

-----------------------------------------------------------------------------
\* All parts together: every row that the server stores, and what calls have read of it,
\* refers to what is there and keeps to its bounds, for every household and scene: the
\* accounts of members, the templates' keys, the starters' rules, the helpers of a chore,
\* the plan that was heard of, the wishes and what went before them.
THEOREM ServerTypeCorrect == ServerSpec => []ServerTypeOK
<1>1. ServerSpec => []BackgroundTypeOK
  BY BackgroundRuns, BackgroundTyped, PTL
<1>2. ServerSpec => []TurnsTypeOK
  BY TurnsTypeKept, PTL
<1>3. ServerSpec => []CalendarTypeOK
  <2>1. CourseInv => CalendarTypeOK
    BY DEF CourseInv, CalendarTypeOK
  <2>. QED  BY <2>1, CourseKept, PTL
<1>4. BackgroundTypeOK /\ RuntimeTypeOK /\ AccountsTypeOK /\ TemplatesTypeOK /\ BonusesTypeOK /\ DashboardTypeOK
          /\ TurnsTypeOK /\ CalendarTypeOK /\ StartersTypeOK /\ PrizesTypeOK => ServerTypeOK
  BY DEF ServerTypeOK
<1>. QED  BY <1>1, <1>2, <1>3, <1>4, RuntimeTyped, AccountsTyped, TemplatesTyped, BonusesTyped, DashboardTyped,
             StartersTyped, PrizesTyped, PTL
=================================================================================
