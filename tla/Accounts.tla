-------------------------------- MODULE Accounts --------------------------------
(***************************************************************************)
(* Accounts and the settings of sign-in: the identities by which a member  *)
(* signs in (a local one with a password, or one of an OIDC provider), the *)
(* tokens that reset a password, and the household's choice of how one may *)
(* sign in.  The checks of a call are made on what it reads first; then it *)
(* hashes, asks the control plane or a provider, and writes.  The database *)
(* keeps an e-mail and a provider's subject unique.  The reading of access *)
(* tokens changes nothing and is left out; so are roles and the time after *)
(* which a reset token expires, and the tenants are one.                   *)
(***************************************************************************)
EXTENDS RuntimeConfig, FiniteSets

CONSTANTS People, Identities, Tokens, Emails, Subjects, Passwords,
          Hosts,            \* mail servers that may be configured
          Untested,         \* no mail server
          ForceLocal,       \* TASKBANDIT_FORCE_LOCAL_AUTH_ENABLED
          Patches           \* settings that an administrator may send: functions on
                            \* some of the fields signup, local, oidc, smtp and host

VARIABLES members,      \* the people that have an account
          identity,     \* Identities -> the stored row, or NoRow
          token,        \* Tokens -> the identity it resets and whether it is used
          settings,     \* signup, local, oidc, smtp: BOOLEAN; host
          tested,       \* verifiedSmtpSettings: the last server that could be reached
          call,         \* Clients -> where its call is and what it has read
          outdated      \* history: tokens issued before the last change of password

accounts == <<members, identity, token, settings, tested, call, outdated>>

NoRow == [kind |-> "none"]
NoToken == [used |-> TRUE]
Row(kind, u, e, secret) == [kind |-> kind, of |-> u, email |-> e, secret |-> secret]
Idle == [at |-> "idle"]
SignedIn(u) == [at |-> "in", as |-> u]
Over == [at |-> "over"]

Stored(i) == identity[i] # NoRow
Local(i) == Stored(i) /\ identity[i].kind = "local"
OwnedBy(u) == {i \in Identities : Stored(i) /\ identity[i].of = u}

\* auth_identity_email_unique and the unique pair of provider and subject.
Clashes(row, own) ==
    \E i \in Identities \ own :
        /\ Stored(i)
        /\ \/ identity[i].email = row.email
           \/ row.kind = "oidc" /\ identity[i].kind = "oidc" /\ identity[i].secret = row.secret

AccountsTypeOK ==
    /\ members \subseteq People
    /\ \A i \in Identities : Stored(i) =>
           /\ identity[i].of \in members /\ identity[i].email \in Emails
           /\ identity[i].secret \in IF Local(i) THEN Passwords ELSE Subjects
           /\ ~Clashes(identity[i], {i})
    /\ \A u \in members : OwnedBy(u) # {}
    /\ \A t \in Tokens : ~token[t].used => Stored(token[t].of)
    /\ tested \in Hosts \cup {Untested}

\* Nobody that a call is about to give an account to.
Newcomers == People \ (members \cup {call[c].row.of : c \in {d \in Clients : "row" \in DOMAIN call[d]}})
AtRest(c) == call[c].at \in {"idle", "over", "in"}

Does(c, next) == call' = [call EXCEPT ![c] = next]
Reads(c, next) ==
    /\ call[c] = Idle /\ \A d \in Clients : d < c => call[d] # Idle
    /\ Does(c, next)
    /\ UNCHANGED <<members, identity, token, settings, tested, outdated>>

\* Whether one can sign in at all.
SignInOpen == ForceLocal \/ settings.local \/ settings.oidc
LocalOpen == ForceLocal \/ settings.local
ToInsert(row, fresh) == [at |-> "insert", row |-> row, fresh |-> fresh]

\* login: the identity is read, then whether the tenant may sign in is asked.
LoginRead(c, i, p) ==
    /\ Local(i) /\ LocalOpen
    /\ Reads(c, [at |-> "login", as |-> identity[i].of, secret |-> identity[i].secret, given |-> p])
Login(c) ==
    /\ call[c].at = "login" /\ load[c].at \in {"has", "unavailable"}
    /\ Does(c, IF Found(c) /\ CanSignIn(c) /\ call[c].given = call[c].secret
               THEN SignedIn(call[c].as) ELSE Over)
    /\ Used(c)

\* signup: the e-mail is free.
Free(e) == \A i \in Identities : Stored(i) => identity[i].email # e
SignupRead(c, u, e, p) ==
    /\ LocalOpen /\ settings.signup /\ Free(e)
    /\ Reads(c, ToInsert(Row("local", u, e, p), TRUE))

\* createHouseholdMember: the members are counted, then the plan is asked, twice, and
\* the e-mail is looked up.
MemberRead(c, u, e, p) ==
    Reads(c, [at |-> "allowed", count |-> Cardinality(members), row |-> Row("local", u, e, p)])
MemberAllowed(c) ==
    /\ call[c].at = "allowed" /\ load[c].at \in {"has", "unavailable"}
    /\ Does(c, IF Found(c) /\ CanAct(c) THEN [call[c] EXCEPT !.at = "seats"] ELSE Over)
    /\ Used(c)
MemberSeats(c) ==
    /\ call[c].at = "seats" /\ load[c].at \in {"has", "unavailable"}
    /\ Does(c, IF Found(c) /\ RoomFor(c, call[c].count) /\ Free(call[c].row.email)
               THEN ToInsert(call[c].row, TRUE) ELSE Over)
    /\ Used(c)

\* completeOidcLogin with what the provider says of the person: an identity of the
\* subject; or an account with the e-mail, to which a second identity is to be
\* added; or else a new account.
OidcKnown(c, s) ==
    \E i \in Identities :
        /\ Stored(i) /\ identity[i].kind = "oidc" /\ identity[i].secret = s
        /\ Reads(c, [at |-> "in", as |-> identity[i].of, subject |-> s])
OidcUnknown(s) == \A i \in Identities : Stored(i) /\ ~Local(i) => identity[i].secret # s
OidcLink(c, s, e) ==
    /\ OidcUnknown(s)
    /\ \E i \in Identities :
        /\ Stored(i) /\ identity[i].email = e
        /\ Reads(c, ToInsert(Row("oidc", identity[i].of, e, s), FALSE))
OidcNew(c, s, e, u) ==
    /\ OidcUnknown(s) /\ settings.signup
    /\ Free(e)
    /\ Reads(c, ToInsert(Row("oidc", u, e, s), TRUE))
OidcLogin(c) ==
    /\ settings.oidc
    /\ \E s \in Subjects :
        \/ OidcKnown(c, s)
        \/ \E e \in Emails : OidcLink(c, s, e) \/ \E u \in Newcomers : OidcNew(c, s, e, u)

\* The person and the identity are inserted together, or neither.
\* (InsertAnyway: as if a subject could have a second identity.)
Created(c, i) ==
    LET row == call[c].row
    IN /\ identity' = [identity EXCEPT ![i] = row]
       /\ members' = members \cup {row.of}
       /\ Does(c, IF row.kind = "oidc" THEN [at |-> "in", as |-> row.of, subject |-> row.secret]
                  ELSE SignedIn(row.of))
InsertAnyway(c, i) ==
    /\ call[c].at = "insert" /\ ~Stored(i)
    /\ call[c].fresh => call[c].row.of \notin members
    /\ IF \E j \in Identities : Stored(j) /\ identity[j].email = call[c].row.email
       THEN Does(c, Over) /\ UNCHANGED <<members, identity>>
       ELSE Created(c, i)
    /\ UNCHANGED <<token, settings, tested, outdated>>
InsertRow(c, i) ==
    /\ call[c].at = "insert" /\ ~Stored(i)
    /\ call[c].fresh => call[c].row.of \notin members
    /\ IF Clashes(call[c].row, {})
       THEN Does(c, Over) /\ UNCHANGED <<members, identity>>
       ELSE Created(c, i)
    /\ UNCHANGED <<token, settings, tested, outdated>>

\* requestPasswordReset: for a local identity, while mail can be sent.
ResetRead(c, i) ==
    /\ Local(i) /\ LocalOpen /\ settings.smtp
    /\ Cardinality({t \in Tokens : token[t] = NoToken}) >
       Cardinality({d \in Clients : call[d].at = "token"})              \* bound
    /\ Reads(c, [at |-> "token", id |-> i])
IssueToken(c, t) ==
    /\ call[c].at = "token" /\ token[t] = NoToken
    /\ token' = [token EXCEPT ![t] = [of |-> call[c].id, used |-> FALSE]]
    /\ Does(c, Over)
    /\ UNCHANGED <<members, identity, settings, tested, outdated>>

\* completePasswordReset: an unused token is read; the password and the tokens of the
\* identity are written by id.  (RetireOwn: as if the other tokens stayed good.)
CompleteRead(c, t, p) ==
    /\ ~token[t].used /\ LocalOpen
    /\ Reads(c, [at |-> "reset", token |-> t, id |-> token[t].of, secret |-> p])
Outdate(i) == outdated' = outdated \cup {t \in Tokens : token[t] # NoToken /\ token[t].of = i}
RetireOwn(i, t) == token' = [token EXCEPT ![t].used = TRUE]
Retire(i, t) ==
    token' = [x \in Tokens |-> IF x = t \/ (token[x] # NoToken /\ token[x].of = i)
                               THEN [token[x] EXCEPT !.used = TRUE] ELSE token[x]]
Complete(c) ==
    /\ call[c].at = "reset"
    /\ LET i == call[c].id
       IN /\ identity' = [identity EXCEPT ![i].secret = call[c].secret]
          /\ Retire(i, call[c].token)
          /\ Outdate(i)
    /\ Does(c, Over)
    /\ UNCHANGED <<members, settings, tested>>

\* updateHouseholdMember: the member's identities are read, and written with a new
\* e-mail and the password that was given, or else the one that was read.
EditRead(c, u, e) ==
    /\ \A i \in Identities : Stored(i) /\ identity[i].email = e => identity[i].of = u
    /\ \E i \in OwnedBy(u) :
        /\ Local(i) \/ \A j \in OwnedBy(u) : ~Local(j)
        /\ \E p \in Passwords \cup {"same"} :
              Reads(c, [at |-> "edit", id |-> i, row |-> [identity[i] EXCEPT !.email = e],
                        secret |-> p])
Edited(c) ==
    IF call[c].secret = "same" \/ call[c].row.kind = "oidc" THEN call[c].row
    ELSE [call[c].row EXCEPT !.secret = call[c].secret]
Edit(c) ==
    /\ call[c].at = "edit"
    /\ call[c].secret = "same" \/ call[c].row.kind = "local"
    /\ LET i == call[c].id
       IN IF Clashes(Edited(c), {i}) THEN UNCHANGED <<identity, token, outdated>>
          ELSE /\ identity' = [identity EXCEPT ![i] = Edited(c)]
               /\ IF call[c].secret = "same" THEN UNCHANGED <<token, outdated>>
                  ELSE /\ token' = [t \in Tokens |->
                              IF token[t] # NoToken /\ token[t].of = i
                              THEN [token[t] EXCEPT !.used = TRUE] ELSE token[t]]
                       /\ Outdate(i)
    /\ Does(c, Over)
    /\ UNCHANGED <<members, settings, tested>>

\* A member with no local identity gets one with the password.
EditAdds(c, i) ==
    /\ call[c].at = "edit" /\ ~Stored(i)
    /\ call[c].secret # "same" /\ call[c].row.kind = "oidc"
    /\ LET row == Row("local", call[c].row.of, call[c].row.email, call[c].secret)
       IN IF Clashes(row, {}) THEN UNCHANGED identity
          ELSE identity' = [identity EXCEPT ![i] = row]
    /\ Does(c, Over)
    /\ UNCHANGED <<members, token, settings, tested, outdated>>

\* updateSettings: the household is read, the patch checked against it, the household
\* read again, and all of the fields written.
\* (CheckPatch: as if only the fields that were sent were looked at.)
Patched(patch, now_) == [f \in DOMAIN now_ |-> IF f \in DOMAIN patch THEN patch[f] ELSE now_[f]]
KeepsOpen(next) == ForceLocal \/ next.local \/ next.oidc
SmtpChecked(next) == (~settings.smtp /\ next.smtp) => next.host = tested
ToWrite(patch, seen) == [at |-> "patch", patch |-> patch, seen |-> {seen}]
CheckPatch(c, patch) ==
    /\ "local" \in DOMAIN patch /\ "oidc" \in DOMAIN patch => KeepsOpen(patch)
    /\ SmtpChecked(Patched(patch, settings))
    /\ Reads(c, ToWrite(patch, settings))
SettingsRead(c, patch) ==
    /\ KeepsOpen(Patched(patch, settings))
    /\ SmtpChecked(Patched(patch, settings))
    /\ Reads(c, ToWrite(patch, settings))
SettingsReread(c) ==
    /\ call[c].at = "patch"
    /\ Does(c, [at |-> "settings", all |-> Patched(call[c].patch, settings),
                seen |-> call[c].seen \cup {settings}])
    /\ UNCHANGED <<members, identity, token, settings, tested, outdated>>
SettingsWrite(c) ==
    /\ call[c].at = "settings"
    /\ settings' = call[c].all
    /\ Does(c, Over)
    /\ UNCHANGED <<members, identity, token, tested, outdated>>

\* testSmtp: the server of the request, or else the stored one, was reached.
TestSmtp(h) ==
    /\ tested' = h
    /\ UNCHANGED <<members, identity, token, settings, call, outdated>>

\* The process restarts: calls and what was tested are gone.
Restart ==
    /\ tested' = Untested
    /\ call' = [c \in Clients |-> IF call[c] = Idle THEN Idle ELSE Over]
    /\ load' = [c \in Clients |-> Unasked]
    /\ cached' = NoEntry
    /\ UNCHANGED <<members, identity, token, settings, outdated, hosted, now, plan>>

-----------------------------------------------------------------------------
\* A call asks the control plane when it needs to know what the tenant may do.
Asking(c) == call[c].at \in {"login", "allowed", "seats"}
Consult(c) ==
    /\ Asking(c)
    /\ Look(c) \/ Answer(c) \/ Store(c) \/ FallBack(c)
    /\ UNCHANGED accounts
Decide(c) ==
    /\ Login(c) \/ MemberAllowed(c) \/ MemberSeats(c)
    /\ UNCHANGED <<hosted, now, plan, cached, members, identity, token, settings, tested, outdated>>

\* The calls that begin, by the names that a scene gives them, and how they go on.
Begin(c, calls) ==
    \/ "login" \in calls /\ \E i \in Identities, p \in Passwords : LoginRead(c, i, p)
    \/ "signup" \in calls
       /\ \E u \in Newcomers, e \in Emails, p \in Passwords : SignupRead(c, u, e, p)
    \/ "member" \in calls
       /\ \E u \in Newcomers, e \in Emails, p \in Passwords : MemberRead(c, u, e, p)
    \/ "oidc" \in calls /\ OidcLogin(c)
    \/ "reset" \in calls /\ \E i \in Identities : ResetRead(c, i)
    \/ "complete" \in calls /\ \E t \in Tokens, p \in Passwords : CompleteRead(c, t, p)
    \/ "edit" \in calls /\ \E u \in members, e \in Emails : EditRead(c, u, e)
    \/ "settings" \in calls /\ \E patch \in Patches : SettingsRead(c, patch)
GoOn(c) ==
    \/ \E i \in Identities : InsertRow(c, i) \/ EditAdds(c, i)
    \/ \E t \in Tokens : IssueToken(c, t)
    \/ Complete(c) \/ Edit(c) \/ SettingsReread(c) \/ SettingsWrite(c)

\* A password that was changed cannot be changed again with a token issued before,
\* whether the change came from another token or from an administrator.
OldTokensDie == \A t \in outdated : token[t].used

\* A subject of the provider signs in as one person, however first sign-ins overlap.
SameSubjectSamePerson ==
    \A c, d \in Clients :
        "subject" \in DOMAIN call[c] /\ "subject" \in DOMAIN call[d] /\
        call[c].subject = call[d].subject => call[c].as = call[d].as

\* A change of settings closes the last way to sign in only where another change came
\* between its reading and its writing.
KeepsAWayIn ==
    [][KeepsOpen(settings) =>
          \/ KeepsOpen(settings')
          \/ \E c \in Clients : call[c].at = "settings" /\ call[c].seen # {settings}]_accounts
=================================================================================
