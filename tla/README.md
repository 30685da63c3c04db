# TaskBandit, specified

TLA+ modules of TaskBandit: the state that the server's endpoints and workers
share, one action per database step they take, the clients that follow it, the
properties that make the system correct while all of them overlap, and theorems
that TLAPS checks. `HR` below is `src/apps/server/src/modules/household/household.repository.ts`,
`CS` is `src/apps/server/src/modules/chores/chores.service.ts`, `RR` and `RS` are
`rewards.repository.ts` and `rewards.service.ts` under `modules/rewards`.

## 1. The system

TaskBandit is a household chore tracker: a NestJS server over PostgreSQL
(Prisma), a web client and an Android client. The server keeps no chore state in
memory. Every request is an asynchronous function that awaits one Prisma
statement after another on a single event loop (and there may be several
processes), so two requests interleave at every `await`. Almost every operation
is *read, check, write by id*: the service reads the row and refuses what the
rules forbid, the repository then updates the row by its id. Only four
operations (submit, complete-external, approve, reject) repeat the check in the
`WHERE` of the update. That is the system's central mechanism and its central
difficulty, and the core of this project.

### Components

| component | state | operations | hard part | modelled in |
|---|---|---|---|---|
| Chore settlement (CS 590-891, HR 4593-5031) | `ChoreInstance.state`, submitter, `User.points`, `PointsLedgerEntry` | submit, complete-external, approve, reject | retries, concurrent reviews, effects after the commit | `ChoreSettlement` |
| Chore editing (CS 152-408, 893-926; HR 3312-5446, 7284-7457) | `ChoreInstance` | create, update, start, take over, release, snooze, cancel, cancel-occurrence, close-cycle, quick log, list | stale checks, blind writes | `ChoreEditing` |
| Assignment and rebalancing (HR 5680-6132) | assignee, lock | a sweep after most calls | acts on a stale list | `Turns` (who is picked), `Rebalancing` (races; any pick) |
| Takeover requests (CS 418-588, HR 4125-4591, 7691-7742) | `ChoreTakeoverRequest` | ask, accept, decline, expire | offers racing each other and the chore; balance limit | `TakeoverRequests` |
| Overdue penalties (HR 1908-2034) | fined mark, points | a pass per dashboard request | stale list, stale balance | `OverduePenalties` |
| Recurrence and follow-ups (HR 6134-6707) | cycle, root, remaining count, due date | made after a completion or an occurrence's cancellation | once per completion; date edges | `ChoreSettlement`; the dates in `Calendar` |
| Bonuses (CS 800-890, `mastery.service`, `achievements.service`, HR 6900-6967) | counters, levels, day records, points | paid by the service after an approval returns | read, increase, write; paid after a duplicate too | `Bonuses` |
| Rewards (RS 43-341, RR 91-424) | `Reward`, `RewardRedemption`, points, ledger | redeem, approve, reject, reschedule; create, update, toggle, delete, import | decisions on stale reads, price edits, exclusive date, limits over days | `Rewards`; limit, cooldown and the starter rewards in `Prizes` |
| Holiday blocks (`holiday-blocks/`) | `HouseholdHolidayBlock` | create, end early, delete, start and end pass | two writes of the start pass | `Holidays`, `Reminders` |
| Reminder worker (`reminder-worker.service`) | the single flight, notifications | holidays, due chores, summary, bookings, expiry | a pass asked for during a pass; the look that replaces a unique key | `SingleFlight`, `OnePass`, `Passes`, `Notices`, `Reminders` |
| Push and e-mail workers | delivery states | list, send, mark; tenant passes, tests, retries | send, then mark; ways round the single flight | `Delivery` on the same modules |
| Leaderboard reset | leaderboard points, last reset | check, reset, read in each dashboard request | requests at the turn of a period | `Leaderboard` |
| Templates and follow-up rules | `ChoreTemplate`, `ChoreTemplateDependency` | create, edit, delete, seed, reset, wizard, sync, push | decisions on stale reads; rules without a foreign key | `Templates` |
| Starter catalogue and onboarding | answers, suggestions, templates | wizard, draft, profile change, suggestion, sync | order of answers, edits and syncs | `Starters` |
| Accounts and sign-in settings (`auth/`, `settings/`) | users, identities, reset tokens, settings | login, signup, OIDC, members, resets, edits, settings, SMTP test | check, hash, write; several tokens; last way to sign in | `Accounts` |
| Hosted plans (`common/tenancy/`) | cached runtime configuration | look, load, fall back | overlapping loads, stale fallback | `RuntimeConfig` |
| Dashboard sync and the clients (`dashboard-sync.*`, `App.tsx`, Android `DashboardViewModel`) | streams; what a session shows | publish, connect, refresh, act, login, logout | refreshes that overlap, lost events, restarts | `Dashboard` |
| Proof storage, analytics | – | – | – | not modelled |

The components meet in three places: the chore row, which every call writes;
the balance and its ledger, which settlement, takeovers, fines (and rewards,
bonuses) change; and the sweep, which most calls run last and which writes other
calls' chores.

### What makes each component correct

* Settlement: a completion is paid, recorded and succeeded once, whatever is
  retried or runs beside it; a child's submission always waits for a review; a
  winner's effects all arrive.
* Takeovers: the chore passes to the invited member together with the answer, no
  other offer stays open, and the points rule is applied to balance and ledger
  alike.
* Penalties: balance and ledger change by the same amount.
* Recurrence: the chores of an occurrence and of a cycle stay linked, because
  cancel-occurrence and close-cycle find them by root and cycle.
* Rebalancing: only flexible chores; and it ends.
* Rewards: a booking is paid, and returned when it is moved, at the cost it was
  made for; a date of an exclusive reward has one booking; what is granted keeps
  to the limit and the cooldown.
* Workers: passes do not overlap, and who asks for one gets one that began after
  the question; a member is told once; the queue drains; a delivery is sent again
  only for a reason one can name.
* Holidays: once a block has been applied, no open chore is due inside it.
* Leaderboard: nobody sees points of a period that is over.
* Recurrence: a series keeps its rhythm however late it is completed, and has as
  many occurrences as it was given.
* Assignment: a rotation rotates, a fair share is one, a sweep settles.
* Bonuses: what is earned is backed by completions; a finished day is recorded.
* Templates and starters: rules lead to templates that exist, what a member wrote
  stays, what only a follow-up brings up is called for, washing is in one place.
* Accounts: an old token is dead, a subject is one person, a way to sign in stays.
* Plans: a decision goes by a plan of bounded age.
* Clients: a session at rest shows the household as it is.

## 2. How the model works

In the core, `ChoreStore` declares the rows (`inst`, `offer`, `points`, `ledger`) and the
calls (`call`). A call is a process: its record says at which statement it is
(`at`), what it was asked and what it has read. `Begin` starts it with its first
read, `Return` ends it. Each later statement is an action guarded by `At(r, ops,
place)`. The following correspondences hold everywhere.

* **One statement, one step.** The statements of one `$transaction` are one step
  from its first write on; at READ COMMITTED nobody sees a part of it. A *read*
  that comes before the writes in a transaction is a step of its own when a later
  value depends on it (`AskBalance`, `FineBalance`), because it takes no lock.
  `createTakeoverRequest` inserts the offer before it reads the balance; the offer
  is invisible until the commit, so the insert is put into the writing step.
* **Reads stay in the call.** `row`, `bal` and `todo` are what the call read; the
  action that uses them uses those, not the present rows.
* **A refused request leaves no trace**, so the read actions are guarded by the
  service's checks instead of returning an error. A submit or review that loses
  its conditional update is a step (`SubmitLose`, `ReviewLose`); the duplicate
  answer and the conflict both change nothing.
* **Choices.** Which member a strategy picks, which chores lie beyond the freeze
  window or are overdue, which deferred chores are due and which offers are stale
  are arbitrary: the properties hold whatever the clock says.
* **History.** `rev` counts the state changes of each chore; `born`, and `by`,
  `kind` and `rev` of an entry, record which completion a row or entry answers.
  They are never read by a guard. They let the properties speak of *the same
  completion* where the database has no key for it.
* **Folded data.** A null `occurrenceRootId` is the row's own id (HR 6497);
  `suppressRecurrence` and the recurrence overrides are `recurs`; an
  AFTER_OCCURRENCES count is `left`, -1 without one; a random cycle id is the id
  of the row that starts the cycle; the points of a completion are `Award` (the
  service computes them from its read, they do not depend on the race).
  IN_PROGRESS and OVERDUE stay in the guards as in the code; nothing in the
  server writes IN_PROGRESS any more.
* **Break.** A call may stop for good at any statement (a throw after an await or
  the end of the process); the database keeps what was committed.

`Rewards` is a specification of its own, built the same way. It shares the balance
and the ledger with the chores, but nothing else: balances change by increments,
so the calls of the two do not lose each other's points, and a chore's credit
between a redemption's balance check and its charge only adds to the balance. Its
differences: every write is one statement or one transaction, so a call that a
check refuses, that throws or that the server drops leaves no trace, and one
action, `GiveUp`, stands for all three; reads of what never changes are joined to
the next step; the cooldown may refuse at any time. `stale` is history: it collects the bookings that
a call decided whose status was no longer the one it had read.

The background and the rest of the server are composed the same way.
`Background` joins the workers with what members and administrators do meanwhile
to notifications, devices, holidays and chores, and with the leaderboard;
`Server` EXTENDS `Background` and joins the parts that keep rows of their own.
A *scene*, a record chosen by `Init`, says which part a behaviour is about
(`work`), what is stored at the start and who does what (`people`, `callers`):
the parts touch different rows, so their product would only multiply states.

* **The single flight.** `SingleFlight` has `activeRunPromise` as `active` (the
  caller whose loop runs), `rerunRequested` as `rerun`, and in `line` the callers
  whose `then` will begin the next loop, in the order they asked. Its refinement
  mapping to `OnePass` reads who is *wanting* off `line`, `active` and `heard`.
  `Passes` adds what `runInternal` does (`job`), the endpoints that call it
  directly for one tenant or one delivery, and the end of the process, which
  forgets everything but the rows.
* **Delivery** lists the oldest pending rows, asks the policy, sends, and marks by
  id. `sent` counts sends since the row was queued; `faults` and `retries` say how
  often something happened that explains another one.
* **Reminders** go through the five parts of a pass, each list read at once and then
  gone through: plan, look for the notice, list the members, aim at devices,
  insert, queue. `Holidays` has the three calls of the endpoint and the two writes
  of the start pass (`Defer`, `Apply`). Days are counted in a household in UTC.
* **Leaderboard** counts periods; the points on the board are kept by the period
  they were earned in, to tell old ones from new.
* **Accounts** and **RuntimeConfig**: a call is at a place and remembers what it
  read; the places are the awaits (hashing, the provider, the control plane, the
  writes). The unique indexes are `Clashes`. A bad password, a missing token or a
  full plan ends the call. `outdated` is history: the tokens issued before the
  last change of a password.
* **Templates**: a template is its catalogue key, whose text it has and whether it
  was customised; a rule row keeps which call wrote it, because the table has no
  unique pair. A sync, push or wizard run reads, plans, and commits in one
  transaction.
* **Starters** has the catalogue's keys with their follow-ups and the answers that
  select them as they are in the code (`Starter`, `Seeds`), and for one chain,
  the washing, the chores that templates and rules lead to.
* **Prizes** has the starter rewards with their terms. A redemption keeps which
  earlier ones had been granted when it was asked for (`before`, history).
* **Bonuses** starts where an approval returns: perfect day, achievements, mastery
  and helpers, one read or write a step. Both an approval that won and one that was
  answered as a duplicate go through it, as in the code.
* **Turns** makes the whole call one step and the pick as the code makes it
  (`Chosen`, with one definition for each strategy and tie breaker); `Household` does the
  converse. The order of due times stands for the freeze window and for which chore
  the sweep takes first.
* **Calendar** counts half days, for the code compares with half an interval. The
  catch-up loop is a recursive function, month lengths are a constant.
* **Dashboard** follows one session of one of three clients: the web's client
  workspace, its admin workspace, which has no stream, and the app. A refresh reads
  the household in one step and arrives in another; events are only a number in
  flight, for the client uses them only as a sign to refresh. What a handler does
  with its answer (`Handlers`) is read off each handler of the clients. `strayed`
  is history: something that this client does not make good (an older refresh that
  arrives last and events missed while the stream was down, in the web; an answer
  that comes after a logout), since the last refresh that nothing disturbed.

| module | models | actions |
|---|---|---|
| `ChoreStore` | rows, calls, `Init`, `Break`, history | – |
| `ChoreSettlement` | CS 590-891, HR 4593-5031, 6134-6495 | `SubmitRead/Win/Lose`, `ExternalRead`, `ReviewRead/Win/Lose`, `Credit`, `RecordCompletion`, `CreateFollowUps`, `Renew` |
| `ChoreEditing` | the other chore endpoints | one read and one write action per endpoint, `ListSiblings` |
| `TakeoverRequests` | offers and their expiry | `Ask*`, `Accept*`, `Decline*`, `Expire*` |
| `OverduePenalties` | the penalty pass | `FineList`, `FineBalance`, `Fine` |
| `Rebalancing` | the sweep | `ReadCandidates`, `Reassign` |
| `Household` | the composition, the specification and the properties | `Next`, `Spec`, `FairSpec` |
| `CompletionPromises` | abstract: what settlement promises for a completion | `Complete`, `Pay`, `Waive` |
| `Rewards` | the rewards shop, its specification and properties | `Authenticate`, `ReadReward`, `CheckLimit`, `CheckDate`, `Book`, `ReadPending`, `Approve`, `Reject`, `ReadBooking`, `CheckConflict`, `MovePending`, `MoveApproved`, and the catalogue |
| `OnePass` | abstract: what a worker promises to who asks it | `Ask`, `End`, `Fail` |
| `SingleFlight`, `Passes` | `runOnce`, the passes around it, the process | `RunOnce`, `PassOver`, `RunForTenant`, `Crash` |
| `Notices`, `Delivery`, `Reminders` | the rows of a notification; the three workers | `List`, `Send`, `Mark`; `Plan` .. `Queue`, `Defer`, `Apply` |
| `Holidays` | the holiday endpoints | `HolidayCall` |
| `Leaderboard` | the reset of a dashboard request | `Check`, `Reset`, `ReadSummary` |
| `Background` | the composition, `Spec`, `FairSpec` | `Worker`, `Requests`, `Board` |
| `RuntimeConfig`, `Accounts` | the plan cache; sign-in and its settings | `Look` .. `FallBack`; `Begin`, `GoOn`, `Decide` |
| `Templates`, `Starters`, `Prizes` | templates and rules; the starter catalogue; starter rewards and their terms | one per read, write or transaction |
| `Bonuses` | what an approval earns besides points | `ApproveRead` .. `PayHelpers` |
| `Turns`, `Calendar` | who is next; when is next | one per call |
| `Dashboard` | publishing, streams, the three clients | one per event, request, answer |
| `Server` | the composition of all but the chores' core, `ServerSpec` | one `...Step` per part |
| `HouseholdMC`, `RewardsMC`, `BackgroundMC`, `ServerMC` | small instances for TLC and their scenes | – |
| `Catalogs` | how the catalogues of rewards and templates are put together | – |
| `*_proofs`, `Sums` | theorems (§4), and the lemmas about sums and folds that they share | – |

Operators said to be "as if" (`Resubmittable`, `AcceptOneOfMany`, ...) are
deliberately wrong variants of a definition; they are used by no module and show
that a property notices the mistake.

## 3. What TLC checks

| run | instance | properties | states |
|---|---|---|---|
| `settlement` | a parent, a child, 1 chore in three initial stages, 3 calls of 10 operations, one may break off | `TypeOK`, `PaidOncePerCompletion`, `PointsAccountedFor`, `ChildNeverCompletes`, `KeepsPromises` (refinement) | 190 000 |
| `series` | a repeating chore (endless, or one renewal left) with a follow-up, 2 calls of 6 operations, 6 rows | `SucceededOncePerCompletion`, `OccurrenceTree` | 553 000 |
| `offers` | 2 adults, 2 chores, 3 offers, 3 calls of 6 operations, positive points rule | `PointsAccountedFor`, `HandoverIsAtomic` | 463 000 |
| `household` | 2 repeating chores, 2 calls of 13 operations, 2 offers, negative points rule, weak fairness | `EveryCallReturns`, `EveryWinSettles` | 22 000 |
| `rewards` | a parent, 2 children, a booked dinner (own or the operator's) or a treat with limit 1, 2 rewards, 4 bookings, 2 dates, 3 calls of 9 operations, both approval settings; calls are symmetric | `TypeOK`, `PaidExactly`, `LedgerAgrees` | 64 000 |
| `delivery` | a push, or an e-mail, that waits; the timer and an admin call the worker, a tenant pass, a test send, a retry, a device registered or deleted, one end of the process; or 2 dashboard requests over 3 periods; weak fairness | `ServedAfresh` (refinement), `EverySendAccounted`, `QueueDrains`, `FreshBoard` | 169 000 |
| `server` | the scenes below | `ServerTypeOK` and 21 more, below | 687 000 |
| `negative` | 2 requests | `BalanceNeverNegative` – **violated** | |
| `credited` | 1 submit that may break off | `LedgerExplainsBalances` – **violated** | |
| `closed` | close-cycle beside submit | `ClosedCycleStaysClosed` – **violated** | |
| `rebal` | cancel beside start | `RebalancingTouchesOnlyFlexible` – **violated** | |
| `booked` | one redemption | `DateConflictGuard` – **violated** | |

The scenes of `server` and what they show:

| scenes | stored and done | properties |
|---|---|---|
| reminders | a due chore; a booked dinner, two askers; a holiday that starts, and others created, ended, deleted, over two days or with one end of the process; devices and preferences that change | `OneNoticePerTopic`: nobody is told the same thing twice, for passes do not overlap. `DeferralClears`: an applied block leaves no open chore inside it |
| accounts | resets (3 tokens), completions and edits; signup and OIDC; settings with SMTP and restart; login; on a hosted server login and new members | `OldTokensDie`, `SameSubjectSamePerson`, `KeepsAWayIn`, `PlanRecent` |
| templates | 2 catalogue keys in a chain, 3 calls of any kind | `MembersVersionKept`, `OwnRulesResolve` |
| starters | every answer once; wizard runs with edits by hand; wizard, draft, profile, suggestions and syncs with loads of washing, or with two overlapping calls | `OneLoadAtATime`, `FollowUpsComeUp` |
| prizes | the starter reward with a limit and a cooldown, 2 or 3 requests of a child over 3 days, terms and shelf that change | `TermsKept` |
| bonuses | 2 chores, 2 or 3 approvals or submits, helpers that come and go | `PerfectDayNotMissed`, `BonusesDeserved` |
| boards | the app, the web and the web's admin workspace, each with the user's own calls, other members, lost events, failed requests, restarts or logout | `BoardFollows`, `ShownFilesOpen` |
| turns | 4 chores of a template under each strategy and audience: created, completed, cancelled, taken, followed up, frozen; members who join | `TakesTurns`, `EvenShares`, `SweepSettles` |
| series | one of each recurrence and each end, completed early, late or very late, cancelled, edited, pushed by a holiday | `OnTheGrid`, `Cadence`, `EndsAsTold` |

*Bounds.* `Requests` bounds the number of calls: each member of it is one call,
made once. Races of this code are between two calls at a time, or two calls and a
pass that reads before and writes after them, hence 2 and 3. `Chores` and `Offers`
are pools of rows; they are as large as what the calls of a run can create, so no
call ever waits for a row, and the deadlock check, which is on, would notice if
one did. `MaxFailures` bounds the calls that break off. The initial
households (`OneChore`, `RepeatingChore`, `TwoChores`, `TwoRepeats`) are stored
rows as earlier calls leave them: a chore that is open, assigned or handed in, a
repeating chore as `createInstance` makes it. The shops of `rewards` (`Starts`) hold
one pending booking, so that three calls reach what takes longest: approve, move,
approve again, or an approval, a price edit and a move.

In `server` and `delivery`, calls are numbered in the order in which they begin,
which spares the permutations of equal calls: 3 `Clients`, `Editors` and
`Approvals` (two that race and one that comes after or before), 2 `Sessions` and
`Askers`, each session number used again and again. `MaxNotes` 2 is a notification
and a later one that could be a second of the same; `MaxFaults` 1 and `MaxRetries`
1 are the one event whose effect is counted; `LastDay` 2 is the day of a block or
booking and the next. `TTL` and `Window` are one tick and the clock stops at 3,
after an entry has passed both. `MaxTurns` 4 is twice round two members, or three
chores and a member who joins; `Horizon` 180 half days cover every interval twice,
with months of 28, 30 and 31 days (`FourMonths`) and steps of a half day or ten
days. `MaxRev` 2 and `MaxOffice` 1 are two changes of the chores, of which the
first may be missed, and one of the rest; `MaxRefreshes` 2 are those that can
overtake each other. `MaxLoads` 1 load of washing is enough for one folded twice;
the number of equal rules is cut off at 2. `MaxWishes` 3 go past a limit of 1 and a
cooldown that has been lifted meanwhile. The parts of `Server` may always do
nothing more once they are at rest, which is the one stuttering that the deadlock
check accepts.

*Fairness.* `FairSpec` asks weak fairness of `Progress(r)`, the steps of a call
that has arrived: Node's event loop resumes every settled `await`, and PostgreSQL
answers every statement (a call that is never answered is one that breaks off,
and the liveness run has none). Nobody is obliged to make a call.
`Background.FairSpec` asks it of `GoesOn`, the steps of a worker's running loop, for
the same reason, and of `Timer`, because `setInterval` calls `runOnce` for ever;
tenant passes, members, administrators and the end of the process owe nothing, and
after an end the timer of the next process goes on. `QueueDrains` rests on both.

### Exceptions that the properties name

Several properties except a case in which the code, seen from its own statements,
does not keep them and no document says that it should. The exception is in the
formula, and the behaviour is in the model:

* `MembersVersionKept` speaks of templates that the push saw customised; an edit
  between its reading and its writing is overwritten. `OwnRulesResolve` speaks of
  calls that do not overlap.
* `KeepsAWayIn`: two changes of settings, each allowed by itself, can together close
  every way to sign in.
* `TermsKept`: the limit is checked when a child asks and not at approval, so
  several requests that wait can all be approved.
* `BoardFollows`: in the web an older refresh that is answered last stays on the
  screen, and nothing makes up for events that were published while the
  `EventSource` was down.
* `TakesTurns`, `SweepSettles`: chores given by hand or kept by a follow-up do not
  count, and with two flexible chores under rotation every sweep swaps them.
* `FollowUpsComeUp` speaks of the time after the wizard and before templates change
  again; `OneLoadAtATime` of templates that nobody has customised.
* `Cadence`: the end date is compared before the catch-up, so an occurrence that is
  completed late may have a successor after the end.

### What the violated runs show

* `negative`: "Takeover penalty deductions never drive a member's point balance
  below zero" (`docs/chore-workflow.md:54`). Two requests of one member read the
  same balance; both deduct (HR 4230-4250). The same shape is in the penalty pass
  (HR 1963-1971).
* `credited`: "Every point transaction [...] is recorded in the points ledger"
  (`docs/rewards-workflow.md:79`). The credit (HR 4766) and the entry (HR 4777)
  are two statements outside a transaction; when the call stops between them, the
  retry is answered as a duplicate and the entry is never written.
* `closed`: cancelling a repeating chore "stops future repeats"
  (`docs/chore-workflow.md:40`). A completion that won just before close-cycle
  creates the next occurrence just after it (HR 5357, 6441).
* `rebal`: "Automatic rebalancing only touches flexible chores"
  (`docs/chore-workflow.md:30-33`). The sweep updates by id what it read once
  (HR 6095), also a chore that has been claimed, completed or cancelled since.
* `booked`: a date with a booking of "status `PENDING` or `APPROVED`" is refused
  (`docs/rewards-workflow.md:31`). The code looks for approved bookings only
  (RR 417), and no approval looks again, so two bookings of one date can both be
  approved without any overlap of calls.

## 4. What is proved

Thirty-eight results, in seven modules (the eighth, `Sums`, holds lemmas), for every
value of the constants that meets the named assumptions. No set of members, rows, calls or sessions is assumed finite,
except where a property counts: `Cardinality` of redemptions, of the calls that owe a
perfect day, of the templates a call may create.

| module | theorems (property) | inductive invariant |
|---|---|---|
| `Household_proofs` | `TypeCorrect`, `CompletionsPaidOnce`, `SettlementKeepsPromises` (refinement), `BalancesFollowLedger` | `TypeInv`, `PayInv`, `BooksInv` |
| `Rows_proofs` | `OnlyAdultsComplete`, `AcceptingHandsOver`, `CompletionsSucceededOnce`, `OccurrencesStayTogether` | `KnowInv`, `HeirInv`, `TreeInv` |
| `Rewards_proofs` | `ShopTypeCorrect`, `BookingsPaidExactly`, `BalancesExplained` | `TypeInv`, `PayInv`, `BooksInv` |
| `Background_proofs` | `FlightServesAfresh` (refinement), `WorkersServeAfresh`, `BoardIsFresh`, `DeferralsClear`, `NobodyToldTwice`, `SendsAccounted` | `FlightInv`, `BoardInv`, `DeferralInv`, `NoticeInv`, `SendInv` |
| `Server_proofs` | `PlanStaysRecent`, `AccountsTyped`, `OutdatedTokensDie`, `SubjectsArePeople`, `AWayInIsKept`, `DaysAreRecorded`, `BonusesAreDeserved`, `ServerTypeCorrect` | `PlanInv`, `AccountsInv`, `BonusInv`; for the types also `ClockInv`, `HelpInv`, `GoalInv` |
| `Parts_proofs` | `RulesResolve`, `MembersKeepTheirText`, `WizardIsComplete`, `LaundryStaysTogether`, `PrizesKeepTerms`, `BoardKeepsUp`, `ShownFilesServed`, `CountIsKept`, `RhythmIsKept`, `SpacingIsKept` | `RulesInv`, `ServedInv`, `LoadsInv`, `PrizesInv`, `SessionInv`, `CourseInv`; for the types also `KeysInv`, `KeptInv`, `BeforeInv`, `WithinBounds` |
| `Turns_proofs` | `TurnsAreTaken`, `SharesAreEven`, `OneSweepIsEnough` | `TurnInv`, `EvenInv`, `TurnsTypeOK` |

### The chores

Assumed are those of `ChoreStore`: adults are users, recurring templates are
templates, points are numbers, the stored households are rows of the right form.

* `TypeCorrect`: `TypeOK` alone is not inductive: a statement uses the chore, offer
  or list that the call's first statement put into its record. `TypeInv` adds
  `Fit(call[r])` (which operation may be at which statement, and that the arguments
  the statement needs are there) and `OffersFit` (an offer that exists has its chore
  and members). There is one lemma per module, one step per action.
* `CompletionsPaidOnce`: `PayInv` says, of each chore's revision counter: no entry
  and no win is of a revision the chore has not reached (`EntriesReached`,
  `WinsReached`); two calls never won the same revision (`OneWinner`); a call that
  still has to write its entry has none yet (`DueUnpaid`). A win takes a new
  revision, so it differs from all earlier wins and entries; every other step
  (`Idles`) leaves the entries alone and makes no call a debtor.
* `SettlementKeepsPromises`: the household implements `CompletionPromises`. The
  refinement mapping reads the abstract promises off the calls: a call at `credit`
  or `ledger` owes the revision it won (`Owing`, `Promised`), the receipts are the
  completion entries. A winning update makes a promise that `PayInv` shows to be
  fresh (an external completion makes none); `Credit` waives it when there is no
  beneficiary; `RecordCompletion` meets it, and `OneWinner` shows that it is no
  other call's; every other step, a break included, changes neither.
* `BalancesFollowLedger`: a ledger is a set, so an entry that is written twice would
  count once while the balance counts twice. `BooksInv` therefore says, beside the
  equation (`Balanced`), that what is about to be written is new: a call that still
  `Owes` the entry of its operation has none in the ledger (`WritesOnce`), and a
  penalty pass, which writes one for each chore of its list, has none yet of those it
  still has to go through (`Bills`). Between the credit and the entry a call is a
  `Recorder`, worth one completion; the entry takes it from the one side of the
  equation to the other. A call that breaks off there stays one for ever, which is
  what the run `credited` refutes a document with.
* `OnlyAdultsComplete`, `AcceptingHandsOver`: these are about single steps, but what
  a step does depends on what its call read long before. `KnowInv` says what of it is
  still so however stale the rest: the chores a call names exist, an operation for
  adults was begun by one, an offer that is being accepted is of that chore and made
  to that member. Rows and offers never vanish, and offers keep what they offer
  (`RowsKept`, `OffersKept`), which is why it is inductive.
* `CompletionsSucceededOnce`: a follow-up or renewal remembers the completion it
  answers (`born`). Uniqueness needs that a call which is still to write its
  successors has none of them yet (`HeirsDue`; at `renew`, follow-ups only), and, so
  that a later win starts with none, that no row answers a revision its chore has not
  reached (`BirthsReached`). `OneWinner` of `PayInv` gives that no other call writes them.
* `OccurrencesStayTogether`: what a call keeps of its chore's root and cycle is still
  the row's (`TreeInv`), so what it hangs there is in place. Its hypothesis
  `OccurrenceTree` is about the stored rows of the initial state, of which
  `HouseholdAssumption` says only the form.

### The rewards

* `ShopTypeCorrect`, `BookingsPaidExactly`: `PayInv` adds to `PaidExactly` that a row
  not made yet has no entries (`UnmadeUnpaid`), and that member and cost of the
  booking a call has read are still the row's (`SeenTrue`). A decision that leaves
  its booking out of `stale` found the status it had read, so it has the entries of
  that status, and adds the one that leads to the next.
* `BalancesExplained`: here a call writes one entry at most and writes it with its
  last step (`WritesLast`), so what it writes is new; each charge and refund changes
  the balance by the amount of its entry.

Sums are the folds of the community modules, whose definition is a recursive function.
`Sums` proves, from the least counterexample (`Smallest`, `Climb`, `Shrink` for finite
sets), that the function exists (`SumsExist`), that the order of adding does not matter
(`SumsAdd`), that one more entry adds its amount (`TotalAdds`) and what a fold with +
comes to (`FoldIsSum`, `FoldOfFive`). The members' accounts are finite, for each starts
empty and grows by an entry at a time; the theorems need no assumption about it.

### The background

Assumed: only the callers that exist call `runOnce`, and the scenes are rows of the
right form, with no block applied before its first day (`Sound`, in
`ScenesAssumption`); the endpoints are no callers (`EndpointsAssumption`); nobody is
not somebody (`NoOneAssumption`, `NoneAssumption`).

* `FlightServesAfresh`: the single flight implements `OnePass`. `FlightInv` says that
  nobody is in the line twice, that the running caller is not in it, that the pass is
  made for exactly the caller whose loop runs, and that without a loop the line is
  empty. Without the first, a caller that is answered from the head of the line could
  still be waiting behind. One lemma per step maps it to a step of `OnePass`.
* `WorkersServeAfresh`: every step of the composition is a step of the flight or
  leaves it alone (`StepParts`).
* `BoardIsFresh`: `BoardInv` says that all points of periods before the last reset
  are gone, and that a request which is about to read has seen to it that those of
  periods before its own are.
* The workers' three rest on `BaseInv`: what is stored has its form (`RowsInv`), only
  the caller whose loop runs has a pass of its own (`RunInv`, on `FlightInv`), and a
  pass of the reminders deals with what its part has listed, one after the other
  (`OrderInv`).
* `DeferralsClear`: `StoredInv` strengthens the property to the end that a call about
  to shorten a block has in hand (`Ends`), for a block that has been applied gets no later one;
  `ClearInv` says that what the start pass read of a block it is to apply still
  stands or is gone (`AsRead`), and that between `Defer` and `Apply` no chore is left
  inside it. Nothing else moves a chore into a block.
* `NobodyToldTwice`: `NoticeInv` says what a pass's look for an earlier notice could
  have missed. A topic on its list that was told on this very day stays to be found
  (`Untold`), and what it is about to insert is not there for those it is inserted
  for (`Telling`). That the day of a note is never after today (`Credible`), and that
  a second pass does not run beside this one (`RunInv`), carry the proof.
* `SendsAccounted`: the property counts every endpoint that ever ran a pass; `SendInv`
  counts, for each delivery, those that are past it (`Spent`), the worker's own send
  (`Served`) and the ends of the process (`Bound`), and knows that what is on a pass's
  list is stored. A delivery queued again starts at nothing.

`BackgroundRuns` (`ServerSpec => Spec`) hands all of this to the server.

### The parts of the server

Assumed: the scenes are rows that earlier calls leave (`Orderly`, in
`ServerAssumption`), and the constants' own assumptions (`RuntimeConfigAssumption`,
`BonusesAssumption`, `TemplatesAssumption`, `StartersAssumption`,
`PrizesAssumption`, `DashboardAssumption`, `CalendarAssumption`: the horizon is within
the 1000 attempts of the loops, and `MonthsAssumption`: the months reach beyond it). TLC evaluates all
of them in the runs. A step of the server moves one part (`PartsMove`), so each
invariant is proved on the steps of its own.

* `PlanStaysRecent`: of a question on its way, `PlanInv` keeps the time it was begun
  at and the copy that it falls back on; every copy expires no later than `TTL` after
  the answer it holds.
* `AccountsTyped`, `OutdatedTokensDie`, `SubjectsArePeople`, `AWayInIsKept`:
  `AccountsInv` has the stored rows (unique e-mails and subjects, no member without
  an identity, no outdated token that is good) and the form of each call at each
  place (`Form`) with what it read and still holds (`Holds`): an identity's kind and
  owner never change, an OIDC identity's subject neither. A settings call that saw
  the same state twice has checked what it will write (`Setting`).
* `DaysAreRecorded`, `BonusesAreDeserved`: each approval that is on its way is backed
  by a done chore or a recorded day (`BacksAll`). `DayInv`: a finished day is on
  record or a call is about to see to it. `PerfectInv` counts the perfect days that
  calls have recorded and not paid yet, so that two that overlap cannot pay for one.
  `CountInv` has the thresholds of mastery. The code does not order the two
  thresholds, so the property asks of each level its own threshold only.
* `RulesResolve`, `MembersKeepTheirText`: as long as no calls have overlapped, what
  the one call has read is still so: the templates it knows exist, and it will see to
  every rule that its deletions would break (`Current`); then the rules of the members'
  own templates lead to living ones (`Leads`).
* `WizardIsComplete`: for *every* answer, of the real catalogue, not only those that
  the run goes through: each follow-up is selected together with something that calls
  for it (`Preceded`), and the wizard wires every chain it has both ends of.
* `LaundryStaysTogether`: again of the real catalogue. Answers select the washing
  *whole* or not at all: machine, folding, putting away and one way to dry; and so does
  what one profile adds to another (`AddedWhole`), for a call that grows the answers
  cannot change the dryer. `ReadInv` carries that over to the suggestions that wait and
  to what calls have read. `LoadsInv` says of the wires, as long as only answers shaped
  them: none is double or leads to what is gone, and the machine has one to dry by;
  then a completed chore makes way for one at most, and chores and loads stay in step.
* `PrizesKeepTerms`: what a request found granted is granted still (`WellAsked`), and
  the smallest of a set of days exists (`Smallest`, from the well-ordering of the
  naturals).
* `BoardKeepsUp`, `ShownFilesServed`: `SessionInv`. A session that nothing strayed is
  `Awaited` (something on its way will begin a refresh: a reconnect, an event, a
  written call, a queued refresh) or `InStep` (what refreshes have read is what the
  server stores; without a refresh the board shows it, or will once an answer is put
  in its place). `FetchInv` says that an undisturbed refresh is the only one in the
  web, and `OwnInv` that what the user's own call has written stands. A board at rest
  is not awaited, so it is in step.
* `CountIsKept`, `RhythmIsKept`, `SpacingIsKept`: `CourseInv` has the types, the count
  (what was made and what is left come to what was asked for) and the rhythm
  (`InRhythm`, which says of months what `OnTheGrid` does not need to: where in which
  month). The catch-up loop is a recursive function over times. That it has a value at
  all, that it stops (`LoopEnds`) and where (`Arrives`: at the first time that is late
  enough and a number of intervals on) is proved from the well-ordering of the naturals
  (`Smallest`, `Climb`), which stands in for the induction theorems of the library.

* `ServerTypeCorrect`: `ServerTypeOK` is less about forms than about references, across
  calls that overlap, and each part has an invariant of its own for it, beside those
  above. No two templates have one catalogue key, although a reset drops and an import
  keeps and makes: what a call has read to keep or to point anew it does not drop
  (`Spares` in `KeysInv`), and one that would clash changes nothing. Rules of the
  starters lead between what is kept, and what has chores is kept, because what calls
  have read is of the catalogue (`Known`, `KeptInv`). Helpers are members (`HelpInv`: also
  those about to join), progress stops at the goal (`GoalInv`), no wish counts itself
  (`BeforeInv`), and the plan that is cached, asked for or on its way is one that the
  control service had by now (`ClockInv`). The background's rows are `BackgroundTyped`,
  the turns' and the calendar's are in their own invariants.

### Who gets a chore

Assumed: `TurnsAssumption` (the display names order the crew, the bounds are numbers)
and, in `Orderly`, that no member has joined twice. `TurnsAreTaken` is about templates
that two members may do when the behaviour begins, `SharesAreEven` about households
that begin with two members: the chores of one who was alone could not have been
shared.

* The pick. Keys are compared number by number (`Precedes`); the order is transitive,
  one way and, because the display names tell all members apart, total (`PrecedesTotal`,
  `RankIsKey`), so of the members who may do a chore exactly one comes first
  (`ComesFirst`). In rotation it is the next seat, which is never that of the member
  before, if two may (`TurnPasses`). In every case the pick is somebody who may, or
  nobody (`ChosenIsMember`).
* The sweep is a fold over a set in the order of due times. `FoldsExist` (by `Shrink`)
  and `SweepIsFold` make it a chain of picks, each on the chores as the ones before
  left them; what each pick keeps, the sweep keeps (`SweepKeeps`).
* `TurnsAreTaken`: `TurnInv` says that the numbers are given out in order, that all
  chores made have a member, and that the newest two by rule differ (`NewestDiffer`).
  A pick for an older chore looks at the newest other one, and a pick for the newest at
  the one before it, so either keeps them apart.
* `OneSweepIsEnough`: a chore that the sweep has settled is settled still after a pick
  for another one (`SettledStays`). Were it taken away now, by z from x, because another
  chore has moved between x and some y, then that other chore, picked again, would move
  too (`TakenAgain`): a key with one more chore comes later, and without it the order of
  the members is the same. So a chore that one pick settles unsettles none of those
  settled before, the settled ones only grow (`SettledGrows`), and a second sweep picks
  whom the first one picked (`SweepSettled`). The merit before the load (last completion;
  streak and points) does not change in a sweep.
* `SharesAreEven`: `EvenSoFar` says of two founders that the one who did a chore longer
  ago has done as many or one fewer (`EvenlyDone`), and that the active chore is with
  one who did one longest ago (`WellGiven`). Closing it makes its member the last, with
  one more (`ClosedEven`); completions are stamped in order (`Stamped`). With two active
  chores both could be with the same member, hence *at most one active chore*, a number
  that no call makes smaller.

### What proving brought up

* `PassOver` had a `CASE` whose guards overlapped; TLC took the first.
* The refreshes of a session are kept in slots and no longer in a sequence, whose
  positions shift when one in the middle arrives. The catalogues are put together
  with `++` (`Catalogs`), so that a proof can expand one group at a time.
* What stored rows have to be like was implicit in the scenes: nobody was told twice,
  blocks that were applied have cleared their days (`Sound`); e-mails and subjects are
  unique, a token that is good is of a local identity, nobody has done everything on
  the first day (`Orderly`).
* The horizon of `Calendar` has to be within the months it is given and within what the
  code's loops of 1000 attempts can reach, and an interval is at least a day, as the
  request classes demand. Both are assumptions now.
* A completion credits its member before it makes the next occurrence and sweeps (HR
  4767), so the strategy that looks at streaks and points sees the new ones; `Turns`
  let it see the old ones. Its picks were sorted sequences; they are the first of a
  set now, and the sweep a fold that takes the last of a set off, because a proof can
  follow those.

* The types of the parts hold only of scenes that are within the bounds of a run
  (`MaxEarned`, `MaxRev`, `MaxOffice`), of catalogue keys that differ from the null of a
  household's own template (`Own`), and of supervisors who are members; the model said
  none of it. All three are assumptions now.

### Only model-checked

* The liveness properties `EveryCallReturns`, `EveryWinSettles`, `QueueDrains`, out of
  the prover's reach.

## 5. Not modelled, and why

* Texts, audit entries, proofs, checklists, translations and variants of templates:
  written in the same statements, read by no guard of the modelled operations (a
  submit's checklist and photo checks refuse, which leaves no trace).
* Proof storage and analytics: files and reports, without shared state. Rendering,
  drafts and filters of the clients. Access tokens (signed, with an expiry; nothing
  is stored), rate limits, host names of tenants, the features of a plan other than
  sign-in, action and seats, which are decided in the same way.
* The app's outbox (`TaskBanditOutboxStore`): nothing in the app puts anything into
  it. The second view model's refresh after the app's wizard.
* The operator's JSON catalogues, which are empty in the repository.
* Streaks, groups and weeks of achievements: they differ in what they count, not in
  how; the streak factor of a completion's points.
* Time zones: reminders, holidays and the calendar are those of a household in UTC.

Some things are coarser than the code. A refresh of a board reads the household in
one step, although the server makes several statements of it. In `Turns`, `Calendar`
and parts of `Starters` a call is one step; what its statements do to each other is
in `Household`, or is not modelled. In `Dashboard` tokens stay valid. In `Bonuses`
a credit and its entry are one step.

Hazards that no property covers, because no document promises anything about
them, are listed in `PROJECT.json` with their lines: the write-back of a stale
state by update, blind claims of finished chores, double fines by overlapping
passes, double re-issues by overlapping cancel-occurrence calls, decisions of one
booking by two parents, refunds of deleted rewards, a holiday whose first day no
pass sees.

## 6. What modelling brought up

Beside the five runs that TLC finds violated, reading the code for the modules
showed these; the modules behave as the code does.

* `docs/rewards-workflow.md` calls starter rewards with a `catalogKey` protected from
  deletion; `deleteReward` deletes them, and the next start seeds them again,
  disabled. Eligibility is not checked in `redeemReward`.
* A starter catalogue comment (`starter-templates.catalog.ts:120-121`) says that only
  one way of drying is wired per household; a bootstrap without a selection wires
  both.
* A profile change that withdraws keys filters on `isArchived` (HR 8426, 8434), which
  the schema does not have, so it throws before saving; a profile change forgets
  which suggestions were dismissed.
* A push of templates adds follow-ups to customised ones, against the comment at HR
  2560. Two updates of one template leave the rules of both.
* An OIDC sign-in with the e-mail of an existing account wants to link it
  (`docs/authentication.md:51`), but the unique index on the e-mail (`schema.prisma:313`)
  refuses the second identity.
* A follow-up that stays with its member (`docs/chore-workflow.md:45`) is reassigned by
  the sweep at the end of the same call when it is due beyond the freeze window.
* `docs/chore-workflow.md:38` speaks of one perfect day; overlapping completions record
  two (HR 6937).
* An interval or weekday override of the same recurrence type as the template's is
  ignored. A monthly series that meets a short month keeps the earlier day.
* An e-mail that waits when the member registers a device is skipped and no push is
  queued in its place. A reset of the leaderboard that was held up takes the points
  of the new period along (`docs/rewards-workflow.md:49`).

## 7. What is left

1. `Turns` and `Calendar` inside `Household`, so that races and picks meet.
2. Reward terms beside points and dates in one instance.
